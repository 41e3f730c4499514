------------------------------ MODULE RadioIf ------------------------------
(***************************************************************************)
(* One node's radio thread: mesh/RadioLibInterface.cpp over                  *)
(* concurrency/NotifiedWorkerThread.cpp and mesh/SX126xInterface.cpp.        *)
(* The thread is woken by a notification of one word, which the interrupt    *)
(* handler overwrites at any moment.  What it has still to do is `todo', a   *)
(* stack of steps between which interrupts and other tasks run.  setStandby  *)
(* handles a pending notification first, so handlers nest.                   *)
(***************************************************************************)
EXTENDS Naturals, FiniteSets, Sequences

CONSTANTS
  Packets,          \* the packets given to send
  Tasks,            \* the tasks that call it: "main" and, on some builds, "ble"
  MaxReconfigures,  \* bound: calls to reconfigure
  NoPacket

ASSUME RadioAssumption ==
  /\ NoPacket \notin Packets /\ Tasks \subseteq {"main", "ble"}
  /\ MaxReconfigures \in Nat

VARIABLES
  txQueue,          \* a set: which packet goes first is MeshPacketQueue's business
  sendingPacket,    \* RadioInterface::sendingPacket or NoPacket
  notification,     \* NotifiedWorkerThread::notification
  due,              \* the thread's interval is over: the scheduler may run it
  chip,             \* what the radio is doing, or has done
  isReceiving,
  isr,              \* the interrupt handler enabled
  txEnabled,        \* config.lora.tx_enabled
  todo, seen,       \* steps to do; the n of checkNotification
  sender,           \* a task within send: queued, setTransmitDelay to come
  fate,             \* of each packet (history)
  lost,             \* a notification was cleared unseen (history)
  failed,           \* the node has crashed
  reconfigures

radio == <<sendingPacket, chip, isReceiving, isr>>
thread == <<notification, due>>
history == <<fate, lost, failed>>
env == <<sender, txEnabled, reconfigures>>
vars == <<txQueue, radio, thread, todo, seen, history, env>>

Steps == {"read", "clear", "transmitted", "received", "attempt", "scan",
          "startSend", "standby", "listen", "armTx", "delay", "timer"}
Fates == {"new", "queued", "sending", "sent", "aborted", "refused", "dropped",
          "disabled", "cancelled"}
Notifications == {"none", "ISR_RX", "ISR_TX", "TRANSMIT_DELAY_COMPLETED"}

(* Types, and that each packet has one owner, who alone releases it. *)
TypeOK ==
  /\ txQueue \subseteq Packets /\ sendingPacket \in Packets \cup {NoPacket}
  /\ notification \in Notifications /\ seen \in Notifications
  /\ due \in BOOLEAN /\ isReceiving \in BOOLEAN /\ lost \in BOOLEAN /\ failed \in BOOLEAN
  /\ txEnabled \in BOOLEAN
  /\ chip \in {"standby", "rx", "rxDone", "tx", "txDone"}
  /\ isr \in {"none", "ISR_RX", "ISR_TX"}
  /\ todo \in Seq(Steps)
  /\ sender \in Tasks \cup {"nobody"}
  /\ fate \in [Packets -> Fates]
  /\ reconfigures \in 0 .. MaxReconfigures
  /\ txQueue = {p \in Packets : fate[p] = "queued"}
  /\ \A p \in Packets : fate[p] = "sending" <=> p = sendingPacket

(* After init's startReceive *)
Init ==
  /\ txQueue = {} /\ sendingPacket = NoPacket
  /\ notification = "none" /\ due = FALSE
  /\ chip = "rx" /\ isReceiving = TRUE /\ isr = "ISR_RX"
  /\ todo = <<>> /\ seen = "none" /\ sender = "nobody"
  /\ fate = [p \in Packets |-> "new"]
  /\ lost = FALSE /\ failed = FALSE /\ txEnabled = TRUE /\ reconfigures = 0

SetStandby == <<"read", "standby">>
StartReceive == SetStandby \o <<"listen">>

(* Slips: receiving is not resumed, or nothing is sent after a transmission. *)
HandlerWithoutStartReceive(n) ==
  CASE n = "ISR_TX" -> <<"transmitted">> \o StartReceive \o <<"timer">>
    [] n = "ISR_RX" -> <<"received", "timer">>
    [] n = "TRANSMIT_DELAY_COMPLETED" -> <<"attempt">>
    [] n = "none" -> <<>>

HandlerWithoutTimer(n) ==
  CASE n = "ISR_TX" -> <<"transmitted">> \o StartReceive
    [] n = "ISR_RX" -> <<"received">> \o StartReceive \o <<"timer">>
    [] n = "TRANSMIT_DELAY_COMPLETED" -> <<"attempt">>
    [] n = "none" -> <<>>

(* onNotify *)
Handler(n) ==
  CASE n = "ISR_TX" -> <<"transmitted">> \o StartReceive \o <<"timer">>
    [] n = "ISR_RX" -> <<"received">> \o StartReceive \o <<"timer">>
    [] n = "TRANSMIT_DELAY_COMPLETED" -> <<"attempt">>
    [] n = "none" -> <<>>

(* The next step of the thread is st, and `then' comes in its place. *)
Do(st, then) ==
  /\ ~ failed /\ todo # <<>> /\ Head(todo) = st
  /\ todo' = then \o Tail(todo)

----------------------------------------------------------------------------
(* notifyLater without overwrite, under startTransmitTimer's condition *)
StartTransmitTimer ==
  IF txQueue # {} /\ notification = "none"
  THEN notification' = "TRANSMIT_DELAY_COMPLETED" /\ due' = FALSE
  ELSE UNCHANGED thread

(* setTransmitDelay looks at the front of the queue without asking whether
   there is one: a fault, or a read of low memory that nobody notices. *)
SetTransmitDelay ==
  /\ StartTransmitTimer
  /\ failed' \in IF txQueue = {} THEN BOOLEAN ELSE {failed}

(* Of a packet the chip has not finished with, completeSending says the same. *)
CompleteSending ==
  /\ sendingPacket' = NoPacket
  /\ fate' = IF sendingPacket = NoPacket THEN fate
             ELSE [fate EXCEPT ![sendingPacket] =
                     IF chip = "txDone" THEN "sent" ELSE "aborted"]

(* runOnce *)
Run ==
  /\ ~ failed /\ todo = <<>> /\ notification # "none" /\ due /\ sender # "main"
  /\ todo' = <<"read">>
  /\ UNCHANGED <<txQueue, radio, thread, seen, history, env>>

(* checkNotification reads the notification and, in another step, clears it. *)
ReadNotification ==
  /\ Do("read", <<"clear">>)
  /\ seen' = notification
  /\ UNCHANGED <<txQueue, radio, thread, history, env>>

ClearNotification ==
  /\ Do("clear", Handler(seen))
  /\ notification' = "none"
  /\ lost' = (lost \/ notification # seen)
  /\ UNCHANGED <<txQueue, radio, due, seen, fate, failed, env>>

HandleTransmitInterrupt ==
  /\ Do("transmitted", <<>>) /\ CompleteSending
  /\ UNCHANGED <<txQueue, chip, isReceiving, isr, thread, seen, lost, failed, env>>

HandleReceiveInterrupt ==
  /\ Do("received", <<>>) /\ isReceiving' = FALSE
  /\ UNCHANGED <<txQueue, sendingPacket, chip, isr, thread, seen, history, env>>

Standby ==
  /\ Do("standby", <<>>) /\ CompleteSending
  /\ chip' = "standby" /\ isReceiving' = FALSE /\ isr' = "none"
  /\ UNCHANGED <<txQueue, thread, seen, lost, failed, env>>

Listen ==
  /\ Do("listen", <<>>)
  /\ chip' = "rx" /\ isReceiving' = TRUE /\ isr' = "ISR_RX"
  /\ UNCHANGED <<txQueue, sendingPacket, thread, seen, history, env>>

(* canSendImmediately; the chip may find itself within a packet at any time
   while it receives, and until the packet is read. *)
BusyRx == IF isReceiving /\ chip \in {"rx", "rxDone"} THEN BOOLEAN ELSE {FALSE}

(* onNotify(TRANSMIT_DELAY_COMPLETED) up to the channel scan *)
AttemptIdle ==
  /\ Do("attempt", <<>>) /\ txQueue = {}
  /\ UNCHANGED <<txQueue, radio, thread, seen, history, env>>

(* A slip: the delay is not started again. *)
AttemptBusyGivesUp ==
  /\ Do("attempt", <<>>) /\ txQueue # {}
  /\ sendingPacket # NoPacket \/ TRUE \in BusyRx
  /\ UNCHANGED <<txQueue, radio, thread, seen, history, env>>

AttemptBusy ==
  /\ Do("attempt", <<>>) /\ txQueue # {}
  /\ sendingPacket # NoPacket \/ TRUE \in BusyRx
  /\ SetTransmitDelay
  /\ UNCHANGED <<txQueue, radio, seen, fate, lost, env>>

(* A slip: the queue may have been emptied since the timer was started. *)
AttemptUnchecked ==
  /\ Do("attempt", SetStandby \o <<"scan">>)
  /\ sendingPacket = NoPacket
  /\ UNCHANGED <<txQueue, radio, thread, seen, history, env>>

Attempt ==
  /\ Do("attempt", SetStandby \o <<"scan">>) /\ txQueue # {}
  /\ sendingPacket = NoPacket
  /\ UNCHANGED <<txQueue, radio, thread, seen, history, env>>

Scan(then) ==
  /\ Do("scan", then)
  /\ UNCHANGED <<txQueue, radio, thread, seen, history, env>>

ChannelActive == Scan(StartReceive \o <<"delay">>)
ChannelFree == Scan(<<"startSend">>)

(* A slip: getFront for dequeue. *)
StartSendOfFront(p) ==
  /\ Do("startSend", <<>>) /\ p \in txQueue /\ sendingPacket = NoPacket
  /\ sendingPacket' = p /\ fate' = [fate EXCEPT ![p] = "sending"]
  /\ chip' = "tx" /\ isr' = "ISR_TX"
  /\ UNCHANGED <<txQueue, isReceiving, thread, seen, lost, failed, env>>

(* dequeue, startSend and beginSending, whose assertions AssertionsHold states *)
StartSend(p) ==
  /\ Do("startSend", <<>>) /\ p \in txQueue /\ txEnabled /\ sendingPacket = NoPacket
  /\ txQueue' = txQueue \ {p} /\ sendingPacket' = p
  /\ fate' = [fate EXCEPT ![p] = "sending"]
  /\ chip' = "tx" /\ isr' = "ISR_TX"
  /\ UNCHANGED <<isReceiving, thread, seen, lost, failed, env>>

(* startSend when transmitting was disabled since the packet was queued: it is
   released, and the radio left in the standby that the scan put it in. *)
StartSendDisabled(p) ==
  /\ Do("startSend", <<>>) /\ p \in txQueue /\ ~ txEnabled
  /\ txQueue' = txQueue \ {p} /\ fate' = [fate EXCEPT ![p] = "dropped"]
  /\ UNCHANGED <<radio, thread, seen, lost, failed, env>>

(* startTransmit fails: the radio listens again, and then startSend enables
   the transmit interrupt as it does after a success. *)
StartTransmitFails(p) ==
  /\ Do("startSend", StartReceive \o <<"armTx">>) /\ p \in txQueue
  /\ txEnabled /\ sendingPacket = NoPacket
  /\ txQueue' = txQueue \ {p}
  /\ fate' = [fate EXCEPT ![p] = "refused"]
  /\ UNCHANGED <<radio, thread, seen, lost, failed, env>>

ArmTx ==
  /\ Do("armTx", <<>>) /\ isr' = "ISR_TX"
  /\ UNCHANGED <<txQueue, sendingPacket, chip, isReceiving, thread, seen, history, env>>

Delay ==
  /\ Do("delay", <<>>) /\ SetTransmitDelay
  /\ UNCHANGED <<txQueue, radio, seen, fate, lost, env>>

Timer ==
  /\ Do("timer", <<>>) /\ StartTransmitTimer
  /\ UNCHANGED <<txQueue, radio, seen, history, env>>

----------------------------------------------------------------------------
(* The chip has received or transmitted a packet: isrLevel0Common, if a
   handler is enabled. *)
ChipDone ==
  /\ ~ failed /\ chip \in {"rx", "tx"}
  /\ chip' = IF chip = "rx" THEN "rxDone" ELSE "txDone"
  /\ isr' = "none"
  /\ IF isr = "none" THEN UNCHANGED thread ELSE notification' = isr /\ due' = TRUE
  /\ UNCHANGED <<txQueue, sendingPacket, isReceiving, todo, seen, history, env>>

DelayOver ==
  /\ ~ failed /\ ~ due /\ notification # "none" /\ due' = TRUE
  /\ UNCHANGED <<txQueue, radio, notification, todo, seen, history, env>>

(* RadioLibInterface::send: the main task calls it between two runs of this
   thread, the Bluetooth task at any moment. *)
Enqueue(task, p) ==
  /\ ~ failed /\ sender = "nobody"
  /\ task = "main" => todo = <<>>
  /\ fate[p] = "new" /\ txEnabled
  /\ txQueue' = txQueue \cup {p} /\ fate' = [fate EXCEPT ![p] = "queued"]
  /\ sender' = task
  /\ UNCHANGED <<radio, thread, todo, seen, lost, failed, txEnabled, reconfigures>>

(* send with ERRNO_DISABLED *)
EnqueueDisabled(task, p) ==
  /\ ~ failed /\ sender = "nobody"
  /\ task = "main" => todo = <<>>
  /\ fate[p] = "new" /\ ~ txEnabled
  /\ fate' = [fate EXCEPT ![p] = "disabled"]
  /\ UNCHANGED <<txQueue, radio, thread, todo, seen, lost, failed, env>>

EnqueueDelay ==
  /\ ~ failed /\ sender # "nobody" /\ SetTransmitDelay
  /\ sender' = "nobody"
  /\ UNCHANGED <<txQueue, radio, todo, seen, fate, lost, txEnabled, reconfigures>>

CancelSending(p) ==
  /\ ~ failed /\ todo = <<>> /\ sender # "main" /\ p \in txQueue
  /\ txQueue' = txQueue \ {p} /\ fate' = [fate EXCEPT ![p] = "cancelled"]
  /\ UNCHANGED <<radio, thread, todo, seen, lost, failed, env>>

(* A change of config.lora reconfigures the radio when it is saved ... *)
Reconfigure ==
  /\ ~ failed /\ todo = <<>> /\ sender # "main" /\ reconfigures < MaxReconfigures
  /\ todo' = SetStandby \o StartReceive
  /\ reconfigures' = reconfigures + 1 /\ txEnabled' \in BOOLEAN
  /\ UNCHANGED <<txQueue, radio, thread, seen, history, sender>>

(* ... but within an edit transaction tx_enabled counts and nothing else. *)
SetTxEnabled ==
  /\ ~ failed /\ todo = <<>> /\ sender # "main"
  /\ txEnabled' = ~ txEnabled
  /\ UNCHANGED <<txQueue, radio, thread, todo, seen, history, sender, reconfigures>>

Thread ==
  \/ Run \/ ReadNotification \/ ClearNotification
  \/ HandleTransmitInterrupt \/ HandleReceiveInterrupt
  \/ Standby \/ Listen \/ AttemptIdle \/ AttemptBusy \/ Attempt
  \/ ChannelActive \/ ChannelFree
  \/ \E p \in Packets : StartSend(p) \/ StartTransmitFails(p) \/ StartSendDisabled(p)
  \/ ArmTx \/ Delay \/ Timer

Next ==
  \/ Thread \/ ChipDone \/ DelayOver \/ EnqueueDelay \/ Reconfigure \/ SetTxEnabled
  \/ \E p \in Packets :
       \/ CancelSending(p)
       \/ \E task \in Tasks : Enqueue(task, p) \/ EnqueueDisabled(task, p)

Spec == Init /\ [][Next]_vars

----------------------------------------------------------------------------
(* The thread is scheduled, delays and transmissions end.  Of the channel: no
   scan and no look at the receiver finds it busy for ever, and there is an
   end to the packets that arrive. *)
Fairness ==
  /\ WF_vars(Thread) /\ WF_vars(DelayOver) /\ WF_vars(EnqueueDelay)
  /\ WF_vars(chip = "tx" /\ ChipDone)
  /\ SF_vars(Attempt) /\ SF_vars(ChannelFree)
  /\ <>[][~ (chip = "rx" /\ ChipDone)]_vars

FairSpec == Spec /\ Fairness

Idle == todo = <<>> /\ sender = "nobody" /\ ~ failed
Pending == notification # "none"

(* What dequeue and beginSending assert, whatever handlers nested before them:
   there is a packet to send, and none is being sent. *)
AssertionsHold ==
  todo # <<>> /\ Head(todo) = "startSend" => txQueue # {} /\ sendingPacket = NoPacket

(* A thread with nothing to do left the radio in a state it will be woken
   from: receiving or sending one packet, with an interrupt handler enabled.
   Only an interrupt between the two steps of checkNotification is lost, and
   only a packet dropped because transmitting was disabled leaves the radio in
   standby: deaf until it is reconfigured or may send another. *)
Attended ==
  ~ lost /\ Idle =>
    \/ Pending
    \/ chip = "rx" /\ isr # "none" /\ isReceiving /\ sendingPacket = NoPacket
    \/ chip = "tx" /\ isr = "ISR_TX" /\ sendingPacket # NoPacket
    \/ chip = "standby" /\ \E p \in Packets : fate[p] = "dropped"

(* reconfigure and a startTransmit that fails may use up the delay of a second
   packet, and neither starts another: it waits for the next one to go by.  So
   does one that is left when another was dropped. *)
Undisturbed ==
  /\ ~ lost /\ ~ failed /\ reconfigures = 0
  /\ \A p \in Packets : fate[p] \notin {"refused", "dropped"}

(* While packets wait, the thread has a reason to run: a delay under way, or
   the end of a transmission. *)
WorkScheduled ==
  Undisturbed /\ Idle /\ txQueue # {} =>
    Pending \/ (chip = "tx" /\ isr = "ISR_TX")

(* So every packet leaves the queue. *)
EventuallyLeaves ==
  \A p \in Packets :
    fate[p] = "queued" ~> fate[p] # "queued" \/ ~ Undisturbed

(* setTransmitDelay is called only if we have something waiting to send. *)
FrontExists == ~ failed
=============================================================================
