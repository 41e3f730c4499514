---------------------------- MODULE MeshService ----------------------------
(***************************************************************************)
(* What mesh/MeshService.cpp keeps for the phone: the queues of packets,    *)
(* queue statuses and notifications, and whether fromNum has moved since    *)
(* the observers were last told.  fromNum and oldFromNum are compared and   *)
(* never read otherwise, so `fromNumChanged' stands for fromNum #           *)
(* oldFromNum.  The operators are the halves of actions of PhoneAPI.        *)
(***************************************************************************)
EXTENDS Naturals, Sequences

CONSTANTS
  MAX_RX_TOPHONE,       \* the room in toPhoneQueue and in the status queue
  MaxNotifications      \* the room in toPhoneClientNotificationQueue

ASSUME ServiceAssumption ==
  MAX_RX_TOPHONE \in Nat \ {0} /\ MaxNotifications \in Nat \ {0}

VARIABLES
  toPhoneQueue,         \* packets, by the number they came as
  toPhoneQueueStatusQueue,
  toPhoneClientNotificationQueue,
  lastQueueStatus,      \* the last status that went into its queue
  fromNumChanged,
  arrived,              \* how many packets sendToPhone was given (history)
  dropped               \* those it did not keep, and whether for a text that found
                        \* the queue full (history)

packetQueue == <<toPhoneQueue, arrived, dropped>>
statusQueue == <<toPhoneQueueStatusQueue, lastQueueStatus>>
service == <<packetQueue, statusQueue, toPhoneClientNotificationQueue, fromNumChanged>>

QueueStatus == [free : BOOLEAN, id : Nat]

ServiceTypeOK ==
  /\ toPhoneQueue \in Seq(1 .. arrived) /\ Len(toPhoneQueue) <= MAX_RX_TOPHONE
  /\ toPhoneQueueStatusQueue \in Seq(QueueStatus)
  /\ Len(toPhoneQueueStatusQueue) <= MAX_RX_TOPHONE
  /\ toPhoneClientNotificationQueue \in Seq(Nat)
  /\ Len(toPhoneClientNotificationQueue) <= MaxNotifications
  /\ lastQueueStatus \in QueueStatus /\ fromNumChanged \in BOOLEAN
  /\ arrived \in Nat /\ dropped \subseteq [num : 1 .. arrived, text : BOOLEAN]

ServiceInit ==
  /\ toPhoneQueue = <<>> /\ toPhoneQueueStatusQueue = <<>>
  /\ toPhoneClientNotificationQueue = <<>>
  /\ lastQueueStatus = [free |-> TRUE, id |-> 0]
  /\ fromNumChanged = FALSE /\ arrived = 0 /\ dropped = {}

(* A slip: one entry too many. *)
DiscardsTooLate(queue, x, capacity) ==
  Append(IF Len(queue) > capacity THEN Tail(queue) ELSE queue, x)

(* A queue of that capacity with x at its end, the oldest discarded for it. *)
DiscardOldest(queue, x, capacity) ==
  Append(IF Len(queue) = capacity THEN Tail(queue) ELSE queue, x)

(* Slips: a full queue drops texts as well; nobody is told. *)
DropsTexts(text) ==
  LET p == arrived + 1
      full == Len(toPhoneQueue) = MAX_RX_TOPHONE
  IN
  /\ arrived' = p
  /\ toPhoneQueue' = IF full THEN toPhoneQueue ELSE Append(toPhoneQueue, p)
  /\ dropped' = dropped \cup IF full THEN {[num |-> p, text |-> text]} ELSE {}
  /\ fromNumChanged' = TRUE

SendsSilently(text) ==
  /\ arrived' = arrived + 1
  /\ toPhoneQueue' = DiscardOldest(toPhoneQueue, arrived + 1, MAX_RX_TOPHONE)
  /\ dropped' = dropped /\ fromNumChanged' = fromNumChanged

(* A text (or range test) makes room for itself, whatever the oldest is;
   another packet is dropped.  Either way the observers are told. *)
EnqueueToPhone(text) ==
  LET p == arrived + 1
      full == Len(toPhoneQueue) = MAX_RX_TOPHONE
  IN
  /\ arrived' = p
  /\ toPhoneQueue' = IF full /\ ~ text THEN toPhoneQueue
                     ELSE DiscardOldest(toPhoneQueue, p, MAX_RX_TOPHONE)
  /\ dropped' = dropped \cup IF ~ full THEN {}
                             ELSE {[num |-> IF text THEN Head(toPhoneQueue) ELSE p,
                                    text |-> text]}
  /\ fromNumChanged' = TRUE

(* A store and forward server, on an ESP32, keeps a text in its history only. *)
LeaveToHistory ==
  /\ arrived' = arrived + 1
  /\ dropped' = dropped \cup {[num |-> arrived + 1, text |-> FALSE]}
  /\ fromNumChanged' = TRUE /\ UNCHANGED toPhoneQueue

(* sendToPhone.  Whether a node that could be such a server is one is a
   setting that a phone may change between two texts. *)
SendToPhone(text) == EnqueueToPhone(text) \/ (text /\ LeaveToHistory)

(* sendQueueStatusToPhone *)
SendQueueStatusToPhone(qs) ==
  /\ toPhoneQueueStatusQueue' = DiscardOldest(toPhoneQueueStatusQueue, qs, MAX_RX_TOPHONE)
  /\ lastQueueStatus' = qs
  /\ fromNumChanged' = TRUE

(* sendClientNotification *)
SendClientNotification(replyId) ==
  /\ toPhoneClientNotificationQueue' =
       DiscardOldest(toPhoneClientNotificationQueue, replyId, MaxNotifications)
  /\ fromNumChanged' = TRUE
=============================================================================
