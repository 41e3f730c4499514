-------------------------- MODULE PhoneAPIProofs --------------------------
(***************************************************************************)
(* For any sizes of the queues and of the node database, any number of     *)
(* packets, writes and lost links: what the phone downloads, what it is    *)
(* given and told, and what of its own goes out.                           *)
(***************************************************************************)
EXTENDS PhoneAPI, SequenceTheorems, FiniteSetTheorems, TLAPS

Session == [state : States, config_state : Nat, readIndex : 0 .. MAX_NUM_NODES,
            config_nonce : Nonces \cup {0}, notification : Nat]

(* The session: a download begins with the own node. *)
ApiOK ==
  api \in Session /\ (api.state \in {"MY_INFO", "OWN_NODEINFO"} => api.readIndex = 0)

TasksOK == mainLoop \in {"idle", "notified"} /\ traced \in BOOLEAN /\ free \in BOOLEAN

(* The phone, and the node database as it was when the download began: a   *)
(* node that goes makes room for another.                                  *)
LinkOK ==
  /\ link \in BOOLEAN /\ reading \in BOOLEAN /\ told \in BOOLEAN
  /\ blocked \in BOOLEAN /\ repeated \in BOOLEAN
  /\ asked \in Nonces \cup {0} /\ skipped \in Nat
  /\ reading \/ told \/ asked # 0 => link
  /\ meshNodes \in Seq(Nat) /\ Len(meshNodes) = MAX_NUM_NODES

Others(id) == {other \in 1 .. nextId - 1 : other # id}

(* The ids remembered are distinct and of packets the phone has made; one  *)
(* that was sent and is not among them was followed by as many others.     *)
RememberedOK ==
  /\ nextId \in 1 .. MaxIds + 1 /\ sent \in [1 .. MaxIds -> Nat]
  /\ recentToRadioPacketIds \in Seq(1 .. MaxIds) /\ Len(recentToRadioPacketIds) <= Recent
  /\ \A i, j \in 1 .. Len(recentToRadioPacketIds) :
       recentToRadioPacketIds[i] = recentToRadioPacketIds[j] => i = j
  /\ \A i \in 1 .. Len(recentToRadioPacketIds) : recentToRadioPacketIds[i] < nextId
  /\ \A id \in 1 .. MaxIds :
       sent[id] > 0 /\ ~ SeenRecently(id) => Cardinality(Others(id)) >= Recent

(* Between the two steps of loop a phone that has packets waiting for it   *)
(* has been told or reads.                                                 *)
AnnouncedOK ==
  mainLoop = "notified" /\ api.state = "PACKETS" /\ link /\ toPhoneQueue # <<>> => reading \/ told

(* Packets are read in the order they came, those that wait came after     *)
(* those read, and after each of them at least those that wait behind it.  *)
OrderOK ==
  /\ received \in Seq(1 .. arrived)
  /\ \A i, j \in 1 .. Len(received) : i < j => received[i] < received[j]
  /\ \A i, j \in 1 .. Len(toPhoneQueue) : i < j => toPhoneQueue[i] < toPhoneQueue[j]
  /\ \A i \in 1 .. Len(received), j \in 1 .. Len(toPhoneQueue) : received[i] < toPhoneQueue[j]
  /\ \A i \in 1 .. Len(toPhoneQueue) : toPhoneQueue[i] + (Len(toPhoneQueue) - i) <= arrived

Excused(n) ==
  n \in lostInRead \/ \E p \in dropped : p.num = n /\ (p.text => arrived - n >= MAX_RX_TOPHONE)

AccountedOK ==
  \A n \in 1 .. arrived :
    \/ \E i \in 1 .. Len(received) : received[i] = n
    \/ \E i \in 1 .. Len(toPhoneQueue) : toPhoneQueue[i] = n
    \/ Excused(n)

Inv == /\ ServiceTypeOK /\ ApiOK /\ TasksOK /\ LinkOK /\ AnnouncedOK /\ PacketsAnnounced
       /\ RememberedOK /\ SentOnce /\ OrderOK /\ AccountedOK

---------------------------------------------------------------------------
(* The queues. *)

LEMMA Positive == MAX_RX_TOPHONE \in Nat \ {0} /\ MaxNotifications \in Nat \ {0}
                  /\ Recent \in Nat \ {0} /\ MAX_NUM_NODES \in Nat \ {0} /\ MaxIds \in Nat
  BY ServiceAssumption, PhoneAssumption

(* What DiscardOldest leaves: the queue, without its oldest if it was full,*)
(* and the new one last.                                                   *)
LEMMA DiscardFull ==
  ASSUME NEW S, NEW queue \in Seq(S), NEW x \in S, NEW capacity \in Nat \ {0}, Len(queue) = capacity,
         NEW d, d = DiscardOldest(queue, x, capacity)
  PROVE  /\ d \in Seq(S) /\ Len(d) = Len(queue) /\ Len(d) \in 1 .. capacity /\ d[Len(d)] = x
         /\ \A i \in 1 .. Len(d) - 1 : i + 1 \in 1 .. Len(queue) /\ d[i] = queue[i + 1]
<1>1. queue # <<>> /\ Len(queue) \in Nat
  BY LenProperties, EmptySeq
<1>2. PICK t \in Seq(S) : t = Tail(queue)
  BY <1>1, HeadTailProperties
<1>3. Len(t) = Len(queue) - 1 /\ \A i \in 1 .. Len(t) : t[i] = queue[i + 1]
  BY <1>1, <1>2, HeadTailProperties
<1>4. d = Append(t, x)
  BY <1>2 DEF DiscardOldest
<1>5. d \in Seq(S) /\ Len(d) = Len(t) + 1 /\ d[Len(t) + 1] = x /\ \A i \in 1 .. Len(t) : d[i] = t[i]
  BY <1>2, <1>4, AppendProperties
<1>6. Len(d) = Len(queue) /\ Len(d) - 1 = Len(t) /\ \A i \in 1 .. Len(t) : i + 1 \in 1 .. Len(queue)
  BY <1>1, <1>3, <1>5, SMT
<1>7. Len(d) \in 1 .. capacity
  BY <1>1, <1>6, SMT
<1>. QED
  BY <1>3, <1>5, <1>6, <1>7

LEMMA DiscardRoom ==
  ASSUME NEW S, NEW queue \in Seq(S), NEW x \in S, NEW capacity \in Nat \ {0},
         Len(queue) <= capacity, Len(queue) # capacity, NEW d, d = DiscardOldest(queue, x, capacity)
  PROVE  /\ d \in Seq(S) /\ Len(d) = Len(queue) + 1 /\ Len(d) \in 1 .. capacity /\ d[Len(d)] = x
         /\ \A i \in 1 .. Len(d) - 1 : i \in 1 .. Len(queue) /\ d[i] = queue[i]
<1>1. Len(queue) \in Nat
  BY LenProperties
<1>2. d = Append(queue, x)
  BY DEF DiscardOldest
<1>3. d \in Seq(S) /\ Len(d) = Len(queue) + 1 /\ d[Len(queue) + 1] = x
      /\ \A i \in 1 .. Len(queue) : d[i] = queue[i]
  BY <1>2, AppendProperties
<1>4. Len(d) - 1 = Len(queue) /\ Len(d) \in 1 .. capacity
  BY <1>1, <1>3, SMT
<1>. QED
  BY <1>3, <1>4

LEMMA DiscardFacts ==
  ASSUME NEW S, NEW queue \in Seq(S), NEW x \in S, NEW capacity \in Nat \ {0}, Len(queue) <= capacity,
         NEW d, d = DiscardOldest(queue, x, capacity)
  PROVE  d \in Seq(S) /\ Len(d) \in 1 .. capacity
  BY DiscardFull, DiscardRoom

LEMMA StatusOK ==
  ASSUME ServiceTypeOK, NEW qs \in QueueStatus, SendQueueStatusToPhone(qs)
  PROVE  /\ toPhoneQueueStatusQueue' \in Seq(QueueStatus) /\ Len(toPhoneQueueStatusQueue') <= MAX_RX_TOPHONE
         /\ lastQueueStatus' \in QueueStatus /\ fromNumChanged' = TRUE
<1>1. toPhoneQueueStatusQueue \in Seq(QueueStatus) /\ Len(toPhoneQueueStatusQueue) <= MAX_RX_TOPHONE
  BY DEF ServiceTypeOK
<1>2. toPhoneQueueStatusQueue' = DiscardOldest(toPhoneQueueStatusQueue, qs, MAX_RX_TOPHONE)
      /\ lastQueueStatus' = qs /\ fromNumChanged' = TRUE
  BY DEF SendQueueStatusToPhone
<1>3. toPhoneQueueStatusQueue' \in Seq(QueueStatus) /\ Len(toPhoneQueueStatusQueue') \in 1 .. MAX_RX_TOPHONE
  BY <1>1, <1>2, DiscardFacts, Positive
<1>. QED
  BY <1>2, <1>3, Positive

LEMMA NotificationOK ==
  ASSUME ServiceTypeOK, NEW id \in Nat, SendClientNotification(id)
  PROVE  /\ toPhoneClientNotificationQueue' \in Seq(Nat)
         /\ Len(toPhoneClientNotificationQueue') <= MaxNotifications
<1>1. toPhoneClientNotificationQueue \in Seq(Nat) /\ Len(toPhoneClientNotificationQueue) <= MaxNotifications
  BY DEF ServiceTypeOK
<1>2. toPhoneClientNotificationQueue' = DiscardOldest(toPhoneClientNotificationQueue, id, MaxNotifications)
  BY DEF SendClientNotification
<1>3. toPhoneClientNotificationQueue' \in Seq(Nat) /\ Len(toPhoneClientNotificationQueue') \in 1 .. MaxNotifications
  BY <1>1, <1>2, DiscardFacts, Positive
<1>. QED
  BY <1>3, Positive


---------------------------------------------------------------------------
(* What the service keeps stays in its domain. *)

LEMMA EnqueueFacts ==
  ASSUME ServiceTypeOK, NEW text \in BOOLEAN, EnqueueToPhone(text)
  PROVE  /\ arrived' = arrived + 1 /\ fromNumChanged' = TRUE
         /\ Len(toPhoneQueue) \in Nat
         /\ toPhoneQueue' \in Seq(1 .. arrived + 1) /\ Len(toPhoneQueue') \in 1 .. MAX_RX_TOPHONE
         /\ \/ /\ Len(toPhoneQueue) = MAX_RX_TOPHONE /\ ~ text /\ toPhoneQueue' = toPhoneQueue
               /\ dropped' = dropped \cup {[num |-> arrived + 1, text |-> FALSE]}
            \/ /\ Len(toPhoneQueue) = MAX_RX_TOPHONE /\ text /\ toPhoneQueue # <<>>
               /\ dropped' = dropped \cup {[num |-> toPhoneQueue[1], text |-> TRUE]}
               /\ Len(toPhoneQueue') = Len(toPhoneQueue)
               /\ toPhoneQueue'[Len(toPhoneQueue')] = arrived + 1
               /\ \A i \in 1 .. Len(toPhoneQueue') - 1 :
                    i + 1 \in 1 .. Len(toPhoneQueue) /\ toPhoneQueue'[i] = toPhoneQueue[i + 1]
            \/ /\ Len(toPhoneQueue) < MAX_RX_TOPHONE /\ dropped' = dropped
               /\ Len(toPhoneQueue') = Len(toPhoneQueue) + 1
               /\ toPhoneQueue'[Len(toPhoneQueue')] = arrived + 1
               /\ \A i \in 1 .. Len(toPhoneQueue') - 1 :
                    i \in 1 .. Len(toPhoneQueue) /\ toPhoneQueue'[i] = toPhoneQueue[i]
<1>1. /\ arrived \in Nat /\ toPhoneQueue \in Seq(1 .. arrived) /\ Len(toPhoneQueue) <= MAX_RX_TOPHONE
      /\ Len(toPhoneQueue) \in Nat
  BY LenProperties DEF ServiceTypeOK
<1>2. toPhoneQueue \in Seq(1 .. arrived + 1)
  <2>1. 1 .. arrived \subseteq 1 .. arrived + 1
    BY <1>1, SMT
  <2>. QED
    BY <1>1, <2>1, SeqMonotonic
<1>3. arrived + 1 \in 1 .. arrived + 1
  BY <1>1, SMT
<1>4. arrived' = arrived + 1 /\ fromNumChanged' = TRUE
  BY DEF EnqueueToPhone
<1>a. PICK S : S = 1 .. arrived + 1
  OBVIOUS
<1>5. CASE Len(toPhoneQueue) = MAX_RX_TOPHONE /\ ~ text
  <2>1. /\ toPhoneQueue' = toPhoneQueue
        /\ dropped' = dropped \cup {[num |-> arrived + 1, text |-> text]} /\ text = FALSE
    BY <1>5 DEF EnqueueToPhone
  <2>2. Len(toPhoneQueue') \in 1 .. MAX_RX_TOPHONE
    BY <1>5, <2>1, Positive
  <2>. QED
    BY <1>1, <1>2, <1>4, <1>5, <2>1, <2>2
<1>6. CASE Len(toPhoneQueue) = MAX_RX_TOPHONE /\ text
  <2>1. /\ toPhoneQueue' = DiscardOldest(toPhoneQueue, arrived + 1, MAX_RX_TOPHONE)
        /\ dropped' = dropped \cup {[num |-> Head(toPhoneQueue), text |-> text]} /\ text = TRUE
    BY <1>6 DEF EnqueueToPhone
  <2>2. toPhoneQueue # <<>>
    BY <1>6, EmptySeq, Positive
  <2>3. Head(toPhoneQueue) = toPhoneQueue[1]
    BY <1>1, <2>2, HeadTailProperties
  <2>4. /\ toPhoneQueue' \in Seq(1 .. arrived + 1) /\ Len(toPhoneQueue') \in 1 .. MAX_RX_TOPHONE
        /\ Len(toPhoneQueue') = Len(toPhoneQueue) /\ toPhoneQueue'[Len(toPhoneQueue')] = arrived + 1
        /\ \A i \in 1 .. Len(toPhoneQueue') - 1 :
             i + 1 \in 1 .. Len(toPhoneQueue) /\ toPhoneQueue'[i] = toPhoneQueue[i + 1]
    <3>1. PICK q \in Seq(S) : q = toPhoneQueue
      BY <1>2, <1>a
    <3>2. PICK x \in S : x = arrived + 1
      BY <1>3, <1>a
    <3>3. PICK d : d = DiscardOldest(q, x, MAX_RX_TOPHONE)
      OBVIOUS
    <3>4. /\ d \in Seq(S) /\ Len(d) = Len(q) /\ Len(d) \in 1 .. MAX_RX_TOPHONE
          /\ d[Len(d)] = x
          /\ \A i \in 1 .. Len(d) - 1 : i + 1 \in 1 .. Len(q) /\ d[i] = q[i + 1]
      BY <1>6, <3>1, <3>3, DiscardFull, Positive
    <3>. QED
      BY <1>a, <2>1, <3>1, <3>2, <3>3, <3>4
  <2>. QED
    BY <1>1, <1>4, <1>6, <2>1, <2>2, <2>3, <2>4
<1>7. CASE Len(toPhoneQueue) # MAX_RX_TOPHONE
  <2>1. /\ toPhoneQueue' = DiscardOldest(toPhoneQueue, arrived + 1, MAX_RX_TOPHONE)
        /\ dropped' = dropped
    BY <1>7 DEF EnqueueToPhone
  <2>2. /\ toPhoneQueue' \in Seq(1 .. arrived + 1) /\ Len(toPhoneQueue') \in 1 .. MAX_RX_TOPHONE
        /\ Len(toPhoneQueue') = Len(toPhoneQueue) + 1 /\ toPhoneQueue'[Len(toPhoneQueue')] = arrived + 1
        /\ \A i \in 1 .. Len(toPhoneQueue') - 1 :
             i \in 1 .. Len(toPhoneQueue) /\ toPhoneQueue'[i] = toPhoneQueue[i]
    <3>1. PICK q \in Seq(S) : q = toPhoneQueue
      BY <1>2, <1>a
    <3>2. PICK x \in S : x = arrived + 1
      BY <1>3, <1>a
    <3>3. PICK d : d = DiscardOldest(q, x, MAX_RX_TOPHONE)
      OBVIOUS
    <3>4. Len(q) # MAX_RX_TOPHONE /\ Len(q) <= MAX_RX_TOPHONE
      BY <1>1, <1>7, <3>1
    <3>5. /\ d \in Seq(S) /\ Len(d) = Len(q) + 1 /\ Len(d) \in 1 .. MAX_RX_TOPHONE
          /\ d[Len(d)] = x
          /\ \A i \in 1 .. Len(d) - 1 : i \in 1 .. Len(q) /\ d[i] = q[i]
      BY <3>3, <3>4, DiscardRoom, Positive
    <3>. QED
      BY <1>a, <2>1, <3>1, <3>2, <3>3, <3>5
  <2>3. Len(toPhoneQueue) < MAX_RX_TOPHONE
    BY <1>1, <1>7, Positive
  <2>. QED
    BY <1>1, <1>4, <2>1, <2>2, <2>3
<1>. QED
  BY <1>5, <1>6, <1>7

LEMMA SendToPhoneFacts ==
  ASSUME ServiceTypeOK, NEW text \in BOOLEAN, SendToPhone(text)
  PROVE  /\ arrived' = arrived + 1 /\ fromNumChanged' = TRUE
         /\ Len(toPhoneQueue) \in Nat
         /\ toPhoneQueue' \in Seq(1 .. arrived + 1) /\ Len(toPhoneQueue') <= MAX_RX_TOPHONE
         /\ \/ /\ toPhoneQueue' = toPhoneQueue
               /\ dropped' = dropped \cup {[num |-> arrived + 1, text |-> FALSE]}
            \/ /\ Len(toPhoneQueue) = MAX_RX_TOPHONE /\ text /\ toPhoneQueue # <<>>
               /\ dropped' = dropped \cup {[num |-> toPhoneQueue[1], text |-> TRUE]}
               /\ Len(toPhoneQueue') = Len(toPhoneQueue) /\ Len(toPhoneQueue') \in 1 .. MAX_RX_TOPHONE
               /\ toPhoneQueue'[Len(toPhoneQueue')] = arrived + 1
               /\ \A i \in 1 .. Len(toPhoneQueue') - 1 :
                    i + 1 \in 1 .. Len(toPhoneQueue) /\ toPhoneQueue'[i] = toPhoneQueue[i + 1]
            \/ /\ Len(toPhoneQueue) < MAX_RX_TOPHONE /\ dropped' = dropped
               /\ Len(toPhoneQueue') = Len(toPhoneQueue) + 1 /\ Len(toPhoneQueue') \in 1 .. MAX_RX_TOPHONE
               /\ toPhoneQueue'[Len(toPhoneQueue')] = arrived + 1
               /\ \A i \in 1 .. Len(toPhoneQueue') - 1 :
                    i \in 1 .. Len(toPhoneQueue) /\ toPhoneQueue'[i] = toPhoneQueue[i]
<1>1. CASE EnqueueToPhone(text)
  <2>1. \A n \in 1 .. MAX_RX_TOPHONE : n <= MAX_RX_TOPHONE
    BY Positive, SMT
  <2>. QED
    BY <1>1, <2>1, EnqueueFacts, Zenon
<1>2. CASE LeaveToHistory
  <2>1. /\ arrived' = arrived + 1 /\ fromNumChanged' = TRUE /\ toPhoneQueue' = toPhoneQueue
        /\ dropped' = dropped \cup {[num |-> arrived + 1, text |-> FALSE]}
    BY <1>2 DEF LeaveToHistory
  <2>2. /\ arrived \in Nat /\ toPhoneQueue \in Seq(1 .. arrived) /\ Len(toPhoneQueue) <= MAX_RX_TOPHONE
        /\ Len(toPhoneQueue) \in Nat
    BY LenProperties DEF ServiceTypeOK
  <2>3. 1 .. arrived \subseteq 1 .. arrived + 1
    BY <2>2, SMT
  <2>4. toPhoneQueue \in Seq(1 .. arrived + 1)
    BY <2>2, <2>3, SeqMonotonic
  <2>. QED
    BY <2>1, <2>2, <2>4
<1>. QED
  BY <1>1, <1>2 DEF SendToPhone

LEMMA NotificationsFacts ==
  ASSUME ServiceTypeOK, ApiOK
  PROVE  /\ Notifications \in Seq(Nat)
         /\ Notifications # <<>> => /\ Head(Notifications) \in Nat /\ Tail(Notifications) \in Seq(Nat)
                                    /\ Len(Tail(Notifications)) <= MaxNotifications
<1>1. PICK q \in Seq(Nat) : q = toPhoneClientNotificationQueue /\ Len(q) <= MaxNotifications
  BY DEF ServiceTypeOK
<1>2. PICK n \in Nat : n = api.notification
  BY DEF ApiOK, Session
<1>3. PICK s : s = Notifications
  OBVIOUS
<1>4. Len(q) \in Nat /\ MaxNotifications \in Nat
  BY LenProperties, Positive
<1>5. s \in Seq(Nat) /\ Len(s) \in Nat /\ Len(s) <= MaxNotifications + 1
  <2>1. CASE n = 0
    BY <1>1, <1>2, <1>3, <1>4, <2>1, SMT DEF Notifications
  <2>2. CASE n # 0
    <3>1. PICK h \in Seq(Nat) : h = <<n>> /\ Len(h) = 1
      <4>1. <<n>> \in Seq(Nat) /\ Len(<<n>>) = 1
        OBVIOUS
      <4>. QED
        BY <4>1
    <3>2. s = h \o q
      BY <1>1, <1>2, <1>3, <2>2, <3>1 DEF Notifications
    <3>3. s \in Seq(Nat) /\ Len(s) = Len(h) + Len(q)
      BY <3>2, ConcatProperties
    <3>. QED
      BY <1>1, <1>4, <3>1, <3>3, SMT
  <2>. QED
    BY <2>1, <2>2
<1>6. s # <<>> => Head(s) \in Nat /\ Tail(s) \in Seq(Nat) /\ Len(Tail(s)) <= MaxNotifications
  <2>1. s # <<>> => Head(s) \in Nat /\ Tail(s) \in Seq(Nat) /\ Len(Tail(s)) = Len(s) - 1
    BY <1>5, HeadTailProperties
  <2>. QED
    BY <1>4, <1>5, <2>1
<1>. QED
  BY <1>3, <1>5, <1>6

(* One action of each that touches the service's queues. *)
Untouched == UNCHANGED <<toPhoneQueue, arrived, dropped>>

LEMMA ServiceKept ==
  ASSUME ServiceTypeOK, Untouched,
         toPhoneQueueStatusQueue' \in Seq(QueueStatus), Len(toPhoneQueueStatusQueue') <= MAX_RX_TOPHONE,
         toPhoneClientNotificationQueue' \in Seq(Nat),
         Len(toPhoneClientNotificationQueue') <= MaxNotifications,
         lastQueueStatus' \in QueueStatus, fromNumChanged' \in BOOLEAN
  PROVE  ServiceTypeOK'
  BY Zenon DEF ServiceTypeOK, Untouched

LEMMA ServiceUnchanged == ServiceTypeOK /\ UNCHANGED service => ServiceTypeOK'
  BY Zenon DEF ServiceTypeOK, service, packetQueue, statusQueue

LEMMA HandleFromRadioService ==
  ASSUME ServiceTypeOK, NEW text \in BOOLEAN, HandleFromRadio(text)
  PROVE  ServiceTypeOK'
<1>1. SendToPhone(text) /\ UNCHANGED <<toPhoneQueueStatusQueue, lastQueueStatus, toPhoneClientNotificationQueue>>
  BY DEF HandleFromRadio, statusQueue
<1>2. arrived \in Nat /\ dropped \subseteq [num : 1 .. arrived, text : BOOLEAN]
  BY DEF ServiceTypeOK
<1>3. /\ arrived' = arrived + 1 /\ fromNumChanged' \in BOOLEAN
      /\ toPhoneQueue' \in Seq(1 .. arrived') /\ Len(toPhoneQueue') <= MAX_RX_TOPHONE
  <2>1. /\ arrived' = arrived + 1 /\ fromNumChanged' = TRUE
        /\ toPhoneQueue' \in Seq(1 .. arrived + 1) /\ Len(toPhoneQueue') <= MAX_RX_TOPHONE
    BY <1>1, SendToPhoneFacts, Zenon
  <2>. QED
    BY <2>1
<1>4. PICK p \in [num : 1 .. arrived + 1, text : BOOLEAN] : dropped' \subseteq dropped \cup {p}
  <2>1. arrived + 1 \in 1 .. arrived + 1 /\ TRUE \in BOOLEAN /\ FALSE \in BOOLEAN
    BY <1>2, SMT
  <2>2. toPhoneQueue # <<>> => toPhoneQueue[1] \in 1 .. arrived + 1
    <3>1. toPhoneQueue \in Seq(1 .. arrived)
      BY DEF ServiceTypeOK
    <3>2. toPhoneQueue # <<>> => toPhoneQueue[1] \in 1 .. arrived
      <4>1. toPhoneQueue # <<>> => 1 \in 1 .. Len(toPhoneQueue)
        BY <3>1, EmptySeq, LenProperties
      <4>. QED
        BY <3>1, <4>1, ElementOfSeq
    <3>3. 1 .. arrived \subseteq 1 .. arrived + 1
      BY <1>2, SMT
    <3>. QED
      BY <3>2, <3>3
  <2>3. \E num \in 1 .. arrived + 1, t \in BOOLEAN : dropped' \subseteq dropped \cup {[num |-> num, text |-> t]}
    BY <1>1, <2>1, <2>2, SendToPhoneFacts
  <2>. QED
    BY <2>3
<1>5. dropped' \subseteq [num : 1 .. arrived', text : BOOLEAN]
  <2>1. [num : 1 .. arrived, text : BOOLEAN] \subseteq [num : 1 .. arrived + 1, text : BOOLEAN]
    BY <1>2, SMT
  <2>. QED
    BY <1>2, <1>3, <1>4, <2>1, Zenon
<1>. QED
  BY <1>1, <1>2, <1>3, <1>5 DEF ServiceTypeOK

LEMMA ServiceNext ==
  ASSUME ServiceTypeOK, ApiOK, TasksOK, [Next]_vars
  PROVE  ServiceTypeOK'
<1>1. CASE \E text \in BOOLEAN : HandleFromRadio(text)
  BY <1>1, HandleFromRadioService
<1>2. CASE LoopNotify
  <2>1. Untouched /\ UNCHANGED toPhoneClientNotificationQueue
    BY <1>2 DEF LoopNotify, Untouched, packetQueue
  <2>2. CASE UNCHANGED <<toPhoneQueueStatusQueue, lastQueueStatus, fromNumChanged>>
    BY <2>1, <2>2, ServiceUnchanged DEF service, packetQueue, statusQueue, Untouched
  <2>3. CASE SendQueueStatusToPhone([free |-> free, id |-> 0])
    <3>1. [free |-> free, id |-> 0] \in QueueStatus
      BY DEF TasksOK, QueueStatus
    <3>. QED
      BY <2>1, <2>3, <3>1, StatusOK, ServiceKept DEF ServiceTypeOK
  <2>. QED
    BY <1>2, <2>2, <2>3 DEF LoopNotify, statusQueue
<1>3. CASE LoopStore
  <2>1. /\ Untouched /\ fromNumChanged' \in BOOLEAN
        /\ UNCHANGED <<toPhoneQueueStatusQueue, lastQueueStatus, toPhoneClientNotificationQueue>>
    BY <1>3 DEF LoopStore, Untouched, packetQueue, statusQueue
  <2>. QED
    BY <2>1, ServiceKept DEF ServiceTypeOK
<1>4. CASE \E id \in 1 .. MaxIds, traceroute \in BOOLEAN : HandleToRadioPacket(id, traceroute)
  <2>1. PICK id \in 1 .. MaxIds, traceroute \in BOOLEAN : HandleToRadioPacket(id, traceroute)
    BY <1>4
  <2>2. Untouched
    BY <2>1 DEF HandleToRadioPacket, Untouched, packetQueue
  <2>3. id \in Nat
    BY Positive, SMT
  <2>4. CASE UNCHANGED <<toPhoneQueueStatusQueue, lastQueueStatus, toPhoneClientNotificationQueue, fromNumChanged>>
    BY <2>2, <2>4, ServiceUnchanged DEF service, packetQueue, statusQueue, Untouched
  <2>5. CASE RateLimited(id)
    <3>1. [free |-> free, id |-> id] \in QueueStatus
      BY <2>3 DEF TasksOK, QueueStatus
    <3>. QED
      BY <2>2, <2>3, <2>5, <3>1, StatusOK, NotificationOK, ServiceKept DEF RateLimited
  <2>6. CASE HandleToRadio(id, traceroute)
    <3>1. free' \in BOOLEAN
      BY <2>6 DEF HandleToRadio, TasksOK
    <3>2. [free |-> free', id |-> id] \in QueueStatus
      BY <2>3, <3>1 DEF QueueStatus
    <3>. QED
      BY <2>2, <2>6, <3>2, StatusOK, ServiceKept DEF HandleToRadio, ServiceTypeOK
  <2>. QED
    BY <2>1, <2>4, <2>5, <2>6 DEF HandleToRadioPacket, statusQueue
<1>5. CASE SendQueueStatus
  <2>1. /\ Untouched /\ toPhoneQueueStatusQueue # <<>> /\ toPhoneQueueStatusQueue' = Tail(toPhoneQueueStatusQueue)
        /\ UNCHANGED <<lastQueueStatus, fromNumChanged>>
        /\ toPhoneClientNotificationQueue' = IF Notifications = <<>> THEN <<>> ELSE Tail(Notifications)
    BY <1>5 DEF SendQueueStatus, FetchNotification, Untouched, packetQueue
  <2>2. toPhoneQueueStatusQueue \in Seq(QueueStatus) /\ Len(toPhoneQueueStatusQueue) <= MAX_RX_TOPHONE
    BY DEF ServiceTypeOK
  <2>3. toPhoneQueueStatusQueue' \in Seq(QueueStatus) /\ Len(toPhoneQueueStatusQueue') <= MAX_RX_TOPHONE
    <3>1. PICK t : t = Tail(toPhoneQueueStatusQueue)
      OBVIOUS
    <3>2. t \in Seq(QueueStatus) /\ Len(t) = Len(toPhoneQueueStatusQueue) - 1
      BY <2>1, <2>2, <3>1, HeadTailProperties
    <3>. QED
      BY <2>1, <2>2, <3>1, <3>2, LenProperties, Positive
  <2>4. toPhoneClientNotificationQueue' \in Seq(Nat) /\ Len(toPhoneClientNotificationQueue') <= MaxNotifications
    <3>1. <<>> \in Seq(Nat) /\ Len(<<>>) <= MaxNotifications
      BY Positive
    <3>. QED
      BY <2>1, <3>1, NotificationsFacts
  <2>. QED
    BY <2>1, <2>3, <2>4, ServiceKept DEF ServiceTypeOK
<1>6. CASE SendNotification
  <2>1. /\ Untouched /\ UNCHANGED <<toPhoneQueueStatusQueue, lastQueueStatus, fromNumChanged>>
        /\ toPhoneClientNotificationQueue' = Tail(Notifications) /\ Notifications # <<>>
    BY <1>6 DEF SendNotification, Untouched, packetQueue, statusQueue
  <2>. QED
    BY <2>1, NotificationsFacts, ServiceKept DEF ServiceTypeOK
<1>7. CASE SendPacket
  <2>1. /\ toPhoneQueue # <<>> /\ toPhoneQueue' = Tail(toPhoneQueue)
        /\ UNCHANGED <<arrived, dropped, toPhoneQueueStatusQueue, lastQueueStatus, toPhoneClientNotificationQueue,
                       fromNumChanged>>
    BY <1>7 DEF SendPacket, statusQueue
  <2>2. PICK t : t = Tail(toPhoneQueue)
    OBVIOUS
  <2>3. toPhoneQueue \in Seq(1 .. arrived) /\ Len(toPhoneQueue) <= MAX_RX_TOPHONE /\ Len(toPhoneQueue) \in Nat
    BY LenProperties DEF ServiceTypeOK
  <2>4. t \in Seq(1 .. arrived) /\ Len(t) = Len(toPhoneQueue) - 1
    BY <2>1, <2>2, <2>3, HeadTailProperties
  <2>5. Len(t) <= MAX_RX_TOPHONE
    BY <2>3, <2>4, Positive
  <2>. QED
    BY <2>1, <2>2, <2>4, <2>5, Zenon DEF ServiceTypeOK
<1>8. CASE UNCHANGED service
  BY <1>8, ServiceUnchanged
<1>9. CASE PhoneReads
  <2>1. CASE SendMyInfo \/ SendOwnNodeInfo \/ SendMetadata \/ SendChannel \/ SendConfig
    BY <1>8, <2>1 DEF SendMyInfo, SendOwnNodeInfo, SendMetadata, SendChannel, SendConfig, Step
  <2>2. CASE SendModuleConfig \/ SendNodeInfo \/ SendFileInfo \/ SendConfigComplete \/ NothingToRead
    BY <1>8, <2>2 DEF SendModuleConfig, SendNodeInfo, SendFileInfo, SendConfigComplete, NothingToRead, Step
  <2>. QED
    BY <1>5, <1>6, <1>7, <1>9, <2>1, <2>2 DEF PhoneReads
<1>10. CASE PhoneWrites
  <2>1. CASE \E nonce \in Nonces : WantConfig(nonce)
    BY <1>8, <2>1 DEF WantConfig, Ask
  <2>2. CASE Disconnect
    BY <1>8, <2>2 DEF Disconnect
  <2>. QED
    BY <1>4, <1>10, <2>1, <2>2 DEF PhoneWrites
<1>11. CASE \E i \in 2 .. MAX_NUM_NODES : Evict(i)
  BY <1>8, <1>11 DEF Evict
<1>12. CASE TxQueueDrains \/ Connect \/ LinkLost \/ OnDisconnect \/ Notified
  BY <1>8, <1>12 DEF TxQueueDrains, Connect, LinkLost, OnDisconnect, Notified
<1>13. CASE UNCHANGED vars
  BY <1>8, <1>13 DEF vars
<1>. QED
  BY <1>1, <1>2, <1>3, <1>9, <1>10, <1>11, <1>12, <1>13 DEF Next

---------------------------------------------------------------------------
(* The session and the phone stay in theirs. *)

LEMMA AllNodesFacts == AllNodes \in Seq(Nat) /\ Len(AllNodes) = MAX_NUM_NODES
<1>1. PICK n \in Nat : n = MAX_NUM_NODES
  BY Positive
<1>2. \A i \in 1 .. n : i \in Nat
  OBVIOUS
<1>. QED
  BY <1>1, <1>2 DEF AllNodes

LEMMA LinkGoneOK ==
  ASSUME LinkGone
  PROVE  LinkOK' /\ ~ link' /\ ~ reading' /\ ~ told' /\ asked' = 0
  BY AllNodesFacts DEF LinkGone, Forget, LinkOK

(* What a read does besides its effect on the session and the queues. *)
LEMMA GetFrame ==
  ASSUME LinkOK, NEW state, NEW x, GetFromRadio(state, x)
  PROVE  /\ link /\ reading /\ api.state = state /\ LinkOK'
         /\ UNCHANGED <<recentToRadioPacketIds, traced, free, mainLoop, nextId, sent>>
         /\ ~ link' \/ UNCHANGED <<link, reading, told>>
         /\ x[1] # "packet" => UNCHANGED <<received, lostInRead>>
<1>1. /\ link /\ reading /\ api.state = state
      /\ UNCHANGED <<recentToRadioPacketIds, traced, free, mainLoop, nextId, sent>>
  BY DEF GetFromRadio
<1>2. CASE Receive(x)
  <2>1. UNCHANGED <<link, reading, told, repeated, meshNodes, lostInRead, skipped>>
    BY <1>2 DEF Receive, nodeDB
  <2>2. asked' \in {asked, 0} /\ (x[1] # "packet" => received' = received)
    BY <1>2 DEF Receive
  <2>3. blocked' \in BOOLEAN
    <3>1. blocked' = blocked \/ blocked' = ~ x[2]
      BY <1>2 DEF Receive
    <3>. QED
      BY <3>1 DEF LinkOK
  <2>4. LinkOK'
    BY <1>1, <2>1, <2>2, <2>3 DEF LinkOK
  <2>. QED
    BY <1>1, <2>1, <2>2, <2>4
<1>3. CASE LinkGone /\ UNCHANGED received /\ lostInRead' = lostInRead \cup IF x[1] = "packet" THEN {x[2]} ELSE {}
  <2>1. x[1] # "packet" => lostInRead' = lostInRead
    BY <1>3
  <2>. QED
    BY <1>1, <1>3, <2>1, LinkGoneOK
<1>. QED
  BY <1>2, <1>3 DEF GetFromRadio

(* A step of the download: what it sends and where it goes on. *)
Going(state, next) ==
  /\ link /\ reading /\ api.state = state /\ api' = next /\ LinkOK' /\ UNCHANGED service
  /\ UNCHANGED <<recentToRadioPacketIds, traced, free, mainLoop, nextId, sent, received, lostInRead>>
  /\ ~ link' \/ UNCHANGED <<link, reading, told>>

LEMMA StepGoes ==
  ASSUME LinkOK, NEW state, NEW kind, NEW y, NEW next, Step(state, <<kind, y>>, next), kind # "packet"
  PROVE  Going(state, next)
<1>1. PICK x : x = <<kind, y>> /\ x[1] = kind
  OBVIOUS
<1>2. GetFromRadio(state, x) /\ api' = next /\ UNCHANGED service
  BY <1>1 DEF Step
<1>. QED
  BY <1>1, <1>2, GetFrame, Zenon DEF Going

DownloadSteps ==
  \/ Going("MY_INFO", [api EXCEPT !.state = "OWN_NODEINFO"])
  \/ Going("OWN_NODEINFO", [api EXCEPT !.state = "METADATA", !.readIndex = @ + 1])
  \/ Going("METADATA", [api EXCEPT !.state = "CHANNELS"])
  \/ \E last : \E state \in {"CHANNELS", "CONFIG", "MODULECONFIG"}, start \in {0, 1},
        next \in {"CONFIG", "MODULECONFIG", "FILEMANIFEST", "OTHER_NODEINFOS"} :
       Going(state, Advance(last, next, start))
  \/ api.readIndex < Len(meshNodes) /\ Going("OTHER_NODEINFOS", [api EXCEPT !.readIndex = @ + 1])
  \/ \E state \in {"FILEMANIFEST", "OTHER_NODEINFOS"} :
       \/ Going(state, [api EXCEPT !.state = "FILEMANIFEST", !.config_state = @ + 1])
       \/ Going(state, [api EXCEPT !.state = "PACKETS", !.config_state = 0, !.config_nonce = 0])

LEMMA Downloading ==
  ASSUME LinkOK, \/ SendMyInfo \/ SendOwnNodeInfo \/ SendMetadata \/ SendChannel \/ SendConfig
                 \/ SendModuleConfig \/ SendNodeInfo \/ SendFileInfo \/ SendConfigComplete
  PROVE  DownloadSteps
<1>1. CASE SendMyInfo
  BY <1>1, StepGoes DEF SendMyInfo, DownloadSteps
<1>2. CASE SendOwnNodeInfo
  BY <1>2, StepGoes DEF SendOwnNodeInfo, DownloadSteps
<1>3. CASE SendMetadata
  BY <1>3, StepGoes DEF SendMetadata, DownloadSteps
<1>4. CASE SendChannel
  <2>1. PICK last : last = (api.config_state + 1 >= MAX_NUM_CHANNELS)
    OBVIOUS
  <2>2. Going("CHANNELS", Advance(last, "CONFIG", 1))
    BY <1>4, <2>1, StepGoes DEF SendChannel
  <2>. QED
    BY <2>2 DEF DownloadSteps
<1>5. CASE SendConfig
  <2>1. PICK last : last = (api.config_state >= Configs)
    OBVIOUS
  <2>2. Going("CONFIG", Advance(last, "MODULECONFIG", 1))
    BY <1>5, <2>1, StepGoes DEF SendConfig
  <2>. QED
    BY <2>2 DEF DownloadSteps
<1>6. CASE SendModuleConfig
  <2>1. PICK last : last = (api.config_state >= ModuleConfigs)
    OBVIOUS
  <2>2. PICK next \in {"FILEMANIFEST", "OTHER_NODEINFOS"} :
          next = IF api.config_nonce = SPECIAL_NONCE THEN "FILEMANIFEST" ELSE "OTHER_NODEINFOS"
    OBVIOUS
  <2>3. Going("MODULECONFIG", Advance(last, next, 0))
    BY <1>6, <2>1, <2>2, StepGoes DEF SendModuleConfig
  <2>. QED
    BY <2>3 DEF DownloadSteps
<1>7. CASE SendNodeInfo
  BY <1>7, StepGoes DEF SendNodeInfo, DownloadSteps
<1>8. CASE SendFileInfo
  <2>1. PICK state \in {"FILEMANIFEST", "OTHER_NODEINFOS"} : state = api.state
    BY <1>8 DEF SendFileInfo, NoMoreNodes
  <2>2. Going(state, [api EXCEPT !.state = "FILEMANIFEST", !.config_state = @ + 1])
    BY <1>8, <2>1, StepGoes DEF SendFileInfo
  <2>. QED
    BY <2>2 DEF DownloadSteps
<1>9. CASE SendConfigComplete
  <2>1. PICK state \in {"FILEMANIFEST", "OTHER_NODEINFOS"} : state = api.state
    BY <1>9 DEF SendConfigComplete, NoMoreNodes
  <2>2. Going(state, [api EXCEPT !.state = "PACKETS", !.config_state = 0, !.config_nonce = 0])
    BY <1>9, <2>1, StepGoes DEF SendConfigComplete
  <2>. QED
    BY <2>2 DEF DownloadSteps
<1>. QED
  BY <1>1, <1>2, <1>3, <1>4, <1>5, <1>6, <1>7, <1>8, <1>9

LEMMA ClosedFacts == Closed \in Session /\ Closed.state = "NOTHING"
  BY Positive DEF Closed, Session, States

LEMMA DownloadApi ==
  ASSUME ApiOK, LinkOK, DownloadSteps
  PROVE  ApiOK'
<1>1. /\ api \in Session /\ api.config_state \in Nat /\ api.readIndex \in 0 .. MAX_NUM_NODES
      /\ api.config_state + 1 \in Nat
      /\ api.state \in {"MY_INFO", "OWN_NODEINFO"} => api.readIndex = 0
  BY DEF ApiOK, Session
<1>2. CASE Going("MY_INFO", [api EXCEPT !.state = "OWN_NODEINFO"])
  BY <1>1, <1>2 DEF Going, ApiOK, Session, States
<1>3. CASE Going("OWN_NODEINFO", [api EXCEPT !.state = "METADATA", !.readIndex = @ + 1])
  <2>1. api.readIndex + 1 \in 0 .. MAX_NUM_NODES
    BY <1>1, <1>3, Positive DEF Going
  <2>. QED
    BY <1>1, <1>3, <2>1 DEF Going, ApiOK, Session, States
<1>4. CASE Going("METADATA", [api EXCEPT !.state = "CHANNELS"])
  BY <1>1, <1>4 DEF Going, ApiOK, Session, States
<1>5. ASSUME NEW state \in {"CHANNELS", "CONFIG", "MODULECONFIG"}, NEW last, NEW start \in {0, 1},
             NEW next \in {"CONFIG", "MODULECONFIG", "FILEMANIFEST", "OTHER_NODEINFOS"},
             Going(state, Advance(last, next, start))
      PROVE  ApiOK'
  <2>1. PICK s \in States \ {"MY_INFO", "OWN_NODEINFO"} : s = IF last THEN next ELSE api.state
    BY <1>5 DEF Going, States
  <2>2. PICK c \in Nat : c = IF last THEN start ELSE api.config_state + 1
    BY <1>1
  <2>3. api' = [api EXCEPT !.state = s, !.config_state = c]
    BY <1>5, <2>1, <2>2 DEF Going, Advance
  <2>. QED
    BY <1>1, <2>1, <2>2, <2>3 DEF ApiOK, Session
<1>6. CASE api.readIndex < Len(meshNodes) /\ Going("OTHER_NODEINFOS", [api EXCEPT !.readIndex = @ + 1])
  <2>1. api.readIndex + 1 \in 0 .. MAX_NUM_NODES
    BY <1>1, <1>6, Positive DEF LinkOK
  <2>. QED
    BY <1>1, <1>6, <2>1 DEF Going, ApiOK, Session, States
<1>7. ASSUME NEW state, Going(state, [api EXCEPT !.state = "FILEMANIFEST", !.config_state = @ + 1])
      PROVE  ApiOK'
  BY <1>1, <1>7 DEF Going, ApiOK, Session, States
<1>8. ASSUME NEW state, Going(state, [api EXCEPT !.state = "PACKETS", !.config_state = 0, !.config_nonce = 0])
      PROVE  ApiOK'
  BY <1>1, <1>8 DEF Going, ApiOK, Session, States
<1>. QED
  BY <1>2, <1>3, <1>4, <1>5, <1>6, <1>7, <1>8 DEF DownloadSteps

(* A phone that is sent packets was reading; so nothing is announced late. *)
LEMMA DownloadAnnounced ==
  ASSUME ApiOK, LinkOK, TasksOK, AnnouncedOK, PacketsAnnounced, DownloadSteps
  PROVE  TasksOK' /\ LinkOK' /\ AnnouncedOK' /\ PacketsAnnounced'
<1>1. \E state, next : Going(state, next)
  BY DEF DownloadSteps
<1>2. /\ reading /\ LinkOK' /\ UNCHANGED <<traced, free, mainLoop>>
      /\ ~ link' \/ UNCHANGED <<link, reading, told>>
  BY <1>1 DEF Going
<1>3. TasksOK'
  BY <1>2 DEF TasksOK
<1>. QED
  BY <1>2, <1>3 DEF AnnouncedOK, PacketsAnnounced

(* A node that goes leaves as many: those behind it move up. *)
MovedUp(nodes, i, moved) ==
  \A j \in 1 .. Len(nodes) :
    moved[j] = IF j < i THEN nodes[j] ELSE IF j < Len(nodes) THEN nodes[j + 1] ELSE 0

LEMMA EvictFacts ==
  ASSUME LinkOK, NEW i \in 2 .. MAX_NUM_NODES, Evict(i)
  PROVE  meshNodes' \in Seq(Nat) /\ Len(meshNodes') = MAX_NUM_NODES /\ MovedUp(meshNodes, i, meshNodes')
<1>1. PICK s \in Seq(Nat) : s = meshNodes /\ Len(s) = MAX_NUM_NODES
  BY DEF LinkOK
<1>2. MAX_NUM_NODES \in Nat /\ i \in Nat /\ i >= 2 /\ i <= Len(s) /\ Len(s) \in Nat
  BY <1>1, Positive, SMT
<1>3. PICK left : left = SubSeq(s, 1, i - 1)
  OBVIOUS
<1>4. PICK right : right = SubSeq(s, i + 1, Len(s))
  OBVIOUS
<1>5. left \in Seq(Nat) /\ Len(left) = i - 1 /\ \A j \in 1 .. i - 1 : left[j] = s[j]
  <2>1. \A k \in 1 .. i - 1 : s[k] \in Nat
    BY <1>2, ElementOfSeq
  <2>2. /\ left \in Seq(Nat) /\ Len(left) = IF 1 <= i - 1 THEN (i - 1) - 1 + 1 ELSE 0
        /\ \A j \in 1 .. (i - 1) - 1 + 1 : left[j] = s[1 + j - 1]
    BY <1>2, <1>3, <2>1, SubSeqProperties
  <2>3. (i - 1) - 1 + 1 = i - 1 /\ \A j \in 1 .. i - 1 : 1 + j - 1 = j
    BY <1>2
  <2>. QED
    BY <1>2, <2>2, <2>3
<1>6. /\ right \in Seq(Nat) /\ Len(right) = Len(s) - i
      /\ \A j \in 1 .. Len(s) - i : right[j] = s[i + j]
  <2>1. \A k \in i + 1 .. Len(s) : s[k] \in Nat
    BY <1>2, ElementOfSeq
  <2>2. /\ right \in Seq(Nat) /\ Len(right) = IF i + 1 <= Len(s) THEN Len(s) - (i + 1) + 1 ELSE 0
        /\ \A j \in 1 .. Len(s) - (i + 1) + 1 : right[j] = s[(i + 1) + j - 1]
    BY <1>2, <1>4, <2>1, SubSeqProperties
  <2>3. Len(s) - (i + 1) + 1 = Len(s) - i /\ \A j \in 1 .. Len(s) - i : (i + 1) + j - 1 = i + j
    BY <1>2
  <2>4. Len(right) = Len(s) - i
    BY <1>2, <2>2
  <2>. QED
    BY <2>2, <2>3, <2>4
<1>7. PICK rest \in Seq(Nat) : rest = left \o right
  BY <1>5, <1>6, ConcatProperties
<1>8. /\ Len(rest) = Len(left) + Len(right)
      /\ \A j \in 1 .. Len(left) + Len(right) : rest[j] = IF j <= Len(left) THEN left[j] ELSE right[j - Len(left)]
  BY <1>5, <1>6, <1>7, ConcatProperties
<1>9. PICK moved \in Seq(Nat) : moved = meshNodes' /\ moved = Append(rest, 0)
  <2>1. meshNodes' = Append(rest, 0)
    BY <1>1, <1>3, <1>4, <1>7 DEF Evict, RemoveAt
  <2>. QED
    BY <2>1, AppendProperties
<1>10. Len(moved) = Len(rest) + 1 /\ (\A j \in 1 .. Len(rest) : moved[j] = rest[j]) /\ moved[Len(rest) + 1] = 0
  BY <1>9, AppendProperties
<1>11. PICK n \in Nat : n = Len(s)
  BY <1>2
<1>12. Len(rest) = n - 1 /\ Len(moved) = n
  BY <1>2, <1>5, <1>6, <1>8, <1>10, <1>11
<1>13. ASSUME NEW j \in 1 .. n
       PROVE  moved[j] = IF j < i THEN s[j] ELSE IF j < n THEN s[j + 1] ELSE 0
  <2>1. CASE j < i
    <3>1. j \in 1 .. i - 1 /\ j \in 1 .. n - 1 /\ j <= i - 1 /\ (i - 1) + (n - i) = n - 1
      BY <1>2, <1>11, <2>1
    <3>. QED
      BY <1>5, <1>6, <1>8, <1>10, <1>11, <1>12, <2>1, <3>1
  <2>2. CASE ~ j < i /\ j < n
    <3>1. /\ j - (i - 1) \in 1 .. n - i /\ j \in 1 .. n - 1 /\ ~ j <= i - 1
          /\ (i - 1) + (n - i) = n - 1 /\ i + (j - (i - 1)) = j + 1
      BY <1>2, <1>11, <2>2
    <3>2. moved[j] = rest[j] /\ rest[j] = right[j - (i - 1)]
      BY <1>5, <1>6, <1>8, <1>10, <1>11, <1>12, <3>1
    <3>. QED
      BY <1>6, <1>11, <2>2, <3>1, <3>2
  <2>3. CASE ~ j < i /\ ~ j < n
    <3>1. j = n /\ (n - 1) + 1 = n
      BY <1>2, <1>11, <2>3
    <3>. QED
      BY <1>10, <1>12, <2>3, <3>1
  <2>. QED
    BY <2>1, <2>2, <2>3
<1>. QED
  BY <1>1, <1>9, <1>11, <1>12, <1>13 DEF MovedUp

SessionInv == ApiOK /\ TasksOK /\ LinkOK /\ AnnouncedOK /\ PacketsAnnounced

LEMMA SessionUnchanged ==
  ASSUME SessionInv, UNCHANGED <<api, free, mainLoop, traced, link, reading, told, asked, repeated, blocked,
                                 skipped, meshNodes, toPhoneQueue, fromNumChanged>>
  PROVE  SessionInv'
<1>1. ApiOK' /\ TasksOK' /\ LinkOK'
  BY Zenon DEF SessionInv, ApiOK, TasksOK, LinkOK
<1>2. AnnouncedOK' /\ PacketsAnnounced'
  BY DEF SessionInv, AnnouncedOK, PacketsAnnounced
<1>. QED
  BY <1>1, <1>2 DEF SessionInv

LEMMA LoopSession ==
  ASSUME SessionInv, LoopNotify \/ LoopStore \/ \E text \in BOOLEAN : HandleFromRadio(text)
  PROVE  SessionInv'
<1>1. CASE \E text \in BOOLEAN : HandleFromRadio(text)
  <2>1. /\ mainLoop = "idle" /\ fromNumChanged' = TRUE
        /\ UNCHANGED <<api, free, mainLoop, traced, link, reading, told, asked, repeated, blocked, skipped, meshNodes>>
    BY <1>1 DEF HandleFromRadio, SendToPhone, EnqueueToPhone, LeaveToHistory, session, nodeDB, phone, history
  <2>2. ApiOK' /\ TasksOK' /\ LinkOK'
    BY <2>1, Zenon DEF SessionInv, ApiOK, TasksOK, LinkOK
  <2>. QED
    BY <2>1, <2>2 DEF SessionInv, AnnouncedOK, PacketsAnnounced
<1>2. CASE LoopStore
  <2>1. /\ mainLoop = "notified" /\ mainLoop' = "idle"
        /\ UNCHANGED <<api, free, traced, link, reading, told, asked, repeated, blocked, skipped, meshNodes, toPhoneQueue>>
    BY <1>2 DEF LoopStore, packetQueue, session, nodeDB, phone, history
  <2>2. ApiOK' /\ LinkOK'
    BY <2>1, Zenon DEF SessionInv, ApiOK, LinkOK
  <2>3. TasksOK'
    BY <2>1 DEF SessionInv, TasksOK
  <2>. QED
    BY <2>1, <2>2, <2>3 DEF SessionInv, AnnouncedOK, PacketsAnnounced
<1>3. CASE LoopNotify
  <2>1. /\ UNCHANGED <<free, traced, link, reading, asked, repeated, blocked, skipped, meshNodes, toPhoneQueue>>
        /\ api' = (IF TimedOut THEN Closed ELSE api) /\ mainLoop' = (IF TimedOut THEN "idle" ELSE "notified")
        /\ told' = (told \/ (api.state = "PACKETS" /\ ~ TimedOut))
        /\ fromNumChanged' = TRUE \/ fromNumChanged' = fromNumChanged
    BY <1>3 DEF LoopNotify, SendQueueStatusToPhone, packetQueue, nodeDB, history
  <2>2. api.state = "PACKETS" /\ ~ TimedOut => link
    BY DEF TimedOut, Observing
  <2>3. told' \in BOOLEAN /\ (told' => link)
    BY <2>1, <2>2 DEF SessionInv, LinkOK
  <2>4. LinkOK'
    BY <2>1, <2>3, Zenon DEF SessionInv, LinkOK
  <2>5. TasksOK'
    BY <2>1 DEF SessionInv, TasksOK
  <2>6. CASE TimedOut
    BY <2>1, <2>4, <2>5, <2>6, ClosedFacts DEF SessionInv, ApiOK, AnnouncedOK, PacketsAnnounced
  <2>7. CASE ~ TimedOut
    <3>1. api' = api /\ (api.state = "PACKETS" => told')
      BY <2>1, <2>7
    <3>2. ApiOK'
      BY <3>1 DEF SessionInv, ApiOK
    <3>3. AnnouncedOK' /\ PacketsAnnounced'
      BY <3>1 DEF AnnouncedOK, PacketsAnnounced
    <3>. QED
      BY <2>4, <2>5, <3>2, <3>3 DEF SessionInv
  <2>. QED
    BY <2>6, <2>7
<1>. QED
  BY <1>1, <1>2, <1>3

LEMMA LinkSession ==
  ASSUME SessionInv, \/ TxQueueDrains \/ Connect \/ LinkLost \/ OnDisconnect \/ Notified \/ Disconnect \/ NothingToRead
                     \/ \E i \in 2 .. MAX_NUM_NODES : Evict(i)
  PROVE  SessionInv'
<1>1. CASE TxQueueDrains
  <2>1. /\ free' = TRUE
        /\ UNCHANGED <<api, mainLoop, traced, link, reading, told, asked, repeated, blocked, skipped, meshNodes,
                       toPhoneQueue, fromNumChanged>>
    BY <1>1 DEF TxQueueDrains, service, packetQueue, session, nodeDB, phone, history
  <2>2. ApiOK' /\ LinkOK'
    BY <2>1, Zenon DEF SessionInv, ApiOK, LinkOK
  <2>3. TasksOK'
    BY <2>1 DEF SessionInv, TasksOK
  <2>. QED
    BY <2>1, <2>2, <2>3 DEF SessionInv, AnnouncedOK, PacketsAnnounced
<1>2. CASE Connect
  <2>1. /\ api.state = "NOTHING" /\ link' = TRUE
        /\ UNCHANGED <<api, free, mainLoop, traced, reading, told, asked, repeated, blocked, skipped, meshNodes>>
    BY <1>2 DEF Connect, session, nodeDB, history
  <2>2. ApiOK' /\ TasksOK'
    BY <2>1, Zenon DEF SessionInv, ApiOK, TasksOK
  <2>3. LinkOK'
    BY <2>1 DEF SessionInv, LinkOK
  <2>. QED
    BY <2>1, <2>2, <2>3 DEF SessionInv, AnnouncedOK, PacketsAnnounced
<1>3. CASE LinkLost
  <2>1. LinkGone /\ UNCHANGED <<api, free, mainLoop, traced>>
    BY <1>3 DEF LinkLost, session
  <2>2. ApiOK' /\ TasksOK'
    BY <2>1, Zenon DEF SessionInv, ApiOK, TasksOK
  <2>. QED
    BY <2>1, <2>2, LinkGoneOK DEF SessionInv, AnnouncedOK, PacketsAnnounced
<1>4. CASE OnDisconnect
  <2>1. /\ api' = Closed
        /\ UNCHANGED <<free, mainLoop, traced, link, reading, told, asked, repeated, blocked, skipped, meshNodes>>
    BY <1>4 DEF OnDisconnect, nodeDB, phone, history
  <2>2. TasksOK' /\ LinkOK'
    BY <2>1, Zenon DEF SessionInv, TasksOK, LinkOK
  <2>. QED
    BY <2>1, <2>2, ClosedFacts DEF SessionInv, ApiOK, AnnouncedOK, PacketsAnnounced
<1>5. CASE Notified
  <2>1. /\ link /\ told' = FALSE /\ reading' = TRUE
        /\ UNCHANGED <<api, free, mainLoop, traced, link, asked, repeated, blocked, skipped, meshNodes>>
    BY <1>5 DEF Notified, session, nodeDB, history
  <2>2. ApiOK' /\ TasksOK'
    BY <2>1, Zenon DEF SessionInv, ApiOK, TasksOK
  <2>3. LinkOK'
    BY <2>1 DEF SessionInv, LinkOK
  <2>. QED
    BY <2>1, <2>2, <2>3 DEF SessionInv, AnnouncedOK, PacketsAnnounced
<1>6. CASE Disconnect
  <2>1. LinkGone /\ api' = Closed /\ UNCHANGED <<free, mainLoop, traced>>
    BY <1>6 DEF Disconnect
  <2>2. TasksOK'
    BY <2>1, Zenon DEF SessionInv, TasksOK
  <2>. QED
    BY <2>1, <2>2, LinkGoneOK, ClosedFacts DEF SessionInv, ApiOK, AnnouncedOK, PacketsAnnounced
<1>7. CASE NothingToRead
  <2>1. /\ api.state = "NOTHING" \/ toPhoneQueue = <<>>
        /\ reading' = FALSE
        /\ UNCHANGED <<api, free, mainLoop, traced, link, told, asked, blocked, toPhoneQueue, fromNumChanged>>
    BY <1>7 DEF NothingToRead, session, service, packetQueue
  <2>2. repeated' \in BOOLEAN /\ skipped' \in Nat /\ meshNodes' \in Seq(Nat) /\ Len(meshNodes') = MAX_NUM_NODES
    <3>1. CASE Forget
      BY <3>1, AllNodesFacts DEF Forget
    <3>2. CASE UNCHANGED <<repeated, skipped, meshNodes>>
      BY <3>2 DEF SessionInv, LinkOK
    <3>. QED
      BY <1>7, <3>1, <3>2 DEF NothingToRead, nodeDB
  <2>3. ApiOK' /\ TasksOK'
    BY <2>1, Zenon DEF SessionInv, ApiOK, TasksOK
  <2>4. LinkOK'
    BY <2>1, <2>2 DEF SessionInv, LinkOK
  <2>. QED
    BY <2>1, <2>3, <2>4 DEF SessionInv, AnnouncedOK, PacketsAnnounced
<1>8. CASE \E i \in 2 .. MAX_NUM_NODES : Evict(i)
  <2>1. PICK i \in 2 .. MAX_NUM_NODES : Evict(i)
    BY <1>8
  <2>2. UNCHANGED <<api, free, mainLoop, traced, link, reading, told, asked, repeated, blocked, skipped,
                    toPhoneQueue, fromNumChanged>>
    BY <2>1 DEF Evict, service, packetQueue, session, phone, history
  <2>3. ApiOK' /\ TasksOK'
    BY <2>2, Zenon DEF SessionInv, ApiOK, TasksOK
  <2>4. LinkOK'
    BY <2>1, <2>2, EvictFacts DEF SessionInv, LinkOK
  <2>. QED
    BY <2>2, <2>3, <2>4 DEF SessionInv, AnnouncedOK, PacketsAnnounced
<1>. QED
  BY <1>1, <1>2, <1>3, <1>4, <1>5, <1>6, <1>7, <1>8

LEMMA WriteSession ==
  ASSUME SessionInv, \/ \E nonce \in Nonces : WantConfig(nonce)
                     \/ \E id \in 1 .. MaxIds, traceroute \in BOOLEAN : HandleToRadioPacket(id, traceroute)
  PROVE  SessionInv'
<1>1. CASE \E nonce \in Nonces : WantConfig(nonce)
  <2>1. PICK nonce \in Nonces : WantConfig(nonce)
    BY <1>1
  <2>2. PICK restarted : restarted = [api EXCEPT !.state = "MY_INFO", !.readIndex = 0, !.config_nonce = nonce]
    OBVIOUS
  <2>3. Ask(nonce, restarted)
    BY <2>1, <2>2 DEF WantConfig
  <2>4. /\ link /\ asked' = nonce /\ reading' = TRUE /\ skipped' = api.config_state /\ meshNodes' = AllNodes
        /\ UNCHANGED <<traced, free, mainLoop, link, told, blocked>>
        /\ api' \in {restarted, api}
    BY <2>3 DEF Ask, Write
  <2>5. repeated' \in BOOLEAN
    <3>1. PICK new : repeated' = ~ new
      BY <2>3 DEF Ask
    <3>. QED
      BY <3>1
  <2>6. restarted \in Session /\ restarted.readIndex = 0 /\ api.config_state \in Nat
    <3>1. api \in Session /\ api.config_state \in Nat
      BY DEF SessionInv, ApiOK, Session
    <3>2. 0 \in 0 .. MAX_NUM_NODES /\ nonce \in Nonces \cup {0} /\ "MY_INFO" \in States
      BY Positive, SMT DEF States
    <3>. QED
      BY <2>2, <3>1, <3>2 DEF Session
  <2>7. ApiOK'
    BY <2>4, <2>6 DEF SessionInv, ApiOK
  <2>8. TasksOK'
    BY <2>4, Zenon DEF SessionInv, TasksOK
  <2>9. LinkOK'
    BY <2>4, <2>5, <2>6, AllNodesFacts DEF SessionInv, LinkOK
  <2>. QED
    BY <2>4, <2>7, <2>8, <2>9 DEF SessionInv, AnnouncedOK, PacketsAnnounced
<1>2. CASE \E id \in 1 .. MaxIds, traceroute \in BOOLEAN : HandleToRadioPacket(id, traceroute)
  <2>1. PICK id \in 1 .. MaxIds, traceroute \in BOOLEAN : HandleToRadioPacket(id, traceroute)
    BY <1>2
  <2>2. UNCHANGED <<api, mainLoop, link, reading, told, asked, repeated, blocked, skipped, meshNodes, toPhoneQueue>>
    BY <2>1 DEF HandleToRadioPacket, packetQueue, nodeDB
  <2>3. /\ fromNumChanged' = TRUE \/ fromNumChanged' = fromNumChanged
        /\ free' \in BOOLEAN /\ traced' \in BOOLEAN
    <3>1. CASE UNCHANGED <<fromNumChanged, free, traced>>
      BY <3>1 DEF SessionInv, TasksOK
    <3>2. CASE RateLimited(id)
      BY <3>2 DEF RateLimited, SendQueueStatusToPhone, SessionInv, TasksOK
    <3>3. CASE HandleToRadio(id, traceroute)
      BY <3>3 DEF HandleToRadio, SendQueueStatusToPhone, SessionInv, TasksOK
    <3>. QED
      BY <2>1, <3>1, <3>2, <3>3 DEF HandleToRadioPacket
  <2>4. ApiOK' /\ LinkOK'
    BY <2>2, Zenon DEF SessionInv, ApiOK, LinkOK
  <2>5. TasksOK'
    BY <2>2, <2>3 DEF SessionInv, TasksOK
  <2>. QED
    BY <2>2, <2>3, <2>4, <2>5 DEF SessionInv, AnnouncedOK, PacketsAnnounced
<1>. QED
  BY <1>1, <1>2

LEMMA ReadSession ==
  ASSUME SessionInv, ServiceTypeOK, SendQueueStatus \/ SendNotification \/ SendPacket
  PROVE  SessionInv'
<1>1. PICK x : GetFromRadio("PACKETS", x)
  BY DEF SendQueueStatus, SendNotification, SendPacket
<1>2. /\ link /\ reading /\ api.state = "PACKETS" /\ LinkOK' /\ UNCHANGED <<traced, free, mainLoop>>
      /\ ~ link' \/ UNCHANGED <<link, reading, told>>
  BY <1>1, GetFrame DEF SessionInv
<1>3. \E n \in Nat : api' = [api EXCEPT !.notification = n] \/ api' = api
  <2>1. CASE SendQueueStatus
    <3>1. PICK n \in Nat : n = IF Notifications = <<>> THEN 0 ELSE Head(Notifications)
      BY NotificationsFacts DEF SessionInv
    <3>. QED
      BY <2>1, <3>1 DEF SendQueueStatus, FetchNotification
  <2>2. CASE SendNotification
    BY <2>2 DEF SendNotification
  <2>3. CASE SendPacket
    BY <2>3 DEF SendPacket
  <2>. QED
    BY <2>1, <2>2, <2>3
<1>4. ApiOK'
  BY <1>2, <1>3 DEF SessionInv, ApiOK, Session
<1>5. TasksOK'
  BY <1>2, Zenon DEF SessionInv, TasksOK
<1>. QED
  BY <1>2, <1>4, <1>5 DEF SessionInv, AnnouncedOK, PacketsAnnounced

LEMMA SessionNext ==
  ASSUME SessionInv, ServiceTypeOK, [Next]_vars
  PROVE  SessionInv'
<1>1. CASE UNCHANGED vars
  BY <1>1, SessionUnchanged DEF vars, service, packetQueue, session, nodeDB, phone, history
<1>2. CASE PhoneReads
  <2>1. CASE NothingToRead
    BY <2>1, LinkSession
  <2>2. CASE SendQueueStatus \/ SendNotification \/ SendPacket
    BY <2>2, ReadSession
  <2>3. CASE \/ SendMyInfo \/ SendOwnNodeInfo \/ SendMetadata \/ SendChannel \/ SendConfig
             \/ SendModuleConfig \/ SendNodeInfo \/ SendFileInfo \/ SendConfigComplete
    BY <2>3, Downloading, DownloadApi, DownloadAnnounced DEF SessionInv
  <2>. QED
    BY <1>2, <2>1, <2>2, <2>3 DEF PhoneReads
<1>3. CASE PhoneWrites
  BY <1>3, WriteSession, LinkSession DEF PhoneWrites
<1>4. CASE LoopNotify \/ LoopStore \/ \E text \in BOOLEAN : HandleFromRadio(text)
  BY <1>4, LoopSession
<1>5. CASE TxQueueDrains \/ Connect \/ LinkLost \/ OnDisconnect \/ Notified \/ \E i \in 2 .. MAX_NUM_NODES : Evict(i)
  BY <1>5, LinkSession
<1>. QED
  BY <1>1, <1>2, <1>3, <1>4, <1>5 DEF Next

---------------------------------------------------------------------------
(* What the phone sends, and the ids remembered of it. *)

LEMMA OthersFinite ==
  ASSUME NEW n \in Nat, NEW id
  PROVE  IsFiniteSet({other \in 1 .. n : other # id})
<1>1. IsFiniteSet(1 .. n)
  BY FS_Interval, SMT
<1>2. {other \in 1 .. n : other # id} \subseteq 1 .. n
  OBVIOUS
<1>. QED
  BY <1>1, <1>2, FS_Subset

LEMMA MoreOthers ==
  ASSUME NEW n \in Nat, NEW m \in Nat, n <= m, NEW id
  PROVE  Cardinality({other \in 1 .. n : other # id}) <= Cardinality({other \in 1 .. m : other # id})
<1>1. {other \in 1 .. n : other # id} \subseteq {other \in 1 .. m : other # id}
  OBVIOUS
<1>. QED
  BY <1>1, OthersFinite, FS_Subset

(* As many distinct members as there are. *)
LEMMA Distinct ==
  ASSUME NEW T, IsFiniteSet(T), NEW n \in Nat, NEW d, \A i \in 1 .. n : d[i] \in T,
         \A i, j \in 1 .. n : d[i] = d[j] => i = j
  PROVE  Cardinality(T) >= n
<1>1. PICK f : f = [i \in 1 .. n |-> d[i]]
  OBVIOUS
<1>2. f \in Injection(1 .. n, T)
  <2>1. f \in [1 .. n -> T] /\ \A i, j \in 1 .. n : f[i] = f[j] => i = j
    BY <1>1
  <2>. QED
    BY <1>1, <2>1 DEF Injection, IsInjective
<1>3. Cardinality(1 .. n) <= Cardinality(T)
  BY <1>2, FS_Injection
<1>4. Cardinality(1 .. n) = n
  <2>1. Cardinality(1 .. n) = IF 1 > n THEN 0 ELSE n - 1 + 1
    BY FS_Interval
  <2>. QED
    BY <2>1, SMT
<1>. QED
  BY <1>3, <1>4

(* An id that makes room for a new one leaves as many others behind it. *)
LEMMA RememberFacts ==
  ASSUME RememberedOK, SentOnce, NEW id \in 1 .. MaxIds, id <= nextId,
         nextId' \in {id + 1, nextId}, id < nextId', nextId' >= nextId,
         ~ SeenRecently(id), Remember(id),
         sent' = sent \/ sent' = [sent EXCEPT ![id] = @ + 1]
  PROVE  RememberedOK' /\ SentOnce'
<1>1. PICK S : S = 1 .. MaxIds
  OBVIOUS
<1>2. PICK q \in Seq(S) : q = recentToRadioPacketIds
  BY <1>1 DEF RememberedOK
<1>3. PICK d : d = DiscardOldest(q, id, Recent)
  OBVIOUS
<1>4. /\ Len(q) \in Nat /\ Len(q) <= Recent /\ id \in S /\ Recent \in Nat \ {0}
      /\ recentToRadioPacketIds' = d /\ nextId \in 1 .. MaxIds + 1 /\ MaxIds \in Nat
      /\ \A i \in 1 .. Len(q) : q[i] # id /\ q[i] < nextId
      /\ \A i, j \in 1 .. Len(q) : q[i] = q[j] => i = j
  BY <1>1, <1>2, <1>3, Positive, LenProperties DEF RememberedOK, Remember, SeenRecently, Contains
<1>5. nextId' \in 1 .. MaxIds + 1 /\ nextId - 1 \in Nat /\ nextId' - 1 \in Nat /\ nextId - 1 <= nextId' - 1
  <2>1. nextId \in 1 .. MaxIds + 1 /\ MaxIds \in Nat /\ id \in 1 .. MaxIds
    BY <1>4
  <2>2. nextId' = id + 1 \/ nextId' = nextId
    OBVIOUS
  <2>3. CASE nextId' = id + 1
    BY <2>1, <2>3, SMT
  <2>4. CASE nextId' = nextId
    BY <2>1, <2>4, SMT
  <2>. QED
    BY <2>2, <2>3, <2>4
<1>6. sent \in [1 .. MaxIds -> Nat] /\ sent' \in [1 .. MaxIds -> Nat]
      /\ \A o \in 1 .. MaxIds : (o # id => sent'[o] = sent[o]) /\ sent'[o] <= sent[o] + 1
  <2>1. sent \in [1 .. MaxIds -> Nat]
    BY DEF RememberedOK
  <2>2. CASE sent' = sent
    BY <2>1, <2>2
  <2>3. CASE sent' = [sent EXCEPT ![id] = @ + 1]
    BY <2>1, <2>3
  <2>. QED
    BY <2>1, <2>2, <2>3
<1>7. \A o \in 1 .. MaxIds : Cardinality(Others(o)) >= Recent => Cardinality(Others(o)') >= Recent
  <2>. TAKE o \in 1 .. MaxIds
  <2>1. IsFiniteSet(Others(o)) /\ IsFiniteSet(Others(o)') /\ Cardinality(Others(o)) <= Cardinality(Others(o)')
    BY <1>5, OthersFinite, MoreOthers DEF Others
  <2>2. Cardinality(Others(o)) \in Nat /\ Cardinality(Others(o)') \in Nat
    BY <2>1, FS_CardinalityType
  <2>. QED
    BY <1>4, <2>1, <2>2
<1>8. /\ d \in Seq(S) /\ Len(d) \in 1 .. Recent /\ d[Len(d)] = id
      /\ \/ /\ Len(q) = Recent /\ Len(d) = Len(q)
            /\ \A i \in 1 .. Len(d) - 1 : i + 1 \in 1 .. Len(q) /\ d[i] = q[i + 1]
         \/ /\ Len(d) = Len(q) + 1
            /\ \A i \in 1 .. Len(d) - 1 : i \in 1 .. Len(q) /\ d[i] = q[i]
  <2>1. CASE Len(q) = Recent
    BY <1>3, <1>4, <2>1, DiscardFull
  <2>2. CASE Len(q) # Recent
    BY <1>3, <1>4, <2>2, DiscardRoom
  <2>. QED
    BY <2>1, <2>2
<1>9. \A i \in 1 .. Len(d) : i = Len(d) \/ i \in 1 .. Len(d) - 1
  BY <1>4, <1>8, SMT
<1>10. \A i, j \in 1 .. Len(d) : d[i] = d[j] => i = j
  <2>1. \A i \in 1 .. Len(d) - 1 : d[i] # id
    BY <1>4, <1>8
  <2>2. \A i, j \in 1 .. Len(d) - 1 : d[i] = d[j] => i = j
    BY <1>4, <1>8
  <2>. QED
    BY <1>8, <1>9, <2>1, <2>2
<1>11. \A i \in 1 .. Len(d) : d[i] \in 1 .. nextId' - 1
  <2>1. \A i \in 1 .. Len(d) : d[i] \in S
    BY <1>8, ElementOfSeq
  <2>2. \A i \in 1 .. Len(d) : d[i] < nextId'
    <3>1. \A i \in 1 .. Len(d) - 1 : d[i] < nextId
      BY <1>4, <1>8
    <3>2. \A x \in S : x < nextId => x < nextId'
      BY <1>1, <1>4, <1>5, SMT
    <3>3. \A i \in 1 .. Len(d) - 1 : i \in 1 .. Len(d)
      BY <1>4, <1>8, SMT
    <3>. QED
      BY <1>8, <1>9, <2>1, <3>1, <3>2, <3>3
  <2>3. \A x \in S : x < nextId' => x \in 1 .. nextId' - 1
    <3>1. PICK n \in Nat : n = nextId'
      BY <1>5, Positive, SMT
    <3>2. \A x \in 1 .. MaxIds : x < n => x \in 1 .. n - 1
      BY <1>4, SMT
    <3>. QED
      BY <1>1, <3>1, <3>2
  <2>. QED
    BY <2>1, <2>2, <2>3
<1>12. ASSUME NEW o \in 1 .. MaxIds, sent'[o] > 0, \A i \in 1 .. Len(d) : d[i] # o
       PROVE  Cardinality(Others(o)') >= Recent
  <2>1. o # id /\ sent[o] > 0
    <3>1. Len(d) \in 1 .. Len(d)
      BY <1>4, <1>8, SMT
    <3>. QED
      BY <1>6, <1>8, <1>12, <3>1
  <2>2. CASE ~ SeenRecently(o)
    BY <1>7, <2>1, <2>2 DEF RememberedOK
  <2>3. CASE SeenRecently(o)
    <3>1. PICK i \in 1 .. Len(q) : q[i] = o
      BY <1>2, <2>3 DEF SeenRecently, Contains
    <3>2. Len(d) = Recent
      <4>1. CASE Len(d) = Len(q) + 1 /\ \A k \in 1 .. Len(d) - 1 : d[k] = q[k]
        <5>1. i \in 1 .. Len(d) - 1 /\ i \in 1 .. Len(d)
          BY <1>4, <4>1, SMT
        <5>. QED
          BY <1>12, <3>1, <4>1, <5>1
      <4>. QED
        BY <1>8, <4>1
    <3>3. \A k \in 1 .. Recent : d[k] \in Others(o)'
      BY <1>11, <1>12, <3>2 DEF Others
    <3>4. IsFiniteSet(Others(o)')
      BY <1>5, OthersFinite DEF Others
    <3>. QED
      BY <1>4, <1>10, <3>2, <3>3, <3>4, Distinct
  <2>. QED
    BY <2>2, <2>3
<1>13. ASSUME NEW o \in 1 .. MaxIds, sent'[o] > 1
       PROVE  Cardinality(Others(o)') >= Recent
  <2>1. CASE o = id
    <3>1. sent[id] > 0
      BY <1>6, <1>13, <2>1
    <3>. QED
      BY <1>7, <2>1, <3>1 DEF RememberedOK
  <2>2. CASE o # id
    <3>1. sent[o] > 1
      BY <1>6, <1>13, <2>2
    <3>2. Cardinality(Others(o)) >= Recent
      BY <3>1 DEF SentOnce, Others
    <3>. QED
      BY <1>7, <3>2
  <2>. QED
    BY <2>1, <2>2
<1>14. RememberedOK'
  <2>1. recentToRadioPacketIds' \in Seq(1 .. MaxIds) /\ Len(recentToRadioPacketIds') <= Recent
    BY <1>1, <1>4, <1>8
  <2>2. \A i \in 1 .. Len(d) : d[i] < nextId'
    BY <1>5, <1>11, SMT
  <2>3. \A o \in 1 .. MaxIds : sent'[o] > 0 /\ ~ SeenRecently(o)' => Cardinality(Others(o)') >= Recent
    BY <1>4, <1>12 DEF SeenRecently, Contains
  <2>. QED
    BY <1>4, <1>5, <1>6, <1>10, <2>1, <2>2, <2>3, Zenon DEF RememberedOK
<1>15. SentOnce'
  BY <1>13 DEF SentOnce, Others
<1>. QED
  BY <1>14, <1>15

LEMMA RememberedUnchanged ==
  ASSUME RememberedOK, SentOnce, UNCHANGED <<recentToRadioPacketIds, nextId, sent>>
  PROVE  RememberedOK' /\ SentOnce'
  BY Zenon DEF RememberedOK, SentOnce, SeenRecently, Contains, Others

(* A write that was seen before may still be of a new packet. *)
LEMMA RememberedSeen ==
  ASSUME RememberedOK, SentOnce, UNCHANGED <<recentToRadioPacketIds, sent>>,
         nextId' \in 1 .. MaxIds + 1, nextId' >= nextId
  PROVE  RememberedOK' /\ SentOnce'
<1>1. /\ nextId \in 1 .. MaxIds + 1 /\ MaxIds \in Nat /\ nextId - 1 \in Nat /\ nextId' - 1 \in Nat
      /\ nextId - 1 <= nextId' - 1 /\ Recent \in Nat
  <2>1. nextId \in 1 .. MaxIds + 1 /\ MaxIds \in Nat /\ Recent \in Nat
    BY Positive DEF RememberedOK
  <2>2. \A n \in 1 .. MaxIds + 1 : n \in Int /\ n - 1 \in Nat
    BY <2>1, SMT
  <2>3. nextId - 1 \in Nat /\ nextId' - 1 \in Nat /\ nextId \in Int /\ nextId' \in Int
    BY <2>1, <2>2
  <2>4. \A n, m \in Int : n >= m => m - 1 <= n - 1
    OBVIOUS
  <2>. QED
    BY <2>1, <2>3, <2>4, Zenon
<1>2. \A o \in 1 .. MaxIds : Cardinality(Others(o)) >= Recent => Cardinality(Others(o)') >= Recent
  <2>. TAKE o \in 1 .. MaxIds
  <2>1. IsFiniteSet(Others(o)) /\ IsFiniteSet(Others(o)') /\ Cardinality(Others(o)) <= Cardinality(Others(o)')
    BY <1>1, OthersFinite, MoreOthers DEF Others
  <2>2. Cardinality(Others(o)) \in Nat /\ Cardinality(Others(o)') \in Nat
    BY <2>1, FS_CardinalityType
  <2>. QED
    BY <1>1, <2>1, <2>2
<1>3. \A i \in 1 .. Len(recentToRadioPacketIds) : recentToRadioPacketIds[i] < nextId'
  <2>1. \A x \in 1 .. MaxIds : x < nextId => x < nextId'
    BY <1>1, SMT
  <2>2. \A i \in 1 .. Len(recentToRadioPacketIds) : recentToRadioPacketIds[i] \in 1 .. MaxIds
    BY ElementOfSeq DEF RememberedOK
  <2>. QED
    BY <2>1, <2>2 DEF RememberedOK
<1>4. RememberedOK'
  BY <1>2, <1>3 DEF RememberedOK, SeenRecently, Contains
<1>5. SentOnce'
  BY <1>2 DEF SentOnce, Others
<1>. QED
  BY <1>4, <1>5

LEMMA PacketRemembered ==
  ASSUME RememberedOK, SentOnce, NEW id \in 1 .. MaxIds, NEW traceroute \in BOOLEAN,
         HandleToRadioPacket(id, traceroute)
  PROVE  RememberedOK' /\ SentOnce'
<1>1. id <= nextId /\ nextId' = IF id = nextId THEN id + 1 ELSE nextId
  BY DEF HandleToRadioPacket
<1>2. nextId' \in {id + 1, nextId} /\ id < nextId' /\ nextId' >= nextId /\ nextId' \in 1 .. MaxIds + 1
  <2>1. nextId \in 1 .. MaxIds + 1 /\ MaxIds \in Nat
    BY Positive DEF RememberedOK
  <2>2. CASE id = nextId
    BY <1>1, <2>1, <2>2, SMT
  <2>3. CASE id # nextId
    BY <1>1, <2>1, <2>3, SMT
  <2>. QED
    BY <2>2, <2>3
<1>3. CASE UNCHANGED <<sent, recentToRadioPacketIds>>
  BY <1>2, <1>3, RememberedSeen
<1>4. CASE /\ ~ SeenRecently(id) /\ Remember(id)
           /\ sent' = sent \/ sent' = [sent EXCEPT ![id] = @ + 1]
  BY <1>1, <1>2, <1>4, RememberFacts
<1>5. \/ UNCHANGED <<sent, recentToRadioPacketIds>>
      \/ /\ ~ SeenRecently(id) /\ Remember(id)
         /\ sent' = sent \/ sent' = [sent EXCEPT ![id] = @ + 1]
  BY DEF HandleToRadioPacket, RateLimited, HandleToRadio
<1>. QED
  BY <1>3, <1>4, <1>5

(* What is read or happens otherwise leaves the packets sent alone, and but *)
(* for the packets of the mesh those for the phone.                         *)
SendsNothing == UNCHANGED <<recentToRadioPacketIds, nextId, sent>>
PassesNothing == UNCHANGED <<toPhoneQueue, arrived, dropped, received, lostInRead>>

LEMMA ReadFrame ==
  ASSUME LinkOK, PhoneReads
  PROVE  SendsNothing /\ (PassesNothing \/ SendPacket)
<1>1. CASE \/ SendMyInfo \/ SendOwnNodeInfo \/ SendMetadata \/ SendChannel \/ SendConfig
           \/ SendModuleConfig \/ SendNodeInfo \/ SendFileInfo \/ SendConfigComplete
  <2>1. \E state, next : Going(state, next)
    BY <1>1, Downloading DEF DownloadSteps
  <2>. QED
    BY <2>1 DEF Going, SendsNothing, PassesNothing, service, packetQueue
<1>2. CASE NothingToRead
  BY <1>2 DEF NothingToRead, SendsNothing, PassesNothing, service, packetQueue, session, packetHistory
<1>3. CASE SendQueueStatus
  <2>a. PICK y : y = Head(toPhoneQueueStatusQueue).free
    OBVIOUS
  <2>b. PICK x : x = <<"queueStatus", y>>
    OBVIOUS
  <2>1. x[1] # "packet"
    BY <2>b
  <2>2. GetFromRadio("PACKETS", x) /\ UNCHANGED packetQueue
    BY <1>3, <2>a, <2>b DEF SendQueueStatus
  <2>. QED
    BY <2>1, <2>2, GetFrame DEF SendsNothing, PassesNothing, packetQueue
<1>4. CASE SendNotification
  <2>a. PICK y : y = Head(Notifications)
    OBVIOUS
  <2>b. PICK x : x = <<"clientNotification", y>>
    OBVIOUS
  <2>1. x[1] # "packet"
    BY <2>b
  <2>2. GetFromRadio("PACKETS", x) /\ UNCHANGED packetQueue
    BY <1>4, <2>a, <2>b DEF SendNotification
  <2>. QED
    BY <2>1, <2>2, GetFrame DEF SendsNothing, PassesNothing, packetQueue
<1>5. CASE SendPacket
  <2>1. PICK x : GetFromRadio("PACKETS", x)
    BY <1>5 DEF SendPacket
  <2>. QED
    BY <1>5, <2>1, GetFrame DEF SendsNothing
<1>. QED
  BY <1>1, <1>2, <1>3, <1>4, <1>5 DEF PhoneReads

LEMMA Frame ==
  ASSUME LinkOK, [Next]_vars
  PROVE  /\ \/ SendsNothing
            \/ \E id \in 1 .. MaxIds, traceroute \in BOOLEAN : HandleToRadioPacket(id, traceroute)
         /\ PassesNothing \/ SendPacket \/ \E text \in BOOLEAN : HandleFromRadio(text)
<1>1. CASE UNCHANGED vars
  BY <1>1 DEF vars, SendsNothing, PassesNothing, service, packetQueue, session, phone, history, packetHistory
<1>2. CASE \E text \in BOOLEAN : HandleFromRadio(text)
  BY <1>2 DEF HandleFromRadio, SendsNothing, session, history, packetHistory
<1>3. CASE LoopNotify \/ LoopStore
  BY <1>3 DEF LoopNotify, LoopStore, SendsNothing, PassesNothing, packetQueue, session, phone, history, packetHistory
<1>4. CASE TxQueueDrains \/ Connect \/ LinkLost \/ OnDisconnect \/ Notified
  BY <1>4 DEF TxQueueDrains, Connect, LinkLost, OnDisconnect, Notified, SendsNothing, PassesNothing,
              service, packetQueue, session, phone, history, packetHistory
<1>5. CASE \E i \in 2 .. MAX_NUM_NODES : Evict(i)
  BY <1>5 DEF Evict, SendsNothing, PassesNothing, service, packetQueue, session, phone, history, packetHistory
<1>6. CASE PhoneReads
  BY <1>6, ReadFrame
<1>7. CASE PhoneWrites
  <2>1. CASE Disconnect
    BY <2>1 DEF Disconnect, SendsNothing, PassesNothing, service, packetQueue, packetHistory
  <2>2. CASE \E nonce \in Nonces : WantConfig(nonce)
    BY <2>2 DEF WantConfig, Ask, SendsNothing, PassesNothing, service, packetQueue, packetHistory
  <2>3. CASE \E id \in 1 .. MaxIds, traceroute \in BOOLEAN : HandleToRadioPacket(id, traceroute)
    BY <2>3 DEF HandleToRadioPacket, PassesNothing, packetQueue
  <2>. QED
    BY <1>7, <2>1, <2>2, <2>3 DEF PhoneWrites
<1>. QED
  BY <1>1, <1>2, <1>3, <1>4, <1>5, <1>6, <1>7 DEF Next

---------------------------------------------------------------------------
(* What the phone is given: the packets in order, and none unaccounted for. *)

LEMMA KeptUnchanged ==
  ASSUME OrderOK, AccountedOK, PassesNothing
  PROVE  OrderOK' /\ AccountedOK'
  BY Zenon DEF OrderOK, AccountedOK, Excused, PassesNothing

LEMMA QueueFacts ==
  ASSUME ServiceTypeOK, OrderOK
  PROVE  /\ arrived \in Nat /\ Len(toPhoneQueue) \in Nat /\ Len(received) \in Nat
         /\ \A i \in 1 .. Len(toPhoneQueue) : toPhoneQueue[i] \in 1 .. arrived
         /\ \A i \in 1 .. Len(received) : received[i] \in 1 .. arrived
         /\ \A n \in 1 .. arrived : n \in Int /\ n <= arrived
<1>1. arrived \in Nat /\ toPhoneQueue \in Seq(1 .. arrived) /\ received \in Seq(1 .. arrived)
  BY DEF ServiceTypeOK, OrderOK
<1>2. PICK S : S = 1 .. arrived
  OBVIOUS
<1>3. Len(toPhoneQueue) \in Nat /\ Len(received) \in Nat
  BY <1>1, LenProperties
<1>4. \A i \in 1 .. Len(toPhoneQueue) : toPhoneQueue[i] \in S
  BY <1>1, <1>2, ElementOfSeq
<1>5. \A i \in 1 .. Len(received) : received[i] \in S
  BY <1>1, <1>2, ElementOfSeq
<1>6. \A n \in 1 .. arrived : n \in Int /\ n <= arrived
  BY <1>1, SMT
<1>. QED
  BY <1>1, <1>2, <1>3, <1>4, <1>5, <1>6

(* What is read, got of length k, and what waits, q of length n, in order    *)
(* with a packets come; and q with one at its end, as r of length m.         *)
InOrder(a, k, got, n, q) ==
  /\ \A i, j \in 1 .. n : i < j => q[i] < q[j]
  /\ \A i \in 1 .. k, j \in 1 .. n : got[i] < q[j]
  /\ \A i \in 1 .. n : q[i] + (n - i) <= a

Longer(a, n, q, m, r) ==
  /\ \/ m = n /\ n > 0 /\ \A i \in 1 .. m - 1 : r[i] = q[i + 1]
     \/ m = n + 1 /\ \A i \in 1 .. m - 1 : r[i] = q[i]
  /\ r[m] = a + 1

LEMMA ArrivalOrder ==
  ASSUME NEW a \in Nat, NEW k \in Nat, NEW got, NEW n \in Nat, NEW q, NEW m \in Nat, NEW r,
         InOrder(a, k, got, n, q), Longer(a, n, q, m, r),
         \A i \in 1 .. n : q[i] \in 1 .. a, \A i \in 1 .. k : got[i] \in 1 .. a
  PROVE  InOrder(a + 1, k, got, m, r)
<1>0. /\ \A i \in 1 .. n : q[i] \in 1 .. a /\ q[i] + (n - i) <= a
      /\ \A i, j \in 1 .. n : i < j => q[i] < q[j]
      /\ \A i \in 1 .. k, j \in 1 .. n : got[i] < q[j]
      /\ \/ m = n /\ n > 0 /\ \A i \in 1 .. m - 1 : r[i] = q[i + 1]
         \/ m = n + 1 /\ \A i \in 1 .. m - 1 : r[i] = q[i]
      /\ r[m] = a + 1
  BY DEF InOrder, Longer
<1>1. \A i \in 1 .. m : i = m \/ i \in 1 .. m - 1
  BY SMT
<1>2. \A i \in 1 .. m - 1 : r[i] \in 1 .. a /\ r[i] + (m - i) <= a + 1
  <2>1. CASE m = n /\ \A i \in 1 .. m - 1 : r[i] = q[i + 1]
    <3>. TAKE i \in 1 .. m - 1
    <3>1. i + 1 \in 1 .. n /\ i \in Int
      BY <2>1, SMT
    <3>2. q[i + 1] \in 1 .. a /\ q[i + 1] + (n - (i + 1)) <= a
      BY <1>0, <3>1
    <3>. QED
      BY <2>1, <3>1, <3>2
  <2>2. CASE m = n + 1 /\ \A i \in 1 .. m - 1 : r[i] = q[i]
    <3>. TAKE i \in 1 .. m - 1
    <3>1. i \in 1 .. n /\ i \in Int
      BY <2>2, SMT
    <3>2. q[i] \in 1 .. a /\ q[i] + (n - i) <= a
      BY <1>0, <3>1
    <3>. QED
      BY <2>2, <3>1, <3>2
  <2>. QED
    BY <1>0, <2>1, <2>2
<1>3. \A i, j \in 1 .. m - 1 : i < j => r[i] < r[j]
  <2>1. CASE m = n /\ \A i \in 1 .. m - 1 : r[i] = q[i + 1]
    <3>. SUFFICES ASSUME NEW i \in 1 .. m - 1, NEW j \in 1 .. m - 1, i < j
                  PROVE  r[i] < r[j]
      OBVIOUS
    <3>1. i + 1 \in 1 .. n /\ j + 1 \in 1 .. n /\ i + 1 < j + 1
      BY <2>1, SMT
    <3>. QED
      BY <1>0, <2>1, <3>1
  <2>2. CASE m = n + 1 /\ \A i \in 1 .. m - 1 : r[i] = q[i]
    <3>1. \A i \in 1 .. m - 1 : i \in 1 .. n
      BY <2>2, SMT
    <3>. QED
      BY <1>0, <2>2, <3>1
  <2>. QED
    BY <1>0, <2>1, <2>2
<1>4. \A i \in 1 .. k, j \in 1 .. m - 1 : got[i] < r[j]
  <2>1. CASE m = n /\ \A i \in 1 .. m - 1 : r[i] = q[i + 1]
    <3>1. \A i \in 1 .. m - 1 : i + 1 \in 1 .. n
      BY <2>1, SMT
    <3>. QED
      BY <1>0, <2>1, <3>1
  <2>2. CASE m = n + 1 /\ \A i \in 1 .. m - 1 : r[i] = q[i]
    <3>1. \A i \in 1 .. m - 1 : i \in 1 .. n
      BY <2>2, SMT
    <3>. QED
      BY <1>0, <2>2, <3>1
  <2>. QED
    BY <1>0, <2>1, <2>2
<1>5. \A x \in 1 .. a : x < a + 1
  BY SMT
<1>6. \A i, j \in 1 .. m : i < j => i \in 1 .. m - 1
  BY SMT
<1>7. \A i, j \in 1 .. m : i < j => r[i] < r[j]
  <2>. SUFFICES ASSUME NEW i \in 1 .. m, NEW j \in 1 .. m, i < j
                PROVE  r[i] < r[j]
    OBVIOUS
  <2>1. i \in 1 .. m - 1
    BY <1>6
  <2>. QED
    BY <1>0, <1>1, <1>2, <1>3, <1>5, <2>1
<1>8. \A i \in 1 .. k, j \in 1 .. m : got[i] < r[j]
  BY <1>0, <1>1, <1>4, <1>5
<1>9. \A i \in 1 .. m : r[i] + (m - i) <= a + 1
  <2>1. r[m] + (m - m) <= a + 1
    BY <1>0, SMT
  <2>. QED
    BY <1>1, <1>2, <2>1
<1>. QED
  BY <1>7, <1>8, <1>9 DEF InOrder

LEMMA ArrivalOrdered ==
  ASSUME ServiceTypeOK, OrderOK, NEW text \in BOOLEAN, HandleFromRadio(text)
  PROVE  OrderOK'
<1>1. SendToPhone(text) /\ UNCHANGED <<received, lostInRead>>
  BY DEF HandleFromRadio, phone, history, packetHistory
<1>2. /\ arrived \in Nat /\ Len(toPhoneQueue) \in Nat /\ Len(received) \in Nat /\ arrived' = arrived + 1
      /\ \A i \in 1 .. Len(toPhoneQueue) : toPhoneQueue[i] \in 1 .. arrived
      /\ \A i \in 1 .. Len(received) : received[i] \in 1 .. arrived
  BY <1>1, QueueFacts, SendToPhoneFacts
<1>3. received' \in Seq(1 .. arrived')
  <2>1. 1 .. arrived \subseteq 1 .. arrived + 1 /\ received \in Seq(1 .. arrived)
    BY <1>2, SMT DEF OrderOK
  <2>. QED
    BY <1>1, <1>2, <2>1, SeqMonotonic
<1>4. /\ \A i, j \in 1 .. Len(toPhoneQueue') : i < j => toPhoneQueue'[i] < toPhoneQueue'[j]
      /\ \A i \in 1 .. Len(received), j \in 1 .. Len(toPhoneQueue') : received[i] < toPhoneQueue'[j]
      /\ \A i \in 1 .. Len(toPhoneQueue') : toPhoneQueue'[i] + (Len(toPhoneQueue') - i) <= arrived + 1
  <2>1. PICK n \in Nat, k \in Nat : n = Len(toPhoneQueue) /\ k = Len(received)
    BY <1>2
  <2>2. /\ \A i, j \in 1 .. n : i < j => toPhoneQueue[i] < toPhoneQueue[j]
        /\ \A i \in 1 .. k, j \in 1 .. n : received[i] < toPhoneQueue[j]
        /\ \A i \in 1 .. n : toPhoneQueue[i] \in 1 .. arrived /\ toPhoneQueue[i] + (n - i) <= arrived
        /\ \A i \in 1 .. k : received[i] \in 1 .. arrived
    BY <1>2, <2>1 DEF OrderOK
  <2>3. CASE toPhoneQueue' = toPhoneQueue
    <3>1. \A i \in 1 .. n : toPhoneQueue[i] + (n - i) <= arrived + 1
      <4>. TAKE i \in 1 .. n
      <4>1. toPhoneQueue[i] \in 1 .. arrived /\ toPhoneQueue[i] + (n - i) <= arrived
        BY <2>2
      <4>. QED
        BY <1>2, <4>1, SMT
    <3>. QED
      BY <2>1, <2>2, <2>3, <3>1
  <2>4. CASE /\ toPhoneQueue'[Len(toPhoneQueue')] = arrived + 1 /\ Len(toPhoneQueue') \in 1 .. MAX_RX_TOPHONE
             /\ \/ /\ Len(toPhoneQueue') = n /\ n > 0
                   /\ \A i \in 1 .. Len(toPhoneQueue') - 1 : toPhoneQueue'[i] = toPhoneQueue[i + 1]
                \/ /\ Len(toPhoneQueue') = n + 1
                   /\ \A i \in 1 .. Len(toPhoneQueue') - 1 : toPhoneQueue'[i] = toPhoneQueue[i]
    <3>1. PICK m \in Nat : m = Len(toPhoneQueue')
      BY <2>4, Positive, SMT
    <3>2. PICK a \in Nat : a = arrived
      BY <1>2
    <3>3. PICK q : q = toPhoneQueue
      OBVIOUS
    <3>4. PICK r : r = toPhoneQueue'
      OBVIOUS
    <3>5. PICK got : got = received
      OBVIOUS
    <3>6. /\ InOrder(a, k, got, n, q)
          /\ \A i \in 1 .. n : q[i] \in 1 .. a
          /\ \A i \in 1 .. k : got[i] \in 1 .. a
      BY <2>2, <3>2, <3>3, <3>5, Zenon DEF InOrder
    <3>7. Longer(a, n, q, m, r)
      BY <2>4, <3>1, <3>2, <3>3, <3>4 DEF Longer
    <3>8. InOrder(a + 1, k, got, m, r)
      BY <2>1, <3>1, <3>2, <3>6, <3>7, ArrivalOrder
    <3>. QED
      BY <2>1, <3>1, <3>2, <3>4, <3>5, <3>8, Zenon DEF InOrder
  <2>5. n = MAX_RX_TOPHONE => n > 0
    BY Positive, SMT
  <2>. QED
    BY <1>1, <2>1, <2>3, <2>4, <2>5, SendToPhoneFacts
<1>5. \A i, j \in 1 .. Len(received) : i < j => received[i] < received[j]
  BY DEF OrderOK
<1>. QED
  BY <1>1, <1>2, <1>3, <1>4, <1>5 DEF OrderOK

LEMMA ArrivalAccounted ==
  ASSUME ServiceTypeOK, OrderOK, AccountedOK, NEW text \in BOOLEAN, HandleFromRadio(text)
  PROVE  AccountedOK'
<1>1. SendToPhone(text) /\ received' = received /\ lostInRead' = lostInRead
  BY DEF HandleFromRadio, phone, history, packetHistory
<1>2. arrived \in Nat /\ Len(toPhoneQueue) \in Nat /\ arrived' = arrived + 1 /\ MAX_RX_TOPHONE \in Nat
  BY <1>1, QueueFacts, SendToPhoneFacts, Positive
<1>3. dropped \subseteq dropped'
  BY <1>1 DEF SendToPhone, EnqueueToPhone, LeaveToHistory
<1>4. ASSUME NEW n \in 1 .. arrived, Excused(n)
      PROVE  Excused(n)'
  <2>1. n \in Int
    BY SMT
  <2>2. arrived - n >= MAX_RX_TOPHONE => arrived' - n >= MAX_RX_TOPHONE
    BY <1>2, <2>1
  <2>. QED
    BY <1>1, <1>3, <1>4, <2>2 DEF Excused
<1>5. ASSUME NEW n \in 1 .. arrived, NEW i \in 1 .. Len(toPhoneQueue), toPhoneQueue[i] = n
      PROVE  (\E j \in 1 .. Len(toPhoneQueue') : toPhoneQueue'[j] = n) \/ Excused(n)'
  <2>0. n \in Int /\ i \in Int
    BY <1>2, SMT
  <2>1. CASE toPhoneQueue' = toPhoneQueue
    BY <1>5, <2>1
  <2>2. CASE /\ Len(toPhoneQueue') = Len(toPhoneQueue) + 1
             /\ \A j \in 1 .. Len(toPhoneQueue') - 1 : toPhoneQueue'[j] = toPhoneQueue[j]
    <3>1. i \in 1 .. Len(toPhoneQueue') - 1 /\ i \in 1 .. Len(toPhoneQueue')
      BY <1>2, <2>2, SMT
    <3>. QED
      BY <1>5, <2>2, <3>1
  <2>3. CASE /\ Len(toPhoneQueue) = MAX_RX_TOPHONE /\ dropped' = dropped \cup {[num |-> toPhoneQueue[1], text |-> TRUE]}
             /\ Len(toPhoneQueue') = Len(toPhoneQueue)
             /\ \A j \in 1 .. Len(toPhoneQueue') - 1 : toPhoneQueue'[j] = toPhoneQueue[j + 1]
    <3>1. CASE i = 1
      <4>1. n + (Len(toPhoneQueue) - 1) <= arrived
        BY <1>5, <3>1 DEF OrderOK
      <4>2. arrived' - n >= MAX_RX_TOPHONE
        BY <1>2, <2>0, <2>3, <4>1
      <4>3. PICK p \in dropped' : p = [num |-> n, text |-> TRUE]
        BY <1>5, <2>3, <3>1
      <4>. QED
        BY <4>2, <4>3 DEF Excused
    <3>2. CASE i # 1
      <4>1. i - 1 \in 1 .. Len(toPhoneQueue') - 1 /\ i - 1 \in 1 .. Len(toPhoneQueue') /\ (i - 1) + 1 = i
        BY <1>2, <2>3, <3>2, SMT
      <4>. QED
        BY <1>5, <2>3, <4>1
    <3>. QED
      BY <3>1, <3>2
  <2>. QED
    BY <1>1, <2>1, <2>2, <2>3, SendToPhoneFacts
<1>a. PICK new : new = arrived + 1
  OBVIOUS
<1>6. (\E j \in 1 .. Len(toPhoneQueue') : toPhoneQueue'[j] = new) \/ Excused(new)'
  <2>1. CASE dropped' = dropped \cup {[num |-> arrived + 1, text |-> FALSE]}
    <3>1. PICK p \in dropped' : p = [num |-> new, text |-> FALSE]
      BY <1>a, <2>1
    <3>. QED
      BY <3>1 DEF Excused
  <2>2. CASE toPhoneQueue'[Len(toPhoneQueue')] = arrived + 1 /\ Len(toPhoneQueue') \in 1 .. MAX_RX_TOPHONE
    <3>1. Len(toPhoneQueue') \in 1 .. Len(toPhoneQueue')
      BY <1>2, <2>2, SMT
    <3>. QED
      BY <1>a, <2>2, <3>1
  <2>. QED
    BY <1>1, <2>1, <2>2, SendToPhoneFacts
<1>7. \A n \in 1 .. arrived' : n \in 1 .. arrived \/ n = new
  BY <1>2, <1>a, SMT
<1>8. ASSUME NEW n \in 1 .. arrived
      PROVE  \/ \E i \in 1 .. Len(received) : received[i] = n
             \/ \E j \in 1 .. Len(toPhoneQueue') : toPhoneQueue'[j] = n
             \/ Excused(n)'
  BY <1>4, <1>5 DEF AccountedOK
<1>. QED
  BY <1>1, <1>6, <1>7, <1>8 DEF AccountedOK

(* A packet read goes to the end of those read, or was lost with the link. *)
LEMMA PacketRead ==
  ASSUME ServiceTypeOK, OrderOK, AccountedOK, SendPacket
  PROVE  OrderOK' /\ AccountedOK'
<1>1. PICK h : h = Head(toPhoneQueue)
  OBVIOUS
<1>2. PICK x : x = <<"packet", h>>
  OBVIOUS
<1>3. x[1] = "packet" /\ x[2] = h
  BY <1>2
<1>4. /\ toPhoneQueue # <<>> /\ GetFromRadio("PACKETS", x) /\ toPhoneQueue' = Tail(toPhoneQueue)
      /\ arrived' = arrived /\ dropped' = dropped
  BY <1>1, <1>2 DEF SendPacket
<1>5. \/ received' = Append(received, h) /\ lostInRead' = lostInRead
      \/ received' = received /\ lostInRead' = lostInRead \cup {h}
  BY <1>3, <1>4 DEF GetFromRadio, Receive
<1>6. PICK t : t = toPhoneQueue'
  OBVIOUS
<1>7. toPhoneQueue \in Seq(1 .. arrived) /\ received \in Seq(1 .. arrived)
  BY DEF ServiceTypeOK, OrderOK
<1>8. /\ arrived \in Nat /\ Len(toPhoneQueue) \in Nat /\ Len(received) \in Nat
      /\ \A i \in 1 .. Len(toPhoneQueue) : toPhoneQueue[i] \in 1 .. arrived
      /\ \A i \in 1 .. Len(received) : received[i] \in 1 .. arrived
  BY QueueFacts
<1>9. h \in 1 .. arrived /\ Len(t) = Len(toPhoneQueue) - 1 /\ h = toPhoneQueue[1]
      /\ \A i \in 1 .. Len(t) : t[i] = toPhoneQueue[i + 1]
  <2>1. h \in 1 .. arrived
    BY <1>1, <1>4, <1>7, HeadTailProperties
  <2>2. h = toPhoneQueue[1]
    BY <1>1
  <2>3. t = Tail(toPhoneQueue)
    BY <1>4, <1>6
  <2>4. Len(t) = Len(toPhoneQueue) - 1 /\ \A i \in 1 .. Len(t) : t[i] = toPhoneQueue[i + 1]
    BY <1>4, <1>7, <2>3, HeadTailProperties
  <2>. QED
    BY <2>1, <2>2, <2>4
<1>10. Len(toPhoneQueue) >= 1 /\ 1 \in 1 .. Len(toPhoneQueue)
  BY <1>4, <1>7, <1>8, EmptySeq
<1>11. \A i \in 1 .. Len(t) : i + 1 \in 1 .. Len(toPhoneQueue) /\ 1 < i + 1 /\ i \in Int
  BY <1>8, <1>9, SMT
<1>12. /\ \A i, j \in 1 .. Len(t) : i < j => t[i] < t[j]
       /\ \A i \in 1 .. Len(received), j \in 1 .. Len(t) : received[i] < t[j]
       /\ \A j \in 1 .. Len(t) : h < t[j]
       /\ \A i \in 1 .. Len(received) : received[i] < h
       /\ \A i \in 1 .. Len(t) : t[i] + (Len(t) - i) <= arrived
  <2>1. \A i, j \in 1 .. Len(t) : i < j => i + 1 < j + 1
    BY <1>8, <1>9, SMT
  <2>2. \A i, j \in 1 .. Len(t) : i < j => t[i] < t[j]
    BY <1>9, <1>11, <2>1 DEF OrderOK
  <2>3. \A i \in 1 .. Len(received), j \in 1 .. Len(t) : received[i] < t[j]
    BY <1>9, <1>11 DEF OrderOK
  <2>4. \A j \in 1 .. Len(t) : h < t[j]
    BY <1>9, <1>10, <1>11 DEF OrderOK
  <2>5. \A i \in 1 .. Len(received) : received[i] < h
    BY <1>9, <1>10 DEF OrderOK
  <2>6. \A i \in 1 .. Len(t) : t[i] + (Len(t) - i) <= arrived
    <3>. TAKE i \in 1 .. Len(t)
    <3>1. toPhoneQueue[i + 1] + (Len(toPhoneQueue) - (i + 1)) <= arrived
      BY <1>11 DEF OrderOK
    <3>. QED
      BY <1>8, <1>9, <1>11, <3>1
  <2>. QED
    BY <2>2, <2>3, <2>4, <2>5, <2>6
<1>13. ASSUME NEW n \in 1 .. arrived, NEW i \in 1 .. Len(toPhoneQueue), toPhoneQueue[i] = n
       PROVE  n = h \/ \E j \in 1 .. Len(t) : t[j] = n
  <2>1. CASE i = 1
    BY <1>9, <1>13, <2>1
  <2>2. CASE i # 1
    <3>1. i - 1 \in 1 .. Len(t) /\ (i - 1) + 1 = i
      BY <1>8, <1>9, <2>2, SMT
    <3>. QED
      BY <1>9, <1>13, <3>1
  <2>. QED
    BY <2>1, <2>2
<1>14. \A n \in 1 .. arrived : Excused(n) => Excused(n)'
  BY <1>4, <1>5 DEF Excused
<1>15. CASE received' = Append(received, h) /\ lostInRead' = lostInRead
  <2>1. PICK g : g = Append(received, h)
    OBVIOUS
  <2>2. /\ g \in Seq(1 .. arrived) /\ Len(g) = Len(received) + 1 /\ g[Len(received) + 1] = h
        /\ \A i \in 1 .. Len(received) : g[i] = received[i]
    BY <1>7, <1>9, <2>1, AppendProperties
  <2>3. \A i \in 1 .. Len(g) : i \in 1 .. Len(received) \/ i = Len(received) + 1
    BY <1>8, <2>2, SMT
  <2>4. \A i \in 1 .. Len(received) : i \in 1 .. Len(g)
    BY <1>8, <2>2, SMT
  <2>5. Len(g) \in 1 .. Len(g) /\ Len(g) = Len(received) + 1
    BY <1>8, <2>2, SMT
  <2>6. \A i, j \in 1 .. Len(g) : i < j => g[i] < g[j]
    <3>. SUFFICES ASSUME NEW i \in 1 .. Len(g), NEW j \in 1 .. Len(g), i < j
                  PROVE  g[i] < g[j]
      OBVIOUS
    <3>1. i \in 1 .. Len(received)
      BY <1>8, <2>2, SMT
    <3>. QED
      BY <1>12, <2>2, <2>3, <3>1 DEF OrderOK
  <2>7. \A i \in 1 .. Len(g), j \in 1 .. Len(t) : g[i] < t[j]
    BY <1>12, <2>2, <2>3
  <2>8. OrderOK'
    BY <1>4, <1>6, <1>12, <1>15, <2>1, <2>2, <2>6, <2>7, Zenon DEF OrderOK
  <2>9. \A n \in 1 .. arrived : \/ \E i \in 1 .. Len(g) : g[i] = n
                                \/ \E i \in 1 .. Len(t) : t[i] = n
                                \/ Excused(n)'
    BY <1>13, <1>14, <2>2, <2>4, <2>5 DEF AccountedOK
  <2>. QED
    BY <1>4, <1>6, <1>15, <2>1, <2>8, <2>9 DEF AccountedOK
<1>16. CASE received' = received /\ lostInRead' = lostInRead \cup {h}
  <2>1. \A i, j \in 1 .. Len(received) : i < j => received[i] < received[j]
    BY DEF OrderOK
  <2>2. OrderOK'
    BY <1>4, <1>6, <1>7, <1>12, <1>16, <2>1, Zenon DEF OrderOK
  <2>3. Excused(h)'
    BY <1>16 DEF Excused
  <2>4. \A n \in 1 .. arrived : \/ \E i \in 1 .. Len(received) : received[i] = n
                                \/ \E i \in 1 .. Len(t) : t[i] = n
                                \/ Excused(n)'
    BY <1>13, <1>14, <2>3 DEF AccountedOK
  <2>. QED
    BY <1>4, <1>6, <1>16, <2>2, <2>4 DEF AccountedOK
<1>. QED
  BY <1>5, <1>15, <1>16

---------------------------------------------------------------------------
(* The invariant holds, and with it what is promised. *)

LEMMA InvInit == Init => Inv
<1>. SUFFICES ASSUME Init
              PROVE  Inv
  OBVIOUS
<1>1. ServiceInit /\ api = Closed /\ recentToRadioPacketIds = <<>> /\ traced = FALSE /\ free = TRUE
      /\ mainLoop = "idle" /\ meshNodes = AllNodes /\ link = FALSE /\ reading = FALSE /\ told = FALSE
      /\ asked = 0 /\ repeated = FALSE /\ received = <<>> /\ blocked = FALSE /\ nextId = 1
      /\ sent = [id \in 1 .. MaxIds |-> 0] /\ skipped = 0
  BY DEF Init
<1>2. \A S : <<>> \in Seq(S) /\ Len(<<>>) = 0
  BY EmptySeq
<1>3. \A m \in Nat : 1 .. 0 = {} /\ 0 <= m /\ 0 \in 0 .. m /\ 1 \in 1 .. m + 1
  BY SMT
<1>4. ServiceTypeOK
  <2>1. /\ toPhoneQueue = <<>> /\ toPhoneQueueStatusQueue = <<>> /\ toPhoneClientNotificationQueue = <<>>
        /\ lastQueueStatus = [free |-> TRUE, id |-> 0] /\ fromNumChanged = FALSE /\ arrived = 0 /\ dropped = {}
    BY <1>1 DEF ServiceInit
  <2>2. lastQueueStatus \in QueueStatus
    BY <2>1 DEF QueueStatus
  <2>3. Len(<<>>) <= MAX_RX_TOPHONE /\ Len(<<>>) <= MaxNotifications
    BY <1>2, Positive, SMT
  <2>. QED
    BY <1>2, <2>1, <2>2, <2>3 DEF ServiceTypeOK
<1>5. ApiOK
  BY <1>1, ClosedFacts DEF ApiOK
<1>6. TasksOK
  BY <1>1 DEF TasksOK
<1>7. LinkOK
  BY <1>1, AllNodesFacts DEF LinkOK
<1>8. AnnouncedOK /\ PacketsAnnounced
  BY <1>1 DEF AnnouncedOK, PacketsAnnounced
<1>9. RememberedOK
  <2>1. Len(<<>>) <= Recent /\ nextId \in 1 .. MaxIds + 1
    BY <1>1, <1>2, <1>3, Positive
  <2>2. sent \in [1 .. MaxIds -> Nat] /\ \A id \in 1 .. MaxIds : ~ sent[id] > 0
    BY <1>1
  <2>. QED
    BY <1>1, <1>2, <1>3, <2>1, <2>2 DEF RememberedOK
<1>10. SentOnce
  BY <1>1 DEF SentOnce
<1>11. toPhoneQueue = <<>> /\ arrived = 0
  BY <1>1 DEF ServiceInit
<1>12. OrderOK /\ AccountedOK
  <2>1. \A i \in 1 .. 0 : FALSE
    BY <1>3
  <2>. QED
    BY <1>1, <1>2, <1>11, <2>1 DEF OrderOK, AccountedOK
<1>. QED
  BY <1>4, <1>5, <1>6, <1>7, <1>8, <1>9, <1>10, <1>12 DEF Inv

LEMMA InvNext == Inv /\ [Next]_vars => Inv'
<1>. SUFFICES ASSUME Inv, [Next]_vars
              PROVE  Inv'
  OBVIOUS
<1>1. ServiceTypeOK /\ SessionInv /\ ApiOK /\ TasksOK /\ LinkOK /\ RememberedOK /\ SentOnce /\ OrderOK /\ AccountedOK
  BY DEF Inv, SessionInv
<1>2. ServiceTypeOK'
  BY <1>1, ServiceNext
<1>3. SessionInv'
  BY <1>1, SessionNext
<1>4. RememberedOK' /\ SentOnce'
  BY <1>1, Frame, RememberedUnchanged, PacketRemembered DEF SendsNothing
<1>5. OrderOK' /\ AccountedOK'
  BY <1>1, Frame, KeptUnchanged, ArrivalOrdered, ArrivalAccounted, PacketRead
<1>. QED
  BY <1>2, <1>3, <1>4, <1>5 DEF Inv, SessionInv

LEMMA SpecInv == Spec => []Inv
  BY InvInit, InvNext, PTL DEF Spec

(* The queues to the phone and the ids remembered stay within their sizes, *)
(* a session never counts past the nodes, and only a phone that is         *)
(* connected reads or waits.                                               *)
THEOREM PhoneTypeOK == Spec => []TypeOK
<1>1. Inv => TypeOK
  <2>. SUFFICES ASSUME Inv
                PROVE  TypeOK
    OBVIOUS
  <2>1. ServiceTypeOK /\ ApiOK /\ TasksOK /\ LinkOK /\ RememberedOK
    BY DEF Inv
  <2>2. /\ api \in [state : States, config_state : Nat, readIndex : 0 .. MAX_NUM_NODES,
                    config_nonce : Nonces \cup {0}, notification : Nat]
        /\ mainLoop \in {"idle", "notified"}
        /\ {traced, free, link, reading, told, blocked, repeated} \subseteq BOOLEAN
    BY <2>1 DEF ApiOK, Session, TasksOK, LinkOK
  <2>3. /\ recentToRadioPacketIds \in Seq(1 .. MaxIds) /\ Len(recentToRadioPacketIds) <= Recent
        /\ nextId \in 1 .. MaxIds + 1
    BY <2>1 DEF RememberedOK
  <2>4. asked \in Nonces \cup {0} /\ skipped \in Nat /\ (reading \/ told \/ asked # 0 => link)
    BY <2>1 DEF LinkOK
  <2>. QED
    BY <2>1, <2>2, <2>3, <2>4, Zenon DEF TypeOK
<1>. QED
  BY <1>1, SpecInv, PTL

(* Packets reach the phone in the order they came, each once; one that     *)
(* never does was lost with the link while it was read, or to a full       *)
(* queue, a text only when as many as the queue holds have come since.     *)
THEOREM PhonePacketsKept == Spec => []PacketsKept
<1>1. Inv => PacketsKept
  <2>. SUFFICES ASSUME Inv
                PROVE  PacketsKept
    OBVIOUS
  <2>1. ServiceTypeOK /\ OrderOK /\ AccountedOK
    BY DEF Inv
  <2>2. PICK S : S = 1 .. arrived
    OBVIOUS
  <2>3. PICK a \in Seq(S), b \in Seq(S) : a = received /\ b = toPhoneQueue
    BY <2>1, <2>2 DEF ServiceTypeOK, OrderOK
  <2>4. PICK kept : kept = a \o b
    OBVIOUS
  <2>5. Len(a) \in Nat /\ Len(b) \in Nat /\ kept \in Seq(S) /\ Len(kept) = Len(a) + Len(b)
    BY <2>3, <2>4, ConcatProperties, LenProperties
  <2>6. DOMAIN kept = 1 .. Len(a) + Len(b)
    BY <2>5, LenProperties
  <2>7. \A i \in 1 .. Len(a) + Len(b) : kept[i] = IF i <= Len(a) THEN a[i] ELSE b[i - Len(a)]
    BY <2>3, <2>4, ConcatProperties
  <2>8. \A i \in 1 .. Len(a) : i \in 1 .. Len(a) + Len(b) /\ kept[i] = a[i]
    <3>. TAKE i \in 1 .. Len(a)
    <3>1. i \in 1 .. Len(a) + Len(b) /\ i <= Len(a)
      BY <2>5, SMT
    <3>. QED
      BY <2>7, <3>1
  <2>9. \A i \in 1 .. Len(b) : i + Len(a) \in 1 .. Len(a) + Len(b) /\ kept[i + Len(a)] = b[i]
    <3>. TAKE i \in 1 .. Len(b)
    <3>1. i + Len(a) \in 1 .. Len(a) + Len(b) /\ ~ (i + Len(a) <= Len(a)) /\ (i + Len(a)) - Len(a) = i
      BY <2>5, SMT
    <3>. QED
      BY <2>7, <3>1
  <2>10. ASSUME NEW i \in 1 .. Len(a) + Len(b), NEW j \in 1 .. Len(a) + Len(b), i < j
         PROVE  kept[i] < kept[j]
    <3>1. CASE j <= Len(a)
      <4>1. i \in 1 .. Len(a) /\ j \in 1 .. Len(a)
        BY <2>5, <2>10, <3>1, SMT
      <4>. QED
        BY <2>1, <2>3, <2>8, <2>10, <4>1 DEF OrderOK
    <3>2. CASE i <= Len(a) /\ ~ j <= Len(a)
      <4>1. i \in 1 .. Len(a) /\ j - Len(a) \in 1 .. Len(b)
        BY <2>5, <3>2, SMT
      <4>. QED
        BY <2>1, <2>3, <2>7, <3>2, <4>1 DEF OrderOK
    <3>3. CASE ~ i <= Len(a)
      <4>1. i - Len(a) \in 1 .. Len(b) /\ j - Len(a) \in 1 .. Len(b) /\ i - Len(a) < j - Len(a) /\ ~ j <= Len(a)
        BY <2>5, <2>10, <3>3, SMT
      <4>. QED
        BY <2>1, <2>3, <2>7, <3>3, <4>1 DEF OrderOK
    <3>. QED
      BY <3>1, <3>2, <3>3
  <2>11. ASSUME NEW n \in 1 .. arrived
         PROVE  \/ n \in ToSet(kept) \cup lostInRead
                \/ \E p \in dropped : p.num = n /\ (p.text => arrived - n >= MAX_RX_TOPHONE)
    <3>1. ToSet(kept) = {kept[i] : i \in 1 .. Len(a) + Len(b)}
      BY <2>6 DEF ToSet
    <3>2. CASE \E i \in 1 .. Len(received) : received[i] = n
      BY <2>3, <2>8, <3>1, <3>2
    <3>3. CASE \E i \in 1 .. Len(toPhoneQueue) : toPhoneQueue[i] = n
      BY <2>3, <2>9, <3>1, <3>3
    <3>4. CASE Excused(n)
      BY <3>4 DEF Excused
    <3>. QED
      BY <2>1, <3>2, <3>3, <3>4 DEF AccountedOK
  <2>. QED
    BY <2>3, <2>4, <2>6, <2>10, <2>11 DEF PacketsKept
<1>. QED
  BY <1>1, SpecInv, PTL

(* A connected phone that has stopped reading is told of packets that wait. *)
THEOREM PhonePacketsAnnounced == Spec => []PacketsAnnounced
<1>1. Inv => PacketsAnnounced
  BY DEF Inv
<1>. QED
  BY <1>1, SpecInv, PTL

(* What a phone sends again goes out once, unless it made as many others as *)
(* are remembered.                                                          *)
THEOREM PhoneSentOnce == Spec => []SentOnce
<1>1. Inv => SentOnce
  BY DEF Inv
<1>. QED
  BY <1>1, SpecInv, PTL

---------------------------------------------------------------------------
(* The download: what of it the phone has read, by the state the session   *)
(* is in.                                                                  *)

Item == ConfigKinds \X Nat

Preamble == << <<"my_info", 0>>, <<"own_node", 1>>, <<"metadata", 0>> >>
LastOf(from) == IF from < MAX_NUM_CHANNELS THEN MAX_NUM_CHANNELS - 1 ELSE from
UpToChannel(from, c) == Preamble \o Count("channel", from, c)
UpToConfig(from, c) == UpToChannel(from, LastOf(from)) \o Count("config", 1, c)
UpToModuleConfig(from, c) == UpToConfig(from, Configs) \o Count("moduleConfig", 1, c)
UpToNode(from, infos) == UpToModuleConfig(from, ModuleConfigs) \o infos
UpToFile(from, infos, c) == UpToNode(from, infos) \o Count("fileInfo", 0, c)

(* The nodes the database had when the download began, and has, that the   *)
(* phone was not sent although readIndex is past them.                     *)
Missed(infos, r, nodes) ==
  {nodes[j] : j \in 1 .. r} \ ({0, 1} \cup {infos[i][2] : i \in 1 .. Len(infos)})

(* The nodes sent so far, in order, and before those still to be sent.     *)
SentNodes(infos, r, nodes, n) ==
  /\ Ordered(infos)
  /\ \A i \in 1 .. Len(infos), j \in 1 .. Len(nodes) :
       j > r => infos[i][2] < nodes[j] \/ nodes[j] = 0
  /\ IsFiniteSet(Missed(infos, r, nodes)) /\ Cardinality(Missed(infos, r, nodes)) <= n

AllSent(infos, nonce, r, nodes, n) ==
  \/ nonce = SPECIAL_NONCE /\ infos = <<>>
  \/ nonce # SPECIAL_NONCE /\ r = Len(nodes) /\ SentNodes(infos, r, nodes, n)

Finished(nonce, r, d, from, nodes, n) ==
  \E infos \in Seq(Item) :
    /\ d = Append(UpToFile(from, infos, Files - 1), <<"config_complete_id", nonce>>)
    /\ AllSent(infos, nonce, r, nodes, n)

Stage(state, c, r, nonce, d, from, nodes, n) ==
  /\ d \in Seq(Item)
  /\ state # "PACKETS" => \A i \in 1 .. Len(d) : d[i][1] # "config_complete_id"
  /\ state = "MY_INFO" => d = <<>> /\ c = from
  /\ state = "OWN_NODEINFO" => d = << <<"my_info", 0>> >> /\ c = from
  /\ state = "METADATA" => d = << <<"my_info", 0>>, <<"own_node", 1>> >> /\ c = from /\ r = 1
  /\ state = "CHANNELS" =>
       d = UpToChannel(from, c - 1) /\ from <= c /\ c <= LastOf(from) /\ r = 1
  /\ state = "CONFIG" => d = UpToConfig(from, c - 1) /\ 1 <= c /\ c <= Configs /\ r = 1
  /\ state = "MODULECONFIG" =>
       d = UpToModuleConfig(from, c - 1) /\ 1 <= c /\ c <= ModuleConfigs /\ r = 1
  /\ state = "OTHER_NODEINFOS" =>
       c = 0 /\ nonce # SPECIAL_NONCE /\ \E infos \in Seq(Item) :
         d = UpToNode(from, infos) /\ SentNodes(infos, r, nodes, n)
  /\ state = "FILEMANIFEST" =>
       c <= Files /\ \E infos \in Seq(Item) :
         d = UpToFile(from, infos, c - 1) /\ AllSent(infos, nonce, r, nodes, n)
  /\ state = "PACKETS" =>
       d = <<>> \/ \E done \in Nat : Finished(done, r, d, from, nodes, n)

(* The own node is first, and stays; the others keep their order, and the  *)
(* newcomers, 0, come last.                                                *)
InPlace(nodes, n) ==
  /\ n \in Nat /\ nodes[1] = 1
  /\ \A i, j \in 1 .. Len(nodes) : i < j => nodes[i] < nodes[j] \/ nodes[j] = 0

StageOK ==
  Stage(api.state, api.config_state, api.readIndex, api.config_nonce,
        download, skipped, meshNodes, evictions)

DownloadInv ==
  /\ InPlace(meshNodes, evictions)
  /\ download # <<>> => link /\ api.state # "NOTHING"
  /\ link /\ ~ repeated => StageOK

LEMMA Sizes ==
  /\ MAX_NUM_CHANNELS \in Nat \ {0} /\ Configs \in Nat \ {0} /\ ModuleConfigs \in Nat \ {0}
  /\ Files \in Nat /\ MAX_NUM_NODES \in Nat \ {0} /\ Nonces \subseteq Nat /\ SPECIAL_NONCE \in Nat
  BY PhoneAssumption

(* One more of a kind. *)
LEMMA CountMore ==
  ASSUME NEW kind \in ConfigKinds, NEW from \in Nat, NEW c \in Nat, from <= c
  PROVE  /\ Count(kind, from, c - 1) \in Seq(Item) /\ Count(kind, from, c) \in Seq(Item)
         /\ Count(kind, from, from - 1) = <<>>
         /\ Append(Count(kind, from, c - 1), <<kind, c>>) = Count(kind, from, c)
<1>1. PICK k \in Nat : k = c - from
  OBVIOUS
<1>2. (c - 1) - from + 1 = k /\ c - from + 1 = k + 1 /\ (from - 1) - from + 1 = 0
  BY <1>1
<1>3. \A i \in 1 .. k + 1 : <<kind, from + i - 1>> \in Item
  <2>1. \A i \in 1 .. k + 1 : from + i - 1 \in Nat
    BY <1>1
  <2>. QED
    BY <2>1 DEF Item
<1>4. PICK short \in [1 .. k -> Item] : short = [i \in 1 .. k |-> <<kind, from + i - 1>>]
  <2>1. \A i \in 1 .. k : i \in 1 .. k + 1
    BY <1>1
  <2>2. \A i \in 1 .. k : <<kind, from + i - 1>> \in Item
    BY <1>3, <2>1, Zenon
  <2>. QED
    BY <2>2
<1>5. PICK long \in [1 .. k + 1 -> Item] : long = [i \in 1 .. k + 1 |-> <<kind, from + i - 1>>]
  BY <1>3
<1>6. short \in Seq(Item) /\ Len(short) = k /\ \A i \in 1 .. k : short[i] = <<kind, from + i - 1>>
  <2>1. short \in Seq(Item) /\ Len(short) = k
    BY <1>1
  <2>2. \A i \in 1 .. k : short[i] = <<kind, from + i - 1>>
    BY <1>4, Zenon
  <2>. QED
    BY <2>1, <2>2
<1>7. long \in Seq(Item) /\ Len(long) = k + 1 /\ \A i \in 1 .. k + 1 : long[i] = <<kind, from + i - 1>>
  <2>1. long \in Seq(Item) /\ Len(long) = k + 1
    BY <1>1
  <2>2. \A i \in 1 .. k + 1 : long[i] = <<kind, from + i - 1>>
    BY <1>5, Zenon
  <2>. QED
    BY <2>1, <2>2
<1>8. Append(short, <<kind, c>>) = long
  <2>1. PICK x \in Item : x = <<kind, c>>
    BY DEF Item
  <2>2. PICK t \in Seq(Item) : t = Append(short, x)
    BY <1>6, <2>1, AppendProperties
  <2>3. Len(t) = k + 1 /\ (\A i \in 1 .. k : t[i] = short[i]) /\ t[k + 1] = x
    BY <1>6, <2>1, <2>2, AppendProperties
  <2>4. long[k + 1] = x
    <3>1. from + (k + 1) - 1 = c /\ k + 1 \in 1 .. k + 1
      BY <1>1
    <3>. QED
      BY <1>7, <2>1, <3>1
  <2>5. \A i \in 1 .. k + 1 : t[i] = long[i]
    <3>. SUFFICES ASSUME NEW i \in 1 .. k + 1
                  PROVE  t[i] = long[i]
      OBVIOUS
    <3>1. CASE i \in 1 .. k
      BY <1>6, <1>7, <2>3, <3>1
    <3>2. CASE i = k + 1
      BY <2>3, <2>4, <3>2
    <3>. QED
      BY <3>1, <3>2
  <2>6. Len(t) = Len(long) /\ \A i \in 1 .. Len(t) : t[i] = long[i]
    BY <1>7, <2>3, <2>5
  <2>7. t = long
    BY <1>7, <2>6, SeqEqual
  <2>. QED
    BY <2>1, <2>2, <2>7
<1>9. [i \in 1 .. 0 |-> <<kind, from + i - 1>>] = <<>>
  OBVIOUS
<1>. QED
  BY <1>2, <1>4, <1>5, <1>6, <1>7, <1>8, <1>9 DEF Count

LEMMA AppendOfConcat ==
  ASSUME NEW s \in Seq(Item), NEW t \in Seq(Item), NEW x \in Item
  PROVE  Append(s \o t, x) = s \o Append(t, x)
<1>1. s \o t \in Seq(Item)
  BY ConcatProperties
<1>2. <<x>> \in Seq(Item)
  OBVIOUS
<1>3. Append(s \o t, x) = (s \o t) \o <<x>>
  BY <1>1, AppendIsConcat
<1>4. (s \o t) \o <<x>> = s \o (t \o <<x>>)
  BY <1>2, ConcatAssociative
<1>5. t \o <<x>> = Append(t, x)
  BY AppendIsConcat
<1>. QED
  BY <1>3, <1>4, <1>5

Grows(s, kind, from, c) ==
  /\ s \o Count(kind, from, c - 1) \in Seq(Item) /\ s \o Count(kind, from, c) \in Seq(Item)
  /\ s \o Count(kind, from, from - 1) = s
  /\ Append(s \o Count(kind, from, c - 1), <<kind, c>>) = s \o Count(kind, from, c)

LEMMA OneMore ==
  ASSUME NEW s \in Seq(Item), NEW kind \in ConfigKinds, NEW from \in Nat, NEW c \in Nat, from <= c
  PROVE  Grows(s, kind, from, c)
<1>1. PICK t \in Seq(Item) : t = Count(kind, from, c - 1)
  BY CountMore
<1>2. PICK x \in Item : x = <<kind, c>>
  BY DEF Item
<1>3. Append(t, x) = Count(kind, from, c) /\ Count(kind, from, from - 1) = <<>>
  BY <1>1, <1>2, CountMore
<1>4. s \o t \in Seq(Item) /\ s \o <<>> = s
  BY ConcatProperties, ConcatEmptySeq
<1>6. Append(s \o t, x) = s \o Append(t, x)
  BY AppendOfConcat
<1>9. s \o Append(t, x) \in Seq(Item)
  BY AppendProperties, ConcatProperties
<1>. QED
  BY <1>1, <1>2, <1>3, <1>4, <1>6, <1>9 DEF Grows

LEMMA KindsFacts ==
  /\ Preamble \in Seq(Item)
  /\ {"channel", "config", "moduleConfig", "node_info", "fileInfo"} \subseteq ConfigKinds
  /\ \A n \in Nat : <<"config_complete_id", n>> \in Item /\ <<"node_info", n>> \in Item
<1>1. <<"my_info", 0>> \in Item /\ <<"own_node", 1>> \in Item /\ <<"metadata", 0>> \in Item
  BY DEF Item, ConfigKinds
<1>2. \A x, y, z \in Item : <<x, y, z>> \in Seq(Item)
  OBVIOUS
<1>3. Preamble \in Seq(Item)
  BY <1>1, <1>2 DEF Preamble
<1>4. \A n \in Nat : <<"config_complete_id", n>> \in Item /\ <<"node_info", n>> \in Item
  BY DEF Item, ConfigKinds
<1>. QED
  BY <1>3, <1>4 DEF ConfigKinds

(* What each state has sent is a sequence of items; the next item, and the *)
(* next state, extend it.                                                  *)
LEMMA Parts ==
  ASSUME NEW from \in Nat, NEW infos \in Seq(Item)
  PROVE  /\ LastOf(from) \in Nat /\ from <= LastOf(from)
         /\ \A c \in Nat : from <= c =>
              /\ UpToChannel(from, c) \in Seq(Item)
              /\ Append(UpToChannel(from, c - 1), <<"channel", c>>) = UpToChannel(from, c)
         /\ \A c \in Nat : 1 <= c =>
              /\ UpToConfig(from, c) \in Seq(Item)
              /\ Append(UpToConfig(from, c - 1), <<"config", c>>) = UpToConfig(from, c)
         /\ \A c \in Nat : 1 <= c =>
              /\ UpToModuleConfig(from, c) \in Seq(Item)
              /\ Append(UpToModuleConfig(from, c - 1), <<"moduleConfig", c>>) = UpToModuleConfig(from, c)
         /\ UpToNode(from, infos) \in Seq(Item)
         /\ \A c \in Nat :
              /\ UpToFile(from, infos, c - 1) \in Seq(Item)
              /\ Append(UpToFile(from, infos, c - 1), <<"fileInfo", c>>) = UpToFile(from, infos, c)
         /\ UpToChannel(from, from - 1) = Preamble
         /\ UpToConfig(from, 0) = UpToChannel(from, LastOf(from))
         /\ UpToModuleConfig(from, 0) = UpToConfig(from, Configs)
         /\ UpToNode(from, <<>>) = UpToModuleConfig(from, ModuleConfigs)
         /\ UpToFile(from, infos, 0 - 1) = UpToNode(from, infos)
<1>1. LastOf(from) \in Nat /\ from <= LastOf(from)
  BY Sizes DEF LastOf
<1>2. /\ "channel" \in ConfigKinds /\ "config" \in ConfigKinds /\ "moduleConfig" \in ConfigKinds
      /\ "fileInfo" \in ConfigKinds /\ Preamble \in Seq(Item)
  BY KindsFacts
<1>3. /\ \A c \in Nat : from <= c =>
           /\ UpToChannel(from, c) \in Seq(Item)
           /\ Append(UpToChannel(from, c - 1), <<"channel", c>>) = UpToChannel(from, c)
      /\ UpToChannel(from, from - 1) = Preamble
  <2>1. \A c \in Nat : from <= c => Grows(Preamble, "channel", from, c)
    BY <1>2, OneMore
  <2>2. Grows(Preamble, "channel", from, from)
    BY <2>1
  <2>. QED
    BY <2>1, <2>2 DEF Grows, UpToChannel
<1>4. PICK channels \in Seq(Item) : channels = UpToChannel(from, LastOf(from))
  BY <1>1, <1>3
<1>5. 1 - 1 = 0 /\ 1 \in Nat /\ Configs \in Nat /\ 1 <= Configs /\ ModuleConfigs \in Nat /\ 1 <= ModuleConfigs
  BY Sizes
<1>6. /\ \A c \in Nat : 1 <= c =>
           /\ UpToConfig(from, c) \in Seq(Item)
           /\ Append(UpToConfig(from, c - 1), <<"config", c>>) = UpToConfig(from, c)
      /\ UpToConfig(from, 0) = channels
  <2>1. \A c \in Nat : 1 <= c => Grows(channels, "config", 1, c)
    BY <1>2, <1>5, OneMore
  <2>2. Grows(channels, "config", 1, 1)
    BY <1>5, <2>1
  <2>. QED
    BY <1>4, <1>5, <2>1, <2>2 DEF Grows, UpToConfig
<1>7. PICK configs \in Seq(Item) : configs = UpToConfig(from, Configs)
  BY <1>5, <1>6
<1>8. /\ \A c \in Nat : 1 <= c =>
           /\ UpToModuleConfig(from, c) \in Seq(Item)
           /\ Append(UpToModuleConfig(from, c - 1), <<"moduleConfig", c>>) = UpToModuleConfig(from, c)
      /\ UpToModuleConfig(from, 0) = configs
  <2>1. \A c \in Nat : 1 <= c => Grows(configs, "moduleConfig", 1, c)
    BY <1>2, <1>5, OneMore
  <2>2. Grows(configs, "moduleConfig", 1, 1)
    BY <1>5, <2>1
  <2>. QED
    BY <1>5, <1>7, <2>1, <2>2 DEF Grows, UpToModuleConfig
<1>9. PICK modules \in Seq(Item) : modules = UpToModuleConfig(from, ModuleConfigs)
  BY <1>5, <1>8
<1>10. PICK nodes \in Seq(Item) : nodes = UpToNode(from, infos)
  BY <1>9, ConcatProperties DEF UpToNode
<1>11. UpToNode(from, <<>>) = UpToModuleConfig(from, ModuleConfigs)
  BY <1>9, ConcatEmptySeq DEF UpToNode
<1>12. /\ \A c \in Nat :
            /\ nodes \o Count("fileInfo", 0, c - 1) \in Seq(Item)
            /\ Append(nodes \o Count("fileInfo", 0, c - 1), <<"fileInfo", c>>) = nodes \o Count("fileInfo", 0, c)
       /\ nodes \o Count("fileInfo", 0, 0 - 1) = nodes
  <2>1. \A c \in Nat : Grows(nodes, "fileInfo", 0, c)
    <3>1. \A c \in Nat : 0 \in Nat /\ 0 <= c
      OBVIOUS
    <3>. QED
      BY <1>2, <3>1, OneMore
  <2>. QED
    BY <2>1 DEF Grows
<1>. QED
  BY <1>1, <1>3, <1>4, <1>6, <1>7, <1>8, <1>10, <1>11, <1>12 DEF UpToFile
LEMMA Incomplete ==
  ASSUME NEW d \in Seq(Item), NEW x \in Item, x[1] # "config_complete_id",
         \A i \in 1 .. Len(d) : d[i][1] # "config_complete_id"
  PROVE  /\ Append(d, x) \in Seq(Item)
         /\ \A i \in 1 .. Len(Append(d, x)) : Append(d, x)[i][1] # "config_complete_id"
<1>1. PICK t \in Seq(Item) : t = Append(d, x) /\ Len(t) = Len(d) + 1
         /\ (\A i \in 1 .. Len(d) : t[i] = d[i]) /\ t[Len(d) + 1] = x
  <2>1. PICK t \in Seq(Item) : t = Append(d, x)
    BY AppendProperties
  <2>. QED
    BY <2>1, AppendProperties
<1>2. PICK n \in Nat : n = Len(d)
  OBVIOUS
<1>3. \A i \in 1 .. n + 1 : i \in 1 .. n \/ i = n + 1
  OBVIOUS
<1>. QED
  BY <1>1, <1>2, <1>3

LEMMA AppendSecond ==
  ASSUME NEW S, NEW a \in S, NEW b \in S
  PROVE  Append(<<a>>, b) = <<a, b>>
<1>2. PICK s \in Seq(S) : s = <<a>> /\ Len(s) = 1 /\ s[1] = a
  <2>1. <<a>> \in Seq(S)
    OBVIOUS
  <2>2. PICK s \in Seq(S) : s = <<a>>
    BY <2>1
  <2>3. Len(s) = 1 /\ s[1] = a
    BY <2>2
  <2>. QED
    BY <2>2, <2>3
<1>3. PICK t \in Seq(S) : t = <<a, b>> /\ Len(t) = 2 /\ t[1] = a /\ t[2] = b
  <2>1. <<a, b>> \in Seq(S)
    OBVIOUS
  <2>2. PICK t \in Seq(S) : t = <<a, b>>
    BY <2>1
  <2>3. Len(t) = 2 /\ t[1] = a /\ t[2] = b
    BY <2>2
  <2>. QED
    BY <2>2, <2>3
<1>5. PICK u \in Seq(S) : u = Append(s, b)
  BY AppendProperties
<1>6. Len(u) = 2 /\ u[1] = a /\ u[2] = b
  <2>1. Len(u) = Len(s) + 1 /\ (\A i \in 1 .. Len(s) : u[i] = s[i]) /\ u[Len(s) + 1] = b
    BY <1>5, AppendProperties
  <2>. QED
    BY <1>2, <2>1
<1>7. Len(u) = Len(t) /\ \A i \in 1 .. Len(u) : u[i] = t[i]
  BY <1>3, <1>6
<1>8. u = t
  BY <1>7, SeqEqual
<1>. QED
  BY <1>2, <1>3, <1>5, <1>8

LEMMA AppendThird ==
  ASSUME NEW S, NEW a \in S, NEW b \in S, NEW c \in S
  PROVE  Append(<<a, b>>, c) = <<a, b, c>>
<1>2. PICK s \in Seq(S) : s = <<a, b>> /\ Len(s) = 2 /\ s[1] = a /\ s[2] = b
  <2>1. <<a, b>> \in Seq(S)
    OBVIOUS
  <2>2. PICK s \in Seq(S) : s = <<a, b>>
    BY <2>1
  <2>3. Len(s) = 2 /\ s[1] = a /\ s[2] = b
    BY <2>2
  <2>. QED
    BY <2>2, <2>3
<1>3. PICK t \in Seq(S) : t = <<a, b, c>> /\ Len(t) = 3 /\ t[1] = a /\ t[2] = b /\ t[3] = c
  <2>1. <<a, b, c>> \in Seq(S)
    OBVIOUS
  <2>2. PICK t \in Seq(S) : t = <<a, b, c>>
    BY <2>1
  <2>3. Len(t) = 3 /\ t[1] = a /\ t[2] = b /\ t[3] = c
    BY <2>2
  <2>. QED
    BY <2>2, <2>3
<1>5. PICK u \in Seq(S) : u = Append(s, c)
  BY AppendProperties
<1>6. Len(u) = 3 /\ u[1] = a /\ u[2] = b /\ u[3] = c
  <2>1. Len(u) = Len(s) + 1 /\ (\A i \in 1 .. Len(s) : u[i] = s[i]) /\ u[Len(s) + 1] = c
    BY <1>5, AppendProperties
  <2>. QED
    BY <1>2, <2>1
<1>7. Len(u) = Len(t) /\ \A i \in 1 .. Len(u) : u[i] = t[i]
  BY <1>3, <1>6
<1>8. u = t
  BY <1>7, SeqEqual
<1>. QED
  BY <1>2, <1>3, <1>5, <1>8

LEMMA ItemFacts ==
  ASSUME NEW kind \in ConfigKinds, NEW y \in Nat
  PROVE  <<kind, y>> \in Item /\ <<kind, y>>[1] = kind /\ <<kind, y>>[2] = y
  BY DEF Item

(* One lemma for each state of the download: what it sends makes the next. *)
LEMMA MyInfoStage ==
  ASSUME NEW c, NEW r, NEW nonce, NEW d, NEW from, NEW nodes, NEW n,
         Stage("MY_INFO", c, r, nonce, d, from, nodes, n)
  PROVE  Stage("OWN_NODEINFO", c, r, nonce, Append(d, <<"my_info", 0>>), from, nodes, n)
<1>1. d = <<>> /\ c = from /\ d \in Seq(Item) /\ \A i \in 1 .. Len(d) : d[i][1] # "config_complete_id"
  BY DEF Stage
<1>2. PICK x \in Item : x = <<"my_info", 0>> /\ x[1] # "config_complete_id"
  BY ItemFacts DEF ConfigKinds
<1>3. Append(<<>>, x) = <<x>>
  BY <1>2
<1>4. PICK e \in Seq(Item) : e = Append(d, x) /\ \A i \in 1 .. Len(e) : e[i][1] # "config_complete_id"
  BY <1>1, <1>2, Incomplete
<1>. QED
  BY <1>1, <1>2, <1>3, <1>4 DEF Stage

LEMMA OwnNodeStage ==
  ASSUME NEW c, NEW nonce, NEW d, NEW from, NEW nodes, NEW n,
         Stage("OWN_NODEINFO", c, 0, nonce, d, from, nodes, n)
  PROVE  Stage("METADATA", c, 1, nonce, Append(d, <<"own_node", 1>>), from, nodes, n)
<1>1. /\ d = << <<"my_info", 0>> >> /\ c = from /\ d \in Seq(Item)
      /\ \A i \in 1 .. Len(d) : d[i][1] # "config_complete_id"
  BY DEF Stage
<1>2. PICK x \in Item : x = <<"own_node", 1>> /\ x[1] # "config_complete_id"
  BY ItemFacts DEF ConfigKinds
<1>3. Append(<< <<"my_info", 0>> >>, <<"own_node", 1>>) = << <<"my_info", 0>>, <<"own_node", 1>> >>
  BY <1>2, AppendSecond, ItemFacts DEF ConfigKinds
<1>4. PICK e \in Seq(Item) : e = Append(d, x) /\ \A i \in 1 .. Len(e) : e[i][1] # "config_complete_id"
  BY <1>1, <1>2, Incomplete
<1>. QED
  BY <1>1, <1>2, <1>3, <1>4 DEF Stage

LEMMA MetadataStage ==
  ASSUME NEW c, NEW r, NEW nonce, NEW d, NEW from \in Nat, NEW nodes, NEW n,
         Stage("METADATA", c, r, nonce, d, from, nodes, n)
  PROVE  Stage("CHANNELS", c, r, nonce, Append(d, <<"metadata", 0>>), from, nodes, n)
<1>1. /\ d = << <<"my_info", 0>>, <<"own_node", 1>> >> /\ c = from /\ r = 1 /\ d \in Seq(Item)
      /\ \A i \in 1 .. Len(d) : d[i][1] # "config_complete_id"
  BY DEF Stage
<1>2. PICK x \in Item : x = <<"metadata", 0>> /\ x[1] # "config_complete_id"
  BY ItemFacts DEF ConfigKinds
<1>3. Append(<< <<"my_info", 0>>, <<"own_node", 1>> >>, <<"metadata", 0>>) = Preamble
  <2>1. PICK a, b \in Item : a = <<"my_info", 0>> /\ b = <<"own_node", 1>>
    BY ItemFacts DEF ConfigKinds
  <2>. QED
    BY <1>2, <2>1, AppendThird DEF Preamble
<1>4. PICK e \in Seq(Item) : e = Append(d, x) /\ \A i \in 1 .. Len(e) : e[i][1] # "config_complete_id"
  BY <1>1, <1>2, Incomplete
<1>5. LastOf(from) \in Nat /\ from <= LastOf(from) /\ UpToChannel(from, from - 1) = Preamble
  BY Parts, EmptySeq
<1>6. from <= from
  OBVIOUS
<1>. QED
  BY <1>1, <1>2, <1>3, <1>4, <1>5, <1>6 DEF Stage

LEMMA ChannelStage ==
  ASSUME NEW c \in Nat, NEW r, NEW nonce, NEW d, NEW from \in Nat, NEW nodes, NEW n,
         Stage("CHANNELS", c, r, nonce, d, from, nodes, n)
  PROVE  IF c + 1 >= MAX_NUM_CHANNELS
         THEN Stage("CONFIG", 1, r, nonce, Append(d, <<"channel", c>>), from, nodes, n)
         ELSE Stage("CHANNELS", c + 1, r, nonce, Append(d, <<"channel", c>>), from, nodes, n)
<1>1. /\ d = UpToChannel(from, c - 1) /\ from <= c /\ c <= LastOf(from) /\ r = 1 /\ d \in Seq(Item)
      /\ \A i \in 1 .. Len(d) : d[i][1] # "config_complete_id"
  BY DEF Stage
<1>2. PICK x \in Item : x = <<"channel", c>> /\ x[1] # "config_complete_id"
  BY ItemFacts DEF ConfigKinds
<1>3. PICK e \in Seq(Item) : e = Append(d, x) /\ \A i \in 1 .. Len(e) : e[i][1] # "config_complete_id"
  BY <1>1, <1>2, Incomplete
<1>4. e = UpToChannel(from, c) /\ UpToConfig(from, 0) = UpToChannel(from, LastOf(from))
  <2>1. <<>> \in Seq(Item)
    OBVIOUS
  <2>. QED
    BY <1>1, <1>2, <1>3, <2>1, Parts
<1>5. CASE c + 1 >= MAX_NUM_CHANNELS
  <2>1. c = LastOf(from)
    <3>1. from <= c /\ c <= LastOf(from)
      BY <1>1
    <3>. QED
      BY <1>5, <3>1, Sizes DEF LastOf
  <2>2. 1 - 1 = 0 /\ 1 <= 1 /\ 1 <= Configs
    BY Sizes
  <2>. QED
    BY <1>1, <1>2, <1>3, <1>4, <1>5, <2>1, <2>2 DEF Stage
<1>6. CASE ~ c + 1 >= MAX_NUM_CHANNELS
  <2>1. (c + 1) - 1 = c /\ from <= c + 1 /\ c + 1 <= LastOf(from)
    <3>1. from <= c /\ c <= LastOf(from)
      BY <1>1
    <3>. QED
      BY <1>6, <3>1, Sizes DEF LastOf
  <2>. QED
    BY <1>1, <1>2, <1>3, <1>4, <1>6, <2>1 DEF Stage
<1>. QED
  BY <1>5, <1>6

LEMMA ConfigStage ==
  ASSUME NEW c \in Nat, NEW r, NEW nonce, NEW d, NEW from \in Nat, NEW nodes, NEW n,
         Stage("CONFIG", c, r, nonce, d, from, nodes, n)
  PROVE  IF c >= Configs
         THEN Stage("MODULECONFIG", 1, r, nonce, Append(d, <<"config", c>>), from, nodes, n)
         ELSE Stage("CONFIG", c + 1, r, nonce, Append(d, <<"config", c>>), from, nodes, n)
<1>1. /\ d = UpToConfig(from, c - 1) /\ 1 <= c /\ c <= Configs /\ r = 1 /\ d \in Seq(Item)
      /\ \A i \in 1 .. Len(d) : d[i][1] # "config_complete_id"
  BY DEF Stage
<1>2. PICK x \in Item : x = <<"config", c>> /\ x[1] # "config_complete_id"
  BY ItemFacts DEF ConfigKinds
<1>3. PICK e \in Seq(Item) : e = Append(d, x) /\ \A i \in 1 .. Len(e) : e[i][1] # "config_complete_id"
  BY <1>1, <1>2, Incomplete
<1>4. e = UpToConfig(from, c) /\ UpToModuleConfig(from, 0) = UpToConfig(from, Configs)
  <2>1. <<>> \in Seq(Item)
    OBVIOUS
  <2>. QED
    BY <1>1, <1>2, <1>3, <2>1, Parts
<1>5. CASE c >= Configs
  <2>1. c = Configs /\ 1 - 1 = 0 /\ 1 <= 1 /\ 1 <= ModuleConfigs
    BY <1>1, <1>5, Sizes
  <2>. QED
    BY <1>1, <1>2, <1>3, <1>4, <1>5, <2>1 DEF Stage
<1>6. CASE ~ c >= Configs
  <2>1. (c + 1) - 1 = c /\ 1 <= c + 1 /\ c + 1 <= Configs
    <3>1. 1 <= c
      BY <1>1
    <3>. QED
      BY <1>6, <3>1, Sizes
  <2>. QED
    BY <1>1, <1>2, <1>3, <1>4, <1>6, <2>1 DEF Stage
<1>. QED
  BY <1>5, <1>6

(* Nothing is missed before the first of the other nodes. *)
LEMMA NoneMissed ==
  ASSUME NEW nodes, NEW n, InPlace(nodes, n)
  PROVE  SentNodes(<<>>, 1, nodes, n)
<1>1. Len(<<>>) = 0 /\ 1 .. 0 = {} /\ 1 .. 1 = {1} /\ n \in Nat /\ nodes[1] = 1
  BY DEF InPlace
<1>2. Missed(<<>>, 1, nodes) = {}
  BY <1>1 DEF Missed
<1>3. IsFiniteSet({}) /\ Cardinality({}) = 0
  BY FS_EmptySet
<1>4. Ordered(<<>>)
  BY <1>1 DEF Ordered
<1>5. IsFiniteSet(Missed(<<>>, 1, nodes)) /\ Cardinality(Missed(<<>>, 1, nodes)) <= n
  <2>1. 0 <= n
    BY <1>1
  <2>. QED
    BY <1>2, <1>3, <2>1
<1>6. \A i \in 1 .. Len(<<>>) : FALSE
  BY <1>1
<1>. QED
  BY <1>4, <1>5, <1>6 DEF SentNodes

LEMMA ModuleConfigStage ==
  ASSUME NEW c \in Nat, NEW r, NEW nonce, NEW d, NEW from \in Nat, NEW nodes, NEW n,
         Stage("MODULECONFIG", c, r, nonce, d, from, nodes, n), InPlace(nodes, n)
  PROVE  IF c >= ModuleConfigs
         THEN Stage(IF nonce = SPECIAL_NONCE THEN "FILEMANIFEST" ELSE "OTHER_NODEINFOS", 0, r, nonce,
                    Append(d, <<"moduleConfig", c>>), from, nodes, n)
         ELSE Stage("MODULECONFIG", c + 1, r, nonce, Append(d, <<"moduleConfig", c>>), from, nodes, n)
<1>1. /\ d = UpToModuleConfig(from, c - 1) /\ 1 <= c /\ c <= ModuleConfigs /\ r = 1 /\ d \in Seq(Item)
      /\ \A i \in 1 .. Len(d) : d[i][1] # "config_complete_id"
  BY DEF Stage
<1>2. PICK x \in Item : x = <<"moduleConfig", c>> /\ x[1] # "config_complete_id"
  BY ItemFacts DEF ConfigKinds
<1>3. PICK e \in Seq(Item) : e = Append(d, x) /\ \A i \in 1 .. Len(e) : e[i][1] # "config_complete_id"
  BY <1>1, <1>2, Incomplete
<1>4. PICK none \in Seq(Item) : none = <<>>
  BY EmptySeq
<1>5. /\ e = UpToModuleConfig(from, c) /\ UpToNode(from, none) = UpToModuleConfig(from, ModuleConfigs)
      /\ UpToFile(from, none, 0 - 1) = UpToNode(from, none)
  BY <1>1, <1>2, <1>3, <1>4, Parts
<1>6. CASE c >= ModuleConfigs
  <2>1. c = ModuleConfigs /\ 0 <= Files
    BY <1>1, <1>6, Sizes
  <2>2. CASE nonce = SPECIAL_NONCE
    <3>1. AllSent(none, nonce, r, nodes, n)
      BY <1>4, <2>2 DEF AllSent
    <3>. QED
      BY <1>2, <1>3, <1>5, <1>6, <2>1, <2>2, <3>1 DEF Stage
  <2>3. CASE nonce # SPECIAL_NONCE
    <3>1. SentNodes(none, r, nodes, n)
      BY <1>1, <1>4, NoneMissed
    <3>. QED
      BY <1>2, <1>3, <1>5, <1>6, <2>1, <2>3, <3>1 DEF Stage
  <2>. QED
    BY <2>2, <2>3
<1>7. CASE ~ c >= ModuleConfigs
  <2>1. (c + 1) - 1 = c /\ 1 <= c + 1 /\ c + 1 <= ModuleConfigs
    <3>1. 1 <= c
      BY <1>1
    <3>. QED
      BY <1>7, <3>1, Sizes
  <2>. QED
    BY <1>1, <1>2, <1>3, <1>5, <1>7, <2>1 DEF Stage
<1>. QED
  BY <1>6, <1>7

(* The next node has its place after those sent, and is missed no more. *)
LEMMA NodeSent ==
  ASSUME NEW nodes \in Seq(Nat), NEW n, InPlace(nodes, n), NEW r \in Nat, r + 1 <= Len(nodes),
         NEW infos \in Seq(Item), SentNodes(infos, r, nodes, n)
  PROVE  SentNodes(Append(infos, <<"node_info", nodes[r + 1]>>), r + 1, nodes, n)
<1>1. PICK y \in Nat : y = nodes[r + 1]
  OBVIOUS
<1>2. PICK x \in Item : x = <<"node_info", y>> /\ x[1] = "node_info" /\ x[2] = y
  BY ItemFacts, KindsFacts
<1>3. PICK k \in Nat : k = Len(infos)
  OBVIOUS
<1>4. PICK more \in Seq(Item) : /\ more = Append(infos, x) /\ Len(more) = k + 1
         /\ \A i \in 1 .. k : more[i] = infos[i]
         /\ more[k + 1] = x
  <2>1. PICK more \in Seq(Item) : more = Append(infos, x)
    BY AppendProperties
  <2>2. Len(more) = Len(infos) + 1 /\ (\A i \in 1 .. Len(infos) : more[i] = infos[i]) /\ more[Len(infos) + 1] = x
    BY <2>1, AppendProperties
  <2>. QED
    BY <1>3, <2>1, <2>2
<1>5. \A i \in 1 .. k + 1 : i \in 1 .. k \/ i = k + 1
  OBVIOUS
<1>6. /\ \A i \in 1 .. k : infos[i][1] = "node_info" /\ (infos[i][2] < y \/ y = 0)
      /\ \A i, j \in 1 .. k : i < j => infos[i][2] < infos[j][2] \/ infos[j][2] = 0
      /\ \A i \in 1 .. k, j \in 1 .. Len(nodes) : j > r => infos[i][2] < nodes[j] \/ nodes[j] = 0
      /\ IsFiniteSet(Missed(infos, r, nodes)) /\ Cardinality(Missed(infos, r, nodes)) <= n
  <2>1. r + 1 \in 1 .. Len(nodes) /\ r + 1 > r
    OBVIOUS
  <2>. QED
    BY <1>1, <1>3, <2>1 DEF SentNodes, Ordered
<1>7. Ordered(more)
  <2>1. \A i \in 1 .. k + 1 : more[i][1] = "node_info"
    BY <1>2, <1>4, <1>5, <1>6
  <2>2. ASSUME NEW i \in 1 .. k + 1, NEW j \in 1 .. k + 1, i < j
        PROVE  more[i][2] < more[j][2] \/ more[j][2] = 0
    <3>1. i \in 1 .. k /\ (j \in 1 .. k \/ j = k + 1)
      BY <2>2
    <3>. QED
      BY <1>2, <1>4, <1>6, <2>2, <3>1
  <2>. QED
    BY <1>4, <2>1, <2>2 DEF Ordered
<1>8. \A i \in 1 .. k + 1, j \in 1 .. Len(nodes) : j > r + 1 => more[i][2] < nodes[j] \/ nodes[j] = 0
  <2>. SUFFICES ASSUME NEW i \in 1 .. k + 1, NEW j \in 1 .. Len(nodes), j > r + 1
                PROVE  more[i][2] < nodes[j] \/ nodes[j] = 0
    OBVIOUS
  <2>1. j > r /\ r + 1 \in 1 .. Len(nodes)
    OBVIOUS
  <2>2. y < nodes[j] \/ nodes[j] = 0
    BY <1>1, <2>1 DEF InPlace
  <2>. QED
    BY <1>2, <1>4, <1>5, <1>6, <2>1, <2>2
<1>9. Missed(more, r + 1, nodes) \subseteq Missed(infos, r, nodes)
  <2>. SUFFICES ASSUME NEW v \in Missed(more, r + 1, nodes)
                PROVE  v \in Missed(infos, r, nodes)
    OBVIOUS
  <2>1. PICK j \in 1 .. r + 1 : v = nodes[j]
    BY DEF Missed
  <2>2. v \notin {0, 1} /\ \A i \in 1 .. k + 1 : v # more[i][2]
    BY <1>4 DEF Missed
  <2>3. j # r + 1
    <3>1. more[k + 1][2] = nodes[r + 1] /\ k + 1 \in 1 .. k + 1
      BY <1>1, <1>2, <1>4
    <3>. QED
      BY <2>1, <2>2, <3>1
  <2>4. j \in 1 .. r
    BY <2>3
  <2>5. \A i \in 1 .. k : v # infos[i][2]
    <3>1. \A i \in 1 .. k : i \in 1 .. k + 1
      OBVIOUS
    <3>. QED
      BY <1>4, <2>2, <3>1
  <2>. QED
    BY <1>3, <2>1, <2>2, <2>4, <2>5 DEF Missed
<1>10. IsFiniteSet(Missed(more, r + 1, nodes)) /\ Cardinality(Missed(more, r + 1, nodes)) <= n
  <2>1. PICK big : big = Missed(infos, r, nodes) /\ IsFiniteSet(big) /\ Cardinality(big) <= n
    BY <1>6
  <2>2. PICK small : small = Missed(more, r + 1, nodes) /\ small \subseteq big
    BY <1>9, <2>1
  <2>3. IsFiniteSet(small) /\ Cardinality(small) <= Cardinality(big)
    BY <2>1, <2>2, FS_Subset
  <2>4. Cardinality(small) \in Nat /\ Cardinality(big) \in Nat /\ n \in Nat
    BY <2>1, <2>3, FS_CardinalityType DEF InPlace
  <2>. QED
    BY <2>1, <2>2, <2>3, <2>4
<1>. QED
  BY <1>1, <1>2, <1>4, <1>7, <1>8, <1>10 DEF SentNodes
LEMMA NodeInfoStage ==
  ASSUME NEW c \in Nat, NEW r \in Nat, NEW nonce, NEW d, NEW from \in Nat, NEW nodes \in Seq(Nat), NEW n,
         Stage("OTHER_NODEINFOS", c, r, nonce, d, from, nodes, n), InPlace(nodes, n), r < Len(nodes)
  PROVE  Stage("OTHER_NODEINFOS", c, r + 1, nonce, Append(d, <<"node_info", nodes[r + 1]>>), from, nodes, n)
<1>1. /\ c = 0 /\ nonce # SPECIAL_NONCE /\ d \in Seq(Item)
      /\ \A i \in 1 .. Len(d) : d[i][1] # "config_complete_id"
  BY DEF Stage
<1>2. PICK infos \in Seq(Item) : d = UpToNode(from, infos) /\ SentNodes(infos, r, nodes, n)
  BY DEF Stage
<1>3. PICK x \in Item : x = <<"node_info", nodes[r + 1]>> /\ x[1] # "config_complete_id"
  <2>1. r + 1 \in 1 .. Len(nodes)
    OBVIOUS
  <2>2. PICK y \in Nat : y = nodes[r + 1]
    BY <2>1, ElementOfSeq
  <2>. QED
    BY <2>2, ItemFacts DEF ConfigKinds
<1>4. PICK e \in Seq(Item) : e = Append(d, x) /\ \A i \in 1 .. Len(e) : e[i][1] # "config_complete_id"
  BY <1>1, <1>3, Incomplete
<1>5. PICK more \in Seq(Item) : more = Append(infos, x)
  BY AppendProperties
<1>6. SentNodes(more, r + 1, nodes, n)
  <2>1. r + 1 <= Len(nodes)
    OBVIOUS
  <2>2. SentNodes(Append(infos, <<"node_info", nodes[r + 1]>>), r + 1, nodes, n)
    BY <1>2, <2>1, NodeSent
  <2>. QED
    BY <1>3, <1>5, <2>2
<1>7. e = UpToNode(from, more)
  <2>1. 1 <= ModuleConfigs /\ ModuleConfigs \in Nat
    BY Sizes
  <2>2. PICK s \in Seq(Item) : s = UpToModuleConfig(from, ModuleConfigs)
    BY <2>1, Parts
  <2>3. e = Append(s \o infos, x)
    BY <1>2, <1>4, <2>2 DEF UpToNode
  <2>4. Append(s \o infos, x) = s \o more
    BY <1>5, AppendOfConcat
  <2>. QED
    BY <2>2, <2>3, <2>4 DEF UpToNode
<1>. QED
  BY <1>1, <1>3, <1>4, <1>6, <1>7 DEF Stage

(* Where the nodes are done: in FILEMANIFEST, or past the last of them.    *)
PastNodes(state, r, nodes) == r <= Len(nodes) /\ (state = "OTHER_NODEINFOS" => r >= Len(nodes))

FilesNext(c, r, nonce, d, from, nodes, n) ==
  /\ c <= Files /\ d \in Seq(Item) /\ \A i \in 1 .. Len(d) : d[i][1] # "config_complete_id"
  /\ \E infos \in Seq(Item) : d = UpToFile(from, infos, c - 1) /\ AllSent(infos, nonce, r, nodes, n)

LEMMA NodesDone ==
  ASSUME NEW state \in {"OTHER_NODEINFOS", "FILEMANIFEST"}, NEW c \in Nat, NEW r \in Nat, NEW nonce, NEW d,
         NEW from \in Nat, NEW nodes \in Seq(Nat), NEW n,
         Stage(state, c, r, nonce, d, from, nodes, n),
         PastNodes(state, r, nodes)
  PROVE  FilesNext(c, r, nonce, d, from, nodes, n)
<1>1. d \in Seq(Item) /\ \A i \in 1 .. Len(d) : d[i][1] # "config_complete_id"
  BY DEF Stage
<1>2. CASE state = "FILEMANIFEST"
  BY <1>1, <1>2 DEF Stage, FilesNext
<1>3. CASE state = "OTHER_NODEINFOS"
  <2>1. c = 0 /\ nonce # SPECIAL_NONCE
    BY <1>3 DEF Stage
  <2>2. PICK infos \in Seq(Item) : d = UpToNode(from, infos) /\ SentNodes(infos, r, nodes, n)
    BY <1>3 DEF Stage
  <2>3. UpToFile(from, infos, 0 - 1) = UpToNode(from, infos)
    BY Parts
  <2>4. r = Len(nodes) /\ 0 <= Files
    BY <1>3, Sizes DEF PastNodes
  <2>5. AllSent(infos, nonce, r, nodes, n)
    BY <2>1, <2>2, <2>4 DEF AllSent
  <2>. QED
    BY <1>1, <2>1, <2>2, <2>3, <2>4, <2>5 DEF FilesNext
<1>. QED
  BY <1>2, <1>3

LEMMA FileStage ==
  ASSUME NEW state \in {"OTHER_NODEINFOS", "FILEMANIFEST"}, NEW c \in Nat, NEW r \in Nat, NEW nonce, NEW d,
         NEW from \in Nat, NEW nodes \in Seq(Nat), NEW n,
         Stage(state, c, r, nonce, d, from, nodes, n),
         PastNodes(state, r, nodes), c < Files
  PROVE  Stage("FILEMANIFEST", c + 1, r, nonce, Append(d, <<"fileInfo", c>>), from, nodes, n)
<1>1. /\ d \in Seq(Item) /\ \A i \in 1 .. Len(d) : d[i][1] # "config_complete_id"
      /\ \E infos \in Seq(Item) : d = UpToFile(from, infos, c - 1) /\ AllSent(infos, nonce, r, nodes, n)
  <2>1. FilesNext(c, r, nonce, d, from, nodes, n)
    BY NodesDone, Zenon
  <2>. QED
    BY <2>1 DEF FilesNext
<1>2. PICK infos \in Seq(Item) : d = UpToFile(from, infos, c - 1) /\ AllSent(infos, nonce, r, nodes, n)
  BY <1>1
<1>3. PICK x \in Item : x = <<"fileInfo", c>> /\ x[1] # "config_complete_id"
  BY ItemFacts DEF ConfigKinds
<1>4. PICK e \in Seq(Item) : e = Append(d, x) /\ \A i \in 1 .. Len(e) : e[i][1] # "config_complete_id"
  BY <1>1, <1>3, Incomplete
<1>5. e = UpToFile(from, infos, c)
  BY <1>2, <1>3, <1>4, Parts
<1>6. (c + 1) - 1 = c /\ c + 1 <= Files
  BY Sizes
<1>. QED
  BY <1>2, <1>3, <1>4, <1>5, <1>6 DEF Stage

LEMMA CompleteStage ==
  ASSUME NEW state \in {"OTHER_NODEINFOS", "FILEMANIFEST"}, NEW c \in Nat, NEW r \in Nat, NEW nonce \in Nat, NEW d,
         NEW from \in Nat, NEW nodes \in Seq(Nat), NEW n, NEW c2, NEW nonce2,
         Stage(state, c, r, nonce, d, from, nodes, n),
         PastNodes(state, r, nodes), c = Files
  PROVE  Stage("PACKETS", c2, r, nonce2, Append(d, <<"config_complete_id", nonce>>), from, nodes, n)
<1>1. /\ d \in Seq(Item)
      /\ \E infos \in Seq(Item) : d = UpToFile(from, infos, c - 1) /\ AllSent(infos, nonce, r, nodes, n)
  <2>1. FilesNext(c, r, nonce, d, from, nodes, n)
    BY NodesDone, Zenon
  <2>. QED
    BY <2>1 DEF FilesNext
<1>2. PICK x \in Item : x = <<"config_complete_id", nonce>>
  BY ItemFacts DEF ConfigKinds
<1>3. PICK e \in Seq(Item) : e = Append(d, x)
  BY <1>1, AppendProperties
<1>4. Finished(nonce, r, e, from, nodes, n)
  BY <1>1, <1>2, <1>3 DEF Finished
<1>. QED
  BY <1>2, <1>3, <1>4 DEF Stage

(* A node that goes takes the next one out of the download's sight. *)
LEMMA NodeGone ==
  ASSUME NEW nodes \in Seq(Nat), NEW moved \in Seq(Nat), Len(moved) = Len(nodes), NEW n, InPlace(nodes, n),
         NEW i \in 2 .. Len(nodes), MovedUp(nodes, i, moved)
  PROVE  /\ InPlace(moved, n + 1)
         /\ \A infos \in Seq(Item), r \in Nat :
              r < Len(nodes) /\ SentNodes(infos, r, nodes, n) => SentNodes(infos, r, moved, n + 1)
<1>1. PICK l \in Nat : l = Len(nodes) /\ i <= l /\ 2 <= i /\ i \in Nat
  OBVIOUS
<1>2. \A j \in 1 .. l : moved[j] = IF j < i THEN nodes[j] ELSE IF j < l THEN nodes[j + 1] ELSE 0
  BY <1>1 DEF MovedUp
<1>3. /\ n \in Nat /\ nodes[1] = 1
      /\ \A j, k \in 1 .. l : j < k => nodes[j] < nodes[k] \/ nodes[k] = 0
  BY <1>1 DEF InPlace
(* each of the nodes is now where it was, or one place before *)
<1>4. \A j \in 1 .. l : moved[j] = 0 \/ (j < i /\ moved[j] = nodes[j])
                        \/ (i <= j /\ j + 1 \in 1 .. l /\ moved[j] = nodes[j + 1])
  <2>. SUFFICES ASSUME NEW j \in 1 .. l
                PROVE  moved[j] = 0 \/ (j < i /\ moved[j] = nodes[j])
                       \/ (i <= j /\ j + 1 \in 1 .. l /\ moved[j] = nodes[j + 1])
    OBVIOUS
  <2>1. moved[j] = IF j < i THEN nodes[j] ELSE IF j < l THEN nodes[j + 1] ELSE 0
    BY <1>2
  <2>2. j < l => j + 1 \in 1 .. l
    OBVIOUS
  <2>. QED
    BY <1>1, <2>1, <2>2
<1>5. InPlace(moved, n + 1)
  <2>1. moved[1] = 1
    <3>1. 1 \in 1 .. l /\ 1 < i
      BY <1>1
    <3>. QED
      BY <1>2, <1>3, <3>1
  <2>2. ASSUME NEW j \in 1 .. l, NEW k \in 1 .. l, j < k
        PROVE  moved[j] < moved[k] \/ moved[k] = 0
    <3>1. CASE moved[k] = nodes[k] /\ k < i
      <4>1. j < i
        BY <1>1, <2>2, <3>1
      <4>2. moved[j] = nodes[j]
        BY <1>2, <4>1
      <4>. QED
        BY <1>3, <2>2, <3>1, <4>2
    <3>2. CASE k + 1 \in 1 .. l /\ moved[k] = nodes[k + 1]
      <4>1. CASE j < i
        <5>1. moved[j] = nodes[j] /\ j < k + 1
          BY <1>2, <2>2, <4>1
        <5>. QED
          BY <1>3, <3>2, <5>1
      <4>2. CASE ~ j < i
        <5>1. j < l /\ j + 1 \in 1 .. l /\ j + 1 < k + 1
          BY <2>2, <3>2
        <5>2. moved[j] = nodes[j + 1]
          BY <1>2, <4>2, <5>1
        <5>. QED
          BY <1>3, <3>2, <5>1, <5>2
      <4>. QED
        BY <4>1, <4>2
    <3>. QED
      BY <1>4, <3>1, <3>2
  <2>3. n + 1 \in Nat
    BY <1>3
  <2>. QED
    BY <1>1, <2>1, <2>2, <2>3 DEF InPlace
<1>6. ASSUME NEW infos \in Seq(Item), NEW r \in Nat, r < l, SentNodes(infos, r, nodes, n)
      PROVE  SentNodes(infos, r, moved, n + 1)
  <2>1. /\ Ordered(infos)
        /\ \A k \in 1 .. Len(infos), j \in 1 .. l : j > r => infos[k][2] < nodes[j] \/ nodes[j] = 0
        /\ IsFiniteSet(Missed(infos, r, nodes)) /\ Cardinality(Missed(infos, r, nodes)) <= n
    BY <1>1, <1>6 DEF SentNodes
  <2>2. ASSUME NEW k \in 1 .. Len(infos), NEW j \in 1 .. l, j > r
        PROVE  infos[k][2] < moved[j] \/ moved[j] = 0
    <3>1. j + 1 > r
      BY <2>2
    <3>. QED
      BY <1>4, <2>1, <2>2, <3>1
  <2>3. PICK next : next = nodes[r + 1]
    OBVIOUS
  <2>4. Missed(infos, r, moved) \subseteq Missed(infos, r, nodes) \cup {next}
    <3>. SUFFICES ASSUME NEW v \in Missed(infos, r, moved)
                  PROVE  v \in Missed(infos, r, nodes) \/ v = next
      OBVIOUS
    <3>1. PICK j \in 1 .. r : v = moved[j]
      BY DEF Missed
    <3>2. v \notin {0, 1} /\ v \notin {infos[k][2] : k \in 1 .. Len(infos)}
      BY DEF Missed
    <3>3. j \in 1 .. l
      BY <1>6
    <3>4. (j < i /\ v = nodes[j]) \/ v = nodes[j + 1]
      BY <1>4, <3>1, <3>2, <3>3
    <3>5. v = nodes[j] \/ v = nodes[j + 1]
      BY <3>4
    <3>6. j + 1 \in 1 .. r \/ j + 1 = r + 1
      OBVIOUS
    <3>7. (\E k \in 1 .. r : v = nodes[k]) \/ v = next
      BY <2>3, <3>5, <3>6
    <3>. QED
      BY <3>2, <3>7 DEF Missed
  <2>5. IsFiniteSet(Missed(infos, r, moved)) /\ Cardinality(Missed(infos, r, moved)) <= n + 1
    <3>1. PICK old : old = Missed(infos, r, nodes) /\ IsFiniteSet(old) /\ Cardinality(old) <= n
      BY <2>1
    <3>2. PICK new : new = Missed(infos, r, moved) /\ new \subseteq old \cup {next}
      BY <2>4, <3>1
    <3>3. /\ IsFiniteSet(old \cup {next})
          /\ Cardinality(old \cup {next}) = IF next \in old THEN Cardinality(old) ELSE Cardinality(old) + 1
      BY <3>1, FS_AddElement
    <3>4. IsFiniteSet(new) /\ Cardinality(new) <= Cardinality(old \cup {next})
      BY <3>2, <3>3, FS_Subset
    <3>5. PICK a, b, m \in Nat : a = Cardinality(new) /\ b = Cardinality(old) /\ m = Cardinality(old \cup {next})
      BY <3>1, <3>3, <3>4, FS_CardinalityType
    <3>6. a <= m /\ (m = b \/ m = b + 1) /\ b <= n
      BY <3>1, <3>3, <3>4, <3>5
    <3>7. a <= n + 1
      BY <1>3, <3>6
    <3>. QED
      BY <3>2, <3>4, <3>5, <3>7
  <2>. QED
    BY <1>1, <2>1, <2>2, <2>5 DEF SentNodes
<1>. QED
  BY <1>1, <1>5, <1>6
(* Now the steps.  A link that goes leaves nothing of the download. *)
LEMMA AllInPlace == InPlace(AllNodes, 0)
<1>1. PICK m \in Nat \ {0} : m = MAX_NUM_NODES
  BY Sizes
<1>2. Len(AllNodes) = m /\ \A i \in 1 .. m : AllNodes[i] = i
  BY <1>1, AllNodesFacts DEF AllNodes
<1>3. AllNodes[1] = 1
  BY <1>1, <1>2
<1>. QED
  BY <1>2, <1>3 DEF InPlace

LEMMA GoneDownload == ASSUME LinkGone PROVE DownloadInv'
  BY AllInPlace DEF LinkGone, Forget, DownloadInv

DownloadKept == UNCHANGED <<download, skipped, meshNodes, evictions, link, repeated>>

LEMMA DownloadUnchanged ==
  ASSUME DownloadInv, DownloadKept, api'.state = api.state, api'.config_state = api.config_state,
         api'.readIndex = api.readIndex, api'.config_nonce = api.config_nonce
  PROVE  DownloadInv'
  BY DEF DownloadInv, DownloadKept, StageOK

(* Without a link nothing has been read, and a session may close. *)
LEMMA DownloadClosed ==
  ASSUME DownloadInv, DownloadKept, ~ link
  PROVE  DownloadInv'
  BY DEF DownloadInv, DownloadKept

LEMMA EmptyStage ==
  ASSUME NEW state \in {"NOTHING", "PACKETS"}, NEW c, NEW r, NEW nonce, NEW from, NEW nodes, NEW n
  PROVE  Stage(state, c, r, nonce, <<>>, from, nodes, n)
<1>1. <<>> \in Seq(Item) /\ \A i \in 1 .. Len(<<>>) : FALSE
  BY EmptySeq
<1>. QED
  BY <1>1 DEF Stage

LEMMA DownloadSends ==
  ASSUME DownloadInv, NEW state, NEW kind \in ConfigKinds, NEW y, NEW next,
         Step(state, <<kind, y>>, next), next.state # "NOTHING",
         ~ repeated => Stage(next.state, next.config_state, next.readIndex, next.config_nonce,
                             Append(download, <<kind, y>>), skipped, meshNodes, evictions)
  PROVE  DownloadInv'
<1>1. PICK x : x = <<kind, y>> /\ x[1] \in ConfigKinds
  OBVIOUS
<1>2. GetFromRadio(state, x) /\ api' = next
  BY <1>1 DEF Step
<1>3. CASE Receive(x)
  <2>1. download' = Append(download, <<kind, y>>) /\ UNCHANGED <<link, repeated, meshNodes, evictions, skipped>> /\ link
    BY <1>1, <1>2, <1>3 DEF Receive, GetFromRadio, nodeDB
  <2>. QED
    BY <1>2, <2>1 DEF DownloadInv, StageOK
<1>4. CASE LinkGone
  BY <1>4, GoneDownload
<1>. QED
  BY <1>2, <1>3, <1>4 DEF GetFromRadio

(* What the session and the download are, for the lemmas on the states. *)
LEMMA DownloadNow ==
  ASSUME ApiOK, LinkOK, DownloadInv
  PROVE  /\ api \in Session /\ api.config_state \in Nat /\ api.readIndex \in Nat /\ api.config_nonce \in Nat
         /\ api.readIndex <= Len(meshNodes)
         /\ skipped \in Nat /\ meshNodes \in Seq(Nat) /\ evictions \in Nat
         /\ InPlace(meshNodes, evictions)
<1>1. api \in Session /\ api.config_state \in Nat /\ api.readIndex \in 0 .. MAX_NUM_NODES /\ api.config_nonce \in Nat
  <2>1. api \in Session /\ Nonces \subseteq Nat
    BY Sizes DEF ApiOK
  <2>2. api.config_state \in Nat /\ api.readIndex \in 0 .. MAX_NUM_NODES /\ api.config_nonce \in Nonces \cup {0}
    BY <2>1 DEF Session
  <2>3. PICK nonce \in Nonces \cup {0} : nonce = api.config_nonce
    BY <2>2
  <2>4. nonce \in Nat
    BY <2>1
  <2>. QED
    BY <2>1, <2>2, <2>3, <2>4
<1>2. skipped \in Nat /\ meshNodes \in Seq(Nat) /\ Len(meshNodes) = MAX_NUM_NODES
  BY DEF LinkOK
<1>3. InPlace(meshNodes, evictions) /\ evictions \in Nat
  BY DEF DownloadInv, InPlace
<1>4. api.readIndex \in Nat /\ api.readIndex <= MAX_NUM_NODES
  BY <1>1, Sizes
<1>. QED
  BY <1>1, <1>2, <1>3, <1>4

LEMMA DownloadStep ==
  ASSUME ApiOK, LinkOK, DownloadInv,
         \/ SendMyInfo \/ SendOwnNodeInfo \/ SendMetadata \/ SendChannel \/ SendConfig
         \/ SendModuleConfig \/ SendNodeInfo \/ SendFileInfo \/ SendConfigComplete
  PROVE  DownloadInv'
<1>1. /\ api \in Session /\ api.config_state \in Nat /\ api.readIndex \in Nat /\ api.config_nonce \in Nat
      /\ api.readIndex <= Len(meshNodes)
      /\ skipped \in Nat /\ meshNodes \in Seq(Nat) /\ InPlace(meshNodes, evictions)
  BY DownloadNow
<1>2. PICK c, r, nonce, from \in Nat, nodes \in Seq(Nat), d \in {download}, n \in {evictions} :
        /\ c = api.config_state /\ r = api.readIndex /\ nonce = api.config_nonce /\ from = skipped
        /\ nodes = meshNodes
  BY <1>1
<1>3. ASSUME ~ repeated, link
      PROVE  Stage(api.state, c, r, nonce, d, from, nodes, n)
  BY <1>2, <1>3 DEF DownloadInv, StageOK
<1>4. \A state, x, next : Step(state, x, next) => link /\ api.state = state
  BY DEF Step, GetFromRadio
<1>5. /\ "my_info" \in ConfigKinds /\ "own_node" \in ConfigKinds /\ "metadata" \in ConfigKinds
      /\ "channel" \in ConfigKinds /\ "config" \in ConfigKinds /\ "moduleConfig" \in ConfigKinds
      /\ "node_info" \in ConfigKinds /\ "fileInfo" \in ConfigKinds /\ "config_complete_id" \in ConfigKinds
  BY DEF ConfigKinds
<1>6. CASE SendMyInfo
  <2>1. PICK next : /\ next = [api EXCEPT !.state = "OWN_NODEINFO"]
                    /\ next.state = "OWN_NODEINFO" /\ next.config_state = c /\ next.readIndex = r
                    /\ next.config_nonce = nonce
    <3>1. PICK next : next = [api EXCEPT !.state = "OWN_NODEINFO"]
      OBVIOUS
    <3>2. /\ next.state = "OWN_NODEINFO" /\ next.config_state = c /\ next.readIndex = r
          /\ next.config_nonce = nonce
      BY <1>1, <1>2, <3>1 DEF Session
    <3>. QED
      BY <3>1, <3>2
  <2>2. Step("MY_INFO", <<"my_info", 0>>, next)
    BY <1>6, <2>1 DEF SendMyInfo
  <2>3. ~ repeated => Stage("OWN_NODEINFO", c, r, nonce, Append(d, <<"my_info", 0>>), from, nodes, n)
    BY <1>3, <1>4, <2>2, MyInfoStage
  <2>. QED
    BY <1>2, <1>5, <2>1, <2>2, <2>3, DownloadSends
<1>7. CASE SendOwnNodeInfo
  <2>0. api.state = "OWN_NODEINFO" /\ link
    BY <1>4, <1>7 DEF SendOwnNodeInfo
  <2>1. r = 0 /\ meshNodes[api.readIndex + 1] = 1
    <3>1. r = 0
      BY <1>2, <2>0 DEF ApiOK
    <3>2. 0 + 1 = 1 /\ meshNodes[1] = 1
      BY <1>1 DEF InPlace
    <3>. QED
      BY <1>2, <3>1, <3>2
  <2>2. PICK next : /\ next = [api EXCEPT !.state = "METADATA", !.readIndex = @ + 1]
                    /\ next.state = "METADATA" /\ next.config_state = c /\ next.readIndex = 1
                    /\ next.config_nonce = nonce
    <3>1. PICK next : next = [api EXCEPT !.state = "METADATA", !.readIndex = @ + 1]
      OBVIOUS
    <3>2. /\ next.state = "METADATA" /\ next.config_state = c /\ next.readIndex = 1
          /\ next.config_nonce = nonce
      <4>1. next.readIndex = 1
        <5>1. next.readIndex = r + 1
          BY <1>1, <1>2, <3>1 DEF Session
        <5>2. r + 1 = 1
          BY <2>1
        <5>. QED
          BY <5>1, <5>2
      <4>2. next.state = "METADATA" /\ next.config_state = c /\ next.config_nonce = nonce
        BY <1>1, <1>2, <3>1 DEF Session
      <4>. QED
        BY <4>1, <4>2
    <3>. QED
      BY <3>1, <3>2
  <2>3. Step("OWN_NODEINFO", <<"own_node", 1>>, next)
    BY <1>7, <2>1, <2>2 DEF SendOwnNodeInfo
  <2>4. ~ repeated => Stage("METADATA", c, 1, nonce, Append(d, <<"own_node", 1>>), from, nodes, n)
    BY <1>3, <2>0, <2>1, OwnNodeStage
  <2>. QED
    BY <1>2, <1>5, <2>2, <2>3, <2>4, DownloadSends
<1>8. CASE SendMetadata
  <2>1. PICK next : /\ next = [api EXCEPT !.state = "CHANNELS"]
                    /\ next.state = "CHANNELS" /\ next.config_state = c /\ next.readIndex = r
                    /\ next.config_nonce = nonce
    <3>1. PICK next : next = [api EXCEPT !.state = "CHANNELS"]
      OBVIOUS
    <3>2. /\ next.state = "CHANNELS" /\ next.config_state = c /\ next.readIndex = r
          /\ next.config_nonce = nonce
      BY <1>1, <1>2, <3>1 DEF Session
    <3>. QED
      BY <3>1, <3>2
  <2>2. Step("METADATA", <<"metadata", 0>>, next)
    BY <1>8, <2>1 DEF SendMetadata
  <2>3. ~ repeated => Stage("CHANNELS", c, r, nonce, Append(d, <<"metadata", 0>>), from, nodes, n)
    BY <1>3, <1>4, <2>2, MetadataStage
  <2>. QED
    BY <1>2, <1>5, <2>1, <2>2, <2>3, DownloadSends
<1>9. ASSUME NEW kind \in ConfigKinds, NEW state \in States \ {"NOTHING"},
             NEW last \in BOOLEAN, NEW then \in States \ {"NOTHING"}, NEW start \in Nat,
             Step(state, <<kind, api.config_state>>, Advance(last, then, start)),
             ~ repeated => IF last THEN Stage(then, start, r, nonce, Append(d, <<kind, c>>), from, nodes, n)
                           ELSE Stage(state, c + 1, r, nonce, Append(d, <<kind, c>>), from, nodes, n)
      PROVE  DownloadInv'
  <2>1. api.state = state
    BY <1>4, <1>9
  <2>2. PICK next : next = Advance(last, then, start)
    OBVIOUS
  <2>3. /\ next.state = (IF last THEN then ELSE state) /\ next.config_state = (IF last THEN start ELSE c + 1)
        /\ next.readIndex = r /\ next.config_nonce = nonce
    <3>1. CASE last
      BY <1>1, <1>2, <2>1, <2>2, <3>1 DEF Advance, Session
    <3>2. CASE ~ last
      BY <1>1, <1>2, <2>1, <2>2, <3>2 DEF Advance, Session
    <3>. QED
      BY <3>1, <3>2
  <2>4. ~ repeated => Stage(next.state, next.config_state, next.readIndex, next.config_nonce,
                            Append(download, <<kind, c>>), skipped, meshNodes, evictions)
    BY <1>2, <1>9, <2>3
  <2>5. Step(state, <<kind, c>>, next) /\ next.state # "NOTHING"
    BY <1>2, <1>9, <2>2, <2>3
  <2>. QED
    BY <2>4, <2>5, DownloadSends
<1>10. CASE SendChannel
  <2>1. PICK last \in BOOLEAN : last = (c + 1 >= MAX_NUM_CHANNELS)
    <3>1. (c + 1 >= MAX_NUM_CHANNELS) \in BOOLEAN
      OBVIOUS
    <3>. QED
      BY <3>1, Zenon
  <2>2. Step("CHANNELS", <<"channel", api.config_state>>, Advance(last, "CONFIG", 1))
    BY <1>2, <1>10, <2>1 DEF SendChannel
  <2>3. ~ repeated => IF last THEN Stage("CONFIG", 1, r, nonce, Append(d, <<"channel", c>>), from, nodes, n)
                      ELSE Stage("CHANNELS", c + 1, r, nonce, Append(d, <<"channel", c>>), from, nodes, n)
    BY <1>3, <1>4, <2>1, <2>2, ChannelStage
  <2>4. {"CHANNELS", "CONFIG"} \subseteq States \ {"NOTHING"} /\ 1 \in Nat
    BY DEF States
  <2>. QED
    BY <1>5, <1>9, <2>2, <2>3, <2>4
<1>11. CASE SendConfig
  <2>1. PICK last \in BOOLEAN : last = (c >= Configs)
    <3>1. (c >= Configs) \in BOOLEAN
      OBVIOUS
    <3>. QED
      BY <3>1, Zenon
  <2>2. Step("CONFIG", <<"config", api.config_state>>, Advance(last, "MODULECONFIG", 1))
    BY <1>2, <1>11, <2>1 DEF SendConfig
  <2>3. ~ repeated => IF last THEN Stage("MODULECONFIG", 1, r, nonce, Append(d, <<"config", c>>), from, nodes, n)
                      ELSE Stage("CONFIG", c + 1, r, nonce, Append(d, <<"config", c>>), from, nodes, n)
    BY <1>3, <1>4, <2>1, <2>2, ConfigStage
  <2>4. {"MODULECONFIG", "CONFIG"} \subseteq States \ {"NOTHING"} /\ 1 \in Nat
    BY DEF States
  <2>. QED
    BY <1>5, <1>9, <2>2, <2>3, <2>4
<1>12. CASE SendModuleConfig
  <2>1. PICK last \in BOOLEAN : last = (c >= ModuleConfigs)
    <3>1. (c >= ModuleConfigs) \in BOOLEAN
      OBVIOUS
    <3>. QED
      BY <3>1, Zenon
  <2>2. PICK then \in States \ {"NOTHING"} :
          then = IF nonce = SPECIAL_NONCE THEN "FILEMANIFEST" ELSE "OTHER_NODEINFOS"
    BY DEF States
  <2>3. Step("MODULECONFIG", <<"moduleConfig", api.config_state>>, Advance(last, then, 0))
    BY <1>2, <1>12, <2>1, <2>2 DEF SendModuleConfig
  <2>4. ~ repeated => IF last THEN Stage(then, 0, r, nonce, Append(d, <<"moduleConfig", c>>), from, nodes, n)
                      ELSE Stage("MODULECONFIG", c + 1, r, nonce, Append(d, <<"moduleConfig", c>>), from, nodes, n)
    <3>1. InPlace(nodes, n)
      BY <1>1, <1>2
    <3>. QED
      BY <1>3, <1>4, <2>1, <2>2, <2>3, <3>1, ModuleConfigStage
  <2>5. "MODULECONFIG" \in States \ {"NOTHING"} /\ 0 \in Nat
    BY DEF States
  <2>. QED
    BY <1>5, <1>9, <2>3, <2>4, <2>5
<1>13. CASE SendNodeInfo
  <2>1. PICK next : /\ next = [api EXCEPT !.readIndex = @ + 1]
                    /\ next.state = api.state /\ next.config_state = c /\ next.readIndex = r + 1
                    /\ next.config_nonce = nonce
    <3>1. PICK next : next = [api EXCEPT !.readIndex = @ + 1]
      OBVIOUS
    <3>2. /\ next.state = api.state /\ next.config_state = c /\ next.readIndex = r + 1
          /\ next.config_nonce = nonce
      BY <1>1, <1>2, <3>1 DEF Session
    <3>. QED
      BY <3>1, <3>2
  <2>2. Step("OTHER_NODEINFOS", <<"node_info", nodes[r + 1]>>, next) /\ r < Len(nodes)
    BY <1>2, <1>13, <2>1 DEF SendNodeInfo
  <2>3. ~ repeated => Stage("OTHER_NODEINFOS", c, r + 1, nonce, Append(d, <<"node_info", nodes[r + 1]>>), from, nodes, n)
    <3>1. InPlace(nodes, n)
      BY <1>1, <1>2
    <3>. QED
      BY <1>3, <1>4, <2>2, <3>1, NodeInfoStage
  <2>4. next.state = "OTHER_NODEINFOS"
    BY <1>4, <2>1, <2>2
  <2>. QED
    BY <1>2, <1>5, <2>1, <2>2, <2>3, <2>4, DownloadSends
<1>14. ASSUME SendFileInfo \/ SendConfigComplete
       PROVE  /\ api.state \in {"OTHER_NODEINFOS", "FILEMANIFEST"} /\ PastNodes(api.state, r, nodes)
  BY <1>1, <1>2, <1>14 DEF SendFileInfo, SendConfigComplete, NoMoreNodes, PastNodes
<1>15. CASE SendFileInfo
  <2>1. PICK state \in {"OTHER_NODEINFOS", "FILEMANIFEST"} : state = api.state /\ PastNodes(state, r, nodes)
    BY <1>14, <1>15
  <2>2. PICK next : /\ next = [api EXCEPT !.state = "FILEMANIFEST", !.config_state = @ + 1]
                    /\ next.state = "FILEMANIFEST" /\ next.config_state = c + 1 /\ next.readIndex = r
                    /\ next.config_nonce = nonce
    <3>1. PICK next : next = [api EXCEPT !.state = "FILEMANIFEST", !.config_state = @ + 1]
      OBVIOUS
    <3>2. /\ next.state = "FILEMANIFEST" /\ next.config_state = c + 1 /\ next.readIndex = r
          /\ next.config_nonce = nonce
      BY <1>1, <1>2, <3>1 DEF Session
    <3>. QED
      BY <3>1, <3>2
  <2>3. Step(state, <<"fileInfo", c>>, next) /\ c < Files
    BY <1>2, <1>15, <2>1, <2>2 DEF SendFileInfo
  <2>4. ~ repeated => Stage("FILEMANIFEST", c + 1, r, nonce, Append(d, <<"fileInfo", c>>), from, nodes, n)
    <3>1. ~ repeated => Stage(state, c, r, nonce, d, from, nodes, n)
      BY <1>3, <1>4, <2>1, <2>3
    <3>. QED
      BY <2>1, <2>3, <3>1, FileStage
  <2>. QED
    BY <1>2, <1>5, <2>2, <2>3, <2>4, DownloadSends
<1>16. CASE SendConfigComplete
  <2>1. PICK state \in {"OTHER_NODEINFOS", "FILEMANIFEST"} : state = api.state /\ PastNodes(state, r, nodes)
    BY <1>14, <1>16
  <2>2. PICK next : /\ next = [api EXCEPT !.state = "PACKETS", !.config_state = 0, !.config_nonce = 0]
                    /\ next.state = "PACKETS" /\ next.config_state = 0 /\ next.readIndex = r
                    /\ next.config_nonce = 0
    <3>1. PICK next : next = [api EXCEPT !.state = "PACKETS", !.config_state = 0, !.config_nonce = 0]
      OBVIOUS
    <3>2. /\ next.state = "PACKETS" /\ next.config_state = 0 /\ next.readIndex = r
          /\ next.config_nonce = 0
      BY <1>1, <1>2, <3>1 DEF Session
    <3>. QED
      BY <3>1, <3>2
  <2>3. Step(state, <<"config_complete_id", nonce>>, next) /\ c = Files
    BY <1>2, <1>16, <2>1, <2>2 DEF SendConfigComplete
  <2>4. ~ repeated => Stage("PACKETS", 0, r, 0, Append(d, <<"config_complete_id", nonce>>), from, nodes, n)
    <3>1. ~ repeated => Stage(state, c, r, nonce, d, from, nodes, n)
      BY <1>3, <1>4, <2>1, <2>3
    <3>. QED
      BY <2>1, <2>3, <3>1, CompleteStage
  <2>. QED
    BY <1>2, <1>5, <2>2, <2>3, <2>4, DownloadSends
<1>. QED
  BY <1>6, <1>7, <1>8, <1>10, <1>11, <1>12, <1>13, <1>15, <1>16

LEMMA DownloadEvict ==
  ASSUME ApiOK, LinkOK, DownloadInv, NEW i \in 2 .. MAX_NUM_NODES, Evict(i)
  PROVE  DownloadInv'
<1>1. /\ api.readIndex \in Nat /\ skipped \in Nat /\ meshNodes \in Seq(Nat) /\ evictions \in Nat
      /\ InPlace(meshNodes, evictions)
  BY DownloadNow
<1>2. /\ meshNodes' \in Seq(Nat) /\ Len(meshNodes') = Len(meshNodes) /\ MovedUp(meshNodes, i, meshNodes')
      /\ i \in 2 .. Len(meshNodes)
  BY EvictFacts DEF LinkOK
<1>3. /\ evictions' = evictions + 1 /\ api.readIndex < Len(meshNodes)
      /\ UNCHANGED <<api, link, repeated, download, skipped>>
  BY DEF Evict, session, phone, history
<1>4. PICK nodes, moved \in Seq(Nat) : nodes = meshNodes /\ moved = meshNodes' /\ Len(moved) = Len(nodes)
  BY <1>1, <1>2
<1>5. PICK r, n \in Nat : r = api.readIndex /\ n = evictions /\ r < Len(nodes)
  BY <1>1, <1>3, <1>4
<1>6. /\ InPlace(moved, n + 1)
      /\ \A infos \in Seq(Item) : SentNodes(infos, r, nodes, n) => SentNodes(infos, r, moved, n + 1)
  <2>1. i \in 2 .. Len(nodes) /\ MovedUp(nodes, i, moved) /\ InPlace(nodes, n)
    BY <1>1, <1>2, <1>4, <1>5
  <2>. QED
    BY <1>4, <1>5, <2>1, NodeGone
<1>7. \A infos \in Seq(Item) : \A nonce :
        AllSent(infos, nonce, r, nodes, n) => AllSent(infos, nonce, r, moved, n + 1)
  <2>1. r # Len(nodes)
    BY <1>5
  <2>. QED
    BY <2>1 DEF AllSent
<1>8. ASSUME NEW state, NEW c, NEW nonce, NEW d, NEW from, Stage(state, c, r, nonce, d, from, nodes, n)
      PROVE  Stage(state, c, r, nonce, d, from, moved, n + 1)
  <2>1. state = "OTHER_NODEINFOS" => \E infos \in Seq(Item) : d = UpToNode(from, infos) /\ SentNodes(infos, r, moved, n + 1)
    BY <1>6, <1>8 DEF Stage
  <2>2. state = "FILEMANIFEST" => \E infos \in Seq(Item) :
          d = UpToFile(from, infos, c - 1) /\ AllSent(infos, nonce, r, moved, n + 1)
    BY <1>7, <1>8 DEF Stage
  <2>3. state = "PACKETS" => d = <<>> \/ \E done \in Nat : Finished(done, r, d, from, moved, n + 1)
    <3>1. \A done : Finished(done, r, d, from, nodes, n) => Finished(done, r, d, from, moved, n + 1)
      BY <1>7 DEF Finished
    <3>. QED
      BY <1>8, <3>1 DEF Stage
  <2>. QED
    BY <1>8, <2>1, <2>2, <2>3 DEF Stage
<1>9. link /\ ~ repeated => Stage(api.state, api.config_state, r, api.config_nonce, download, skipped, nodes, n)
  BY <1>4, <1>5 DEF DownloadInv, StageOK
<1>10. link /\ ~ repeated => Stage(api.state, api.config_state, r, api.config_nonce, download, skipped, moved, n + 1)
  BY <1>8, <1>9
<1>11. link' /\ ~ repeated' => StageOK'
  BY <1>3, <1>4, <1>5, <1>10 DEF StageOK
<1>12. InPlace(meshNodes', evictions')
  BY <1>3, <1>4, <1>5, <1>6
<1>. QED
  BY <1>3, <1>11, <1>12 DEF DownloadInv

LEMMA DownloadAsked ==
  ASSUME ApiOK, LinkOK, DownloadInv, NEW nonce \in Nonces, WantConfig(nonce)
  PROVE  DownloadInv'
<1>1. PICK restarted : /\ restarted = [api EXCEPT !.state = "MY_INFO", !.readIndex = 0, !.config_nonce = nonce]
                       /\ restarted.state = "MY_INFO" /\ restarted.config_state = api.config_state
  <2>1. PICK restarted : restarted = [api EXCEPT !.state = "MY_INFO", !.readIndex = 0, !.config_nonce = nonce]
    OBVIOUS
  <2>2. restarted.state = "MY_INFO" /\ restarted.config_state = api.config_state
    BY <2>1, DownloadNow DEF Session
  <2>. QED
    BY <2>1, <2>2
<1>2. Ask(nonce, restarted)
  BY <1>1 DEF WantConfig
<1>3. /\ link' = link /\ link /\ download' = <<>> /\ skipped' = api.config_state
      /\ meshNodes' = AllNodes /\ evictions' = 0 /\ (~ repeated' => api' = restarted)
  BY <1>2 DEF Ask, Write
<1>4. \A r, m, nodes, n, c : Stage("MY_INFO", c, r, m, <<>>, c, nodes, n)
  <2>1. <<>> \in Seq(Item) /\ \A i \in 1 .. Len(<<>>) : FALSE
    BY EmptySeq
  <2>. QED
    BY <2>1 DEF Stage
<1>5. ASSUME ~ repeated'
      PROVE  StageOK'
  <2>1. api'.state = "MY_INFO" /\ api'.config_state = skipped' /\ download' = <<>>
    BY <1>1, <1>3, <1>5
  <2>2. Stage("MY_INFO", skipped', api'.readIndex, api'.config_nonce, <<>>, skipped', meshNodes', evictions')
    BY <1>4
  <2>. QED
    BY <2>1, <2>2 DEF StageOK
<1>. QED
  BY <1>3, <1>5, AllInPlace DEF DownloadInv

(* Packets, statuses and notifications are no part of a download. *)
LEMMA PacketsRead ==
  ASSUME ApiOK, DownloadInv, NEW x, x[1] \notin ConfigKinds, GetFromRadio("PACKETS", x),
         api'.state = api.state, api'.config_state = api.config_state,
         api'.readIndex = api.readIndex, api'.config_nonce = api.config_nonce
  PROVE  DownloadInv'
<1>1. CASE Receive(x)
  BY <1>1, DownloadUnchanged DEF Receive, DownloadKept, nodeDB
<1>2. CASE LinkGone
  BY <1>2, GoneDownload
<1>. QED
  BY <1>1, <1>2 DEF GetFromRadio

LEMMA DownloadReads ==
  ASSUME ApiOK, LinkOK, DownloadInv, PhoneReads
  PROVE  DownloadInv'
<1>1. api \in Session
  BY DEF ApiOK
<1>2. \A y : /\ <<"queueStatus", y>>[1] \notin ConfigKinds /\ <<"clientNotification", y>>[1] \notin ConfigKinds
             /\ <<"packet", y>>[1] \notin ConfigKinds
  BY DEF ConfigKinds
<1>3. \A y : LET next == [api EXCEPT !.notification = y] IN
        /\ next.state = api.state /\ next.config_state = api.config_state
        /\ next.readIndex = api.readIndex /\ next.config_nonce = api.config_nonce
  BY <1>1 DEF Session
<1>4. CASE SendQueueStatus
  <2>1. PICK x : x[1] \notin ConfigKinds /\ GetFromRadio("PACKETS", x)
    BY <1>2, <1>4 DEF SendQueueStatus
  <2>2. PICK y : api' = [api EXCEPT !.notification = y]
    BY <1>4 DEF SendQueueStatus, FetchNotification
  <2>. QED
    BY <1>3, <2>1, <2>2, PacketsRead
<1>5. CASE SendNotification
  <2>1. PICK x : x[1] \notin ConfigKinds /\ GetFromRadio("PACKETS", x)
    BY <1>2, <1>5 DEF SendNotification
  <2>2. api' = [api EXCEPT !.notification = 0]
    BY <1>5 DEF SendNotification
  <2>. QED
    BY <1>3, <2>1, <2>2, PacketsRead
<1>6. CASE SendPacket
  <2>1. PICK x : x[1] \notin ConfigKinds /\ GetFromRadio("PACKETS", x)
    BY <1>2, <1>6 DEF SendPacket
  <2>2. api' = api
    BY <1>6 DEF SendPacket
  <2>. QED
    BY <2>1, <2>2, PacketsRead
<1>7. CASE NothingToRead
  <2>1. api' = api /\ link' = link /\ api.state \in {"NOTHING", "PACKETS"}
    BY <1>7 DEF NothingToRead, session
  <2>2. CASE Forget
    <3>1. download' = <<>> /\ meshNodes' = AllNodes /\ evictions' = 0
      BY <2>2 DEF Forget
    <3>2. StageOK'
      BY <2>1, <3>1, EmptyStage DEF StageOK
    <3>. QED
      BY <3>1, <3>2, AllInPlace DEF DownloadInv
  <2>3. CASE UNCHANGED <<download, repeated, nodeDB, skipped>>
    BY <2>1, <2>3, DownloadUnchanged DEF DownloadKept, nodeDB
  <2>. QED
    BY <1>7, <2>2, <2>3 DEF NothingToRead
<1>. QED
  BY <1>4, <1>5, <1>6, <1>7, DownloadStep DEF PhoneReads

LEMMA DownloadNext ==
  ASSUME ApiOK, LinkOK, DownloadInv, [Next]_vars
  PROVE  DownloadInv'
<1>1. CASE api' = api /\ DownloadKept
  BY <1>1, DownloadUnchanged
<1>2. CASE \E text \in BOOLEAN : HandleFromRadio(text)
  BY <1>1, <1>2 DEF HandleFromRadio, DownloadKept, session, nodeDB, phone, history
<1>3. CASE LoopNotify
  <2>1. DownloadKept /\ (api' = api \/ ~ link)
    BY <1>3 DEF LoopNotify, DownloadKept, TimedOut, nodeDB, history
  <2>. QED
    BY <1>1, <2>1, DownloadClosed
<1>4. CASE LoopStore \/ TxQueueDrains \/ Notified \/ UNCHANGED vars
  BY <1>1, <1>4 DEF LoopStore, TxQueueDrains, Notified, vars, DownloadKept, session, nodeDB, phone, history
<1>5. CASE \E i \in 2 .. MAX_NUM_NODES : Evict(i)
  BY <1>5, DownloadEvict
<1>6. CASE Connect
  <2>1. /\ ~ link /\ api' = api /\ api.state = "NOTHING"
        /\ UNCHANGED <<download, skipped, meshNodes, evictions, repeated>>
    BY <1>6 DEF Connect, session, nodeDB, history
  <2>2. download = <<>>
    BY <2>1 DEF DownloadInv
  <2>3. StageOK'
    BY <2>1, <2>2, EmptyStage DEF StageOK
  <2>. QED
    BY <2>1, <2>2, <2>3 DEF DownloadInv
<1>7. CASE LinkLost \/ Disconnect
  BY <1>7, GoneDownload DEF LinkLost, Disconnect
<1>8. CASE OnDisconnect
  BY <1>8, DownloadClosed DEF OnDisconnect, DownloadKept, nodeDB, phone, history
<1>9. CASE PhoneWrites
  <2>1. CASE \E nonce \in Nonces : WantConfig(nonce)
    BY <2>1, DownloadAsked
  <2>2. CASE \E id \in 1 .. MaxIds, traceroute \in BOOLEAN : HandleToRadioPacket(id, traceroute)
    BY <1>1, <2>2 DEF HandleToRadioPacket, DownloadKept, nodeDB
  <2>. QED
    BY <1>7, <1>9, <2>1, <2>2 DEF PhoneWrites
<1>10. CASE PhoneReads
  BY <1>10, DownloadReads
<1>. QED
  BY <1>2, <1>3, <1>4, <1>5, <1>6, <1>7, <1>8, <1>9, <1>10 DEF Next

LEMMA DownloadInit == Init => DownloadInv
<1>. SUFFICES ASSUME Init
              PROVE  DownloadInv
  OBVIOUS
<1>1. meshNodes = AllNodes /\ evictions = 0 /\ download = <<>> /\ link = FALSE
  BY DEF Init
<1>. QED
  BY <1>1, AllInPlace DEF DownloadInv

Shifted(sub, s, m, n) == \A i \in 1 .. n - m + 1 : sub[i] = s[m + i - 1]

LEMMA SubSeqAt ==
  ASSUME NEW S, NEW s, NEW m \in Int, NEW n \in Int, \A i \in m .. n : s[i] \in S
  PROVE  Shifted(SubSeq(s, m, n), s, m, n)
  BY SubSeqProperties DEF Shifted

(* What follows a prefix, and what comes before a suffix. *)
LEMMA Middle ==
  ASSUME NEW a \in Seq(Item), NEW b \in Seq(Item), NEW c \in Seq(Item), NEW d, d = (a \o b) \o c
  PROVE  SubSeq(d, Len(a) + 1, Len(d) - Len(c)) = b
<1>1. PICK ab \in Seq(Item) : ab = a \o b
  BY ConcatProperties
<1>2. PICK k, l, m \in Nat : k = Len(a) /\ l = Len(b) /\ m = Len(c)
  OBVIOUS
<1>3. Len(ab) = k + l /\ \A i \in 1 .. k + l : ab[i] = IF i <= k THEN a[i] ELSE b[i - k]
  BY <1>1, <1>2, ConcatProperties
<1>4. d = ab \o c /\ d \in Seq(Item)
  BY <1>1, ConcatProperties
<1>5. Len(d) = k + l + m /\ \A i \in 1 .. k + l : d[i] = ab[i]
  <2>1. Len(d) = Len(ab) + Len(c) /\ \A i \in 1 .. Len(ab) + Len(c) : d[i] = IF i <= Len(ab) THEN ab[i] ELSE c[i - Len(ab)]
    BY <1>4, ConcatProperties
  <2>2. \A i \in 1 .. k + l : i \in 1 .. (k + l) + m /\ i <= k + l
    OBVIOUS
  <2>. QED
    BY <1>2, <1>3, <2>1, <2>2
<1>6. (k + l + m) - m = k + l
  OBVIOUS
<1>7. PICK p, q \in Int : p = k + 1 /\ q = k + l
  OBVIOUS
<1>8. \A i \in p .. q : d[i] \in Item
  <2>1. \A i \in p .. q : i \in 1 .. Len(d)
    BY <1>5, <1>7
  <2>. QED
    BY <1>4, <2>1, ElementOfSeq
<1>9. PICK s : s = SubSeq(d, k + 1, k + l)
  OBVIOUS
<1>10. /\ s \in Seq(Item) /\ Len(s) = IF k + 1 <= k + l THEN (k + l) - (k + 1) + 1 ELSE 0
      /\ \A i \in 1 .. (k + l) - (k + 1) + 1 : s[i] = d[(k + 1) + i - 1]
  <2>1. s = SubSeq(d, p, q)
    BY <1>7, <1>9
  <2>2. /\ s \in Seq(Item) /\ Len(s) = IF p <= q THEN q - p + 1 ELSE 0
        /\ \A i \in 1 .. q - p + 1 : s[i] = d[p + i - 1]
    <3>1. SubSeq(d, p, q) \in Seq(Item)
      BY <1>8, SubSeqProperties, Zenon
    <3>2. Len(SubSeq(d, p, q)) = IF p <= q THEN q - p + 1 ELSE 0
      BY <1>8, SubSeqProperties, Zenon
    <3>3. Shifted(SubSeq(d, p, q), d, p, q)
      BY <1>8, SubSeqAt
    <3>. QED
      BY <2>1, <3>1, <3>2, <3>3 DEF Shifted
  <2>. QED
    BY <1>7, <2>2
<1>11. Len(s) = l
  BY <1>10
<1>12. ASSUME NEW i \in 1 .. l
       PROVE  s[i] = b[i]
  <2>1. /\ i \in 1 .. (k + l) - (k + 1) + 1 /\ (k + 1) + i - 1 = k + i /\ k + i \in 1 .. k + l
        /\ ~ k + i <= k /\ (k + i) - k = i
    OBVIOUS
  <2>. QED
    BY <1>3, <1>5, <1>10, <2>1
<1>13. Len(s) = Len(b) /\ \A i \in 1 .. Len(s) : s[i] = b[i]
  BY <1>2, <1>11, <1>12
<1>14. s = b
  BY <1>10, <1>13, SeqEqual
<1>. QED
  BY <1>2, <1>5, <1>6, <1>9, <1>14

(* A download the phone has finished is whole: everything there is of each  *)
(* kind, once and in order, but for the channels before the counter it left *)
(* behind and at most one node for each that was evicted under way.         *)
THEOREM PhoneDownloadWhole == Spec => []DownloadWhole
<1>1. Inv => ApiOK /\ LinkOK
  BY DEF Inv
<1>2. Spec => []DownloadInv
  <2>1. ApiOK /\ LinkOK /\ DownloadInv /\ [Next]_vars => DownloadInv'
    BY DownloadNext
  <2>. QED
    BY <1>1, <2>1, DownloadInit, SpecInv, PTL DEF Spec
<1>3. ApiOK /\ LinkOK /\ DownloadInv => DownloadWhole
  <2>. SUFFICES ASSUME ApiOK, LinkOK, DownloadInv, Completed, ~ repeated
                PROVE  LET nonce == Last(download)[2]
                           infos == SubSeq(download, Len(BeforeNodes) + 1,
                                           Len(download) - Len(AfterNodes(nonce))) IN
                       /\ download = BeforeNodes \o infos \o AfterNodes(nonce)
                       /\ Ordered(infos)
                       /\ IF nonce = SPECIAL_NONCE THEN infos = <<>>
                          ELSE Cardinality(OtherNodes \ {x[2] : x \in ToSet(infos)}) <= evictions
    BY DEF DownloadWhole
  <2>1. /\ skipped \in Nat /\ meshNodes \in Seq(Nat) /\ download # <<>> /\ link /\ StageOK
    BY DownloadNow DEF DownloadInv, Completed
  <2>2. PICK d \in Seq(Item) : d = download
    BY <2>1 DEF StageOK, Stage
  <2>3. Len(d) \in Nat \ {0} /\ Last(d) = d[Len(d)] /\ Last(d)[1] = "config_complete_id"
    BY <2>1, <2>2, EmptySeq DEF Completed, Last
  <2>4. api.state = "PACKETS"
    <3>1. Len(d) \in 1 .. Len(d)
      BY <2>3
    <3>. QED
      BY <2>1, <2>2, <2>3, <3>1 DEF StageOK, Stage
  <2>5. PICK nonce \in Nat : Finished(nonce, api.readIndex, d, skipped, meshNodes, evictions)
    BY <2>1, <2>2, <2>4 DEF StageOK, Stage
  <2>6. PICK infos \in Seq(Item) :
          /\ d = Append(UpToFile(skipped, infos, Files - 1), <<"config_complete_id", nonce>>)
          /\ AllSent(infos, nonce, api.readIndex, meshNodes, evictions)
    BY <2>5 DEF Finished
  <2>7. PICK x \in Item : x = <<"config_complete_id", nonce>> /\ x[2] = nonce
    <3>1. "config_complete_id" \in ConfigKinds
      BY DEF ConfigKinds
    <3>. QED
      BY <3>1, ItemFacts
  <2>8. PICK before \in Seq(Item) : before = BeforeNodes /\ before = UpToModuleConfig(skipped, ModuleConfigs)
    <3>1. UpToModuleConfig(skipped, ModuleConfigs) \in Seq(Item)
      <4>1. 1 <= ModuleConfigs /\ ModuleConfigs \in Nat
        BY Sizes
      <4>. QED
        BY <2>1, <2>6, <4>1, Parts
    <3>2. BeforeNodes = UpToModuleConfig(skipped, ModuleConfigs)
      BY DEF BeforeNodes, LastChannel, UpToModuleConfig, UpToConfig, UpToChannel, Preamble, LastOf
    <3>. QED
      BY <3>1, <3>2
  <2>9. PICK files \in Seq(Item) : files = Count("fileInfo", 0, Files - 1)
    BY CountMore, Sizes DEF ConfigKinds
  <2>10. PICK after \in Seq(Item) : after = AfterNodes(nonce) /\ after = Append(files, x)
    <3>1. <<x>> \in Seq(Item) /\ Append(files, x) = files \o <<x>> /\ Append(files, x) \in Seq(Item)
      BY AppendIsConcat, AppendProperties
    <3>. QED
      BY <2>7, <2>9, <3>1 DEF AfterNodes
  <2>11. PICK upTo \in Seq(Item) : upTo = before \o infos
    BY ConcatProperties
  <2>12. d = upTo \o after
    <3>1. d = Append(upTo \o files, x)
      BY <2>6, <2>7, <2>8, <2>9, <2>11 DEF UpToFile, UpToNode
    <3>2. Append(upTo \o files, x) = upTo \o Append(files, x)
      BY AppendOfConcat
    <3>. QED
      BY <2>10, <3>1, <3>2
  <2>13. Last(d)[2] = nonce
    <3>1. upTo \o files \in Seq(Item) /\ d = Append(upTo \o files, x)
      BY <2>6, <2>7, <2>8, <2>9, <2>11, ConcatProperties DEF UpToFile, UpToNode
    <3>2. PICK short \in Seq(Item) : short = upTo \o files /\ d = Append(short, x)
      BY <3>1
    <3>3. Len(d) = Len(short) + 1 /\ d[Len(short) + 1] = x
      BY <3>2, AppendProperties
    <3>. QED
      BY <2>3, <2>7, <3>3
  <2>14. SubSeq(d, Len(before) + 1, Len(d) - Len(after)) = infos
    BY <2>11, <2>12, Middle
  <2>15. Ordered(infos)
    <3>1. Ordered(<<>>)
      <4>1. Len(<<>>) = 0 /\ 1 .. 0 = {}
        BY EmptySeq
      <4>. QED
        BY <4>1 DEF Ordered
    <3>. QED
      BY <2>6, <3>1 DEF AllSent, SentNodes
  <2>16. nonce # SPECIAL_NONCE => OtherNodes \ {y[2] : y \in ToSet(infos)} = Missed(infos, api.readIndex, meshNodes)
    <3>1. DOMAIN infos = 1 .. Len(infos) /\ DOMAIN meshNodes = 1 .. Len(meshNodes)
      BY <2>1, LenProperties
    <3>2. {y[2] : y \in ToSet(infos)} = {infos[i][2] : i \in 1 .. Len(infos)}
      BY <3>1, Zenon DEF ToSet
    <3>3. nonce # SPECIAL_NONCE => api.readIndex = Len(meshNodes)
      BY <2>6 DEF AllSent
    <3>4. OtherNodes = {meshNodes[j] : j \in 1 .. Len(meshNodes)} \ {0, 1}
      BY <3>1 DEF OtherNodes, ToSet
    <3>. QED
      BY <3>2, <3>3, <3>4 DEF Missed
  <2>17. IF nonce = SPECIAL_NONCE THEN infos = <<>>
         ELSE Cardinality(OtherNodes \ {y[2] : y \in ToSet(infos)}) <= evictions
    BY <2>6, <2>16 DEF AllSent, SentNodes
  <2>. QED
    BY <2>2, <2>8, <2>10, <2>11, <2>12, <2>13, <2>14, <2>15, <2>17
<1>. QED
  BY <1>1, <1>2, <1>3, SpecInv, PTL
=============================================================================
