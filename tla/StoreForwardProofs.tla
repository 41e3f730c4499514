------------------------ MODULE StoreForwardProofs ------------------------
(***************************************************************************)
(* For any store, any clients and windows, and any number of messages,     *)
(* requests and restarts: what a client is given comes once and in order,  *)
(* and none it was owed is left out.                                       *)
(***************************************************************************)
EXTENDS StoreForward, SequenceTheorems, WellFoundedInduction, TLAPS

Message == [id : Nat, time : Nat, from : Clients \union Others, to : Nodes \union {Broadcast}]

TypesOK ==
  /\ heard \in Seq(Message) /\ lost \in Nat /\ now \in Nat /\ had \in Nat
  /\ packetHistory \in [1..records -> Message \union {Blank}]
  /\ packetHistoryTotalCount \in 0..records
  /\ lastRequest \in [Nodes -> Nat] /\ got \in [Nodes -> Seq(Nat)] /\ busyTo \in Nodes

(* The store holds the messages heard since it was last emptied. *)
StoreOK ==
  /\ packetHistoryTotalCount + lost = Len(heard)
  /\ \A k \in 1..Len(heard) : heard[k].id = k
  /\ \A p \in 1..packetHistoryTotalCount : packetHistory[p] = heard[lost + p]

(* An index stands at the last message its client was given, or at none of *)
(* the store; whatever the client was given came before that place.        *)
IndexOK ==
  \A n \in Nodes :
    /\ lastRequest[n] <= packetHistoryTotalCount
    /\ \A k \in 1..Len(got[n]) : got[n][k] <= lost + lastRequest[n]
    /\ lastRequest[n] > 0 => got[n] # <<>> /\ got[n][Len(got[n])] = lost + lastRequest[n]

(* The client being served got all it asked for up to its index. *)
ServedOK ==
  busy /\ busyTo \in Clients =>
    \A p \in 1..lastRequest[busyTo] :
      /\ MeantFor(heard[lost + p], busyTo) /\ heard[lost + p].time > last_time /\ lost + p > had
      => \E k \in 1..Len(got[busyTo]) : got[busyTo][k] = lost + p

Inv == TypesOK /\ StoreOK /\ IndexOK /\ ServedOK /\ ReplayedOnce

---------------------------------------------------------------------------
LEMMA MinFacts ==
  ASSUME NEW T, T \subseteq Nat, T # {}
  PROVE  Min(T) \in T /\ \A y \in T : Min(T) <= y
<1>1. PICK x \in T : \A y \in T : <<y, x>> \notin OpToRel(<, Nat)
  BY NatLessThanWellFounded, WFMin, Zenon
<1>2. \A y \in Nat, z \in Nat : y < z => <<y, z>> \in OpToRel(<, Nat)
  BY Zenon DEF OpToRel
<1>3. \A y \in T : ~ (y < x)
  BY <1>1, <1>2, Zenon
<1>4. \A y \in T : x <= y
  BY <1>3, SMT
<1>. QED
  BY <1>4, Zenon DEF Min

(* What a client can be given next: the earliest place beyond its index. *)
LEMMA AvailableFacts ==
  ASSUME Inv, NEW dest \in Nodes, NEW since
  PROVE  /\ Available(dest, since) \subseteq Nat
         /\ \A i : i \in Available(dest, since) <=>
              /\ i \in lastRequest[dest] + 1 .. packetHistoryTotalCount
              /\ heard[lost + i].time > since /\ MeantFor(heard[lost + i], dest)
         /\ Available(dest, since) # {} =>
              /\ Min(Available(dest, since)) \in Available(dest, since)
              /\ \A p \in lastRequest[dest] + 1 .. Min(Available(dest, since)) - 1 :
                   ~(heard[lost + p].time > since /\ MeantFor(heard[lost + p], dest))
<1>1. lastRequest[dest] \in Nat /\ packetHistoryTotalCount \in Nat
  BY SMT DEF Inv, TypesOK
<1>2. \A p \in lastRequest[dest] + 1 .. packetHistoryTotalCount : packetHistory[p] = heard[lost + p]
  BY <1>1, SMT DEF Inv, StoreOK
<1>3. \A i : i \in Available(dest, since) <=>
        /\ i \in lastRequest[dest] + 1 .. packetHistoryTotalCount
        /\ heard[lost + i].time > since /\ MeantFor(heard[lost + i], dest)
  BY <1>2, Zenon DEF Available
<1>4. Available(dest, since) \subseteq Nat
  BY <1>1, <1>3, SMT
<1> DEFINE S == Available(dest, since)
<1> HIDE DEF S
<1>5. ASSUME S # {}
      PROVE  /\ Min(S) \in S
             /\ \A p \in lastRequest[dest] + 1 .. Min(S) - 1 :
                  ~(heard[lost + p].time > since /\ MeantFor(heard[lost + p], dest))
  <2>1. Min(S) \in S /\ \A y \in S : Min(S) <= y
    BY <1>4, <1>5, MinFacts DEF S
  <2>2. PICK m \in Nat : m = Min(S) /\ m <= packetHistoryTotalCount
    BY <1>1, <1>3, <1>4, <2>1, SMT DEF S
  <2>3. \A p \in lastRequest[dest] + 1 .. m - 1 : p \notin S /\ p \in lastRequest[dest] + 1 .. packetHistoryTotalCount
    BY <1>1, <2>1, <2>2, SMT
  <2>. QED
    BY <1>3, <2>1, <2>2, <2>3, Zenon DEF S
<1>. QED
  BY <1>3, <1>4, <1>5 DEF S

LEMMA InitInv == Init => Inv
<1> SUFFICES ASSUME Init
             PROVE  Inv
  OBVIOUS
<1>1. <<>> \in Seq(Message) /\ <<>> \in Seq(Nat) /\ Len(<<>>) = 0
  BY EmptySeq
<1>2. Us \in Nodes /\ records \in Nat
  BY StoreForwardAssumption DEF Nodes
<1>3. TypesOK
  BY <1>1, <1>2, SMT DEF Init, TypesOK
<1>4. StoreOK
  BY <1>1, SMT DEF Init, StoreOK
<1>5. IndexOK /\ ReplayedOnce
  BY <1>1, SMT DEF Init, IndexOK, ReplayedOnce
<1>6. ServedOK
  BY DEF Init, ServedOK
<1>. QED
  BY <1>3, <1>4, <1>5, <1>6 DEF Inv

---------------------------------------------------------------------------
(* A message is handed out. *)
LEMMA PayloadKeeps ==
  ASSUME Inv, NEW dest \in Nodes, NEW since, Available(dest, since) # {}, PreparePayload(dest, since),
         UNCHANGED <<store, now, heard, lost, had>>, busyTo' = dest,
         dest \in Clients => busy /\ busyTo = dest /\ since = last_time /\ last_time' = last_time
  PROVE  Inv'
<1> USE DEF Inv
<1>1. PICK i : i = Min(Available(dest, since))
  OBVIOUS
<1>2. /\ i \in lastRequest[dest] + 1 .. packetHistoryTotalCount
      /\ heard[lost + i].time > since /\ MeantFor(heard[lost + i], dest)
      /\ \A p \in lastRequest[dest] + 1 .. i - 1 :
           ~(heard[lost + p].time > since /\ MeantFor(heard[lost + p], dest))
  BY <1>1, AvailableFacts
<1>3. /\ lastRequest \in [Nodes -> Nat] /\ got \in [Nodes -> Seq(Nat)]
      /\ lastRequest[dest] \in Nat /\ got[dest] \in Seq(Nat) /\ Len(got[dest]) \in Nat
      /\ packetHistoryTotalCount \in Nat /\ lost \in Nat /\ Len(heard) \in Nat
  BY LenProperties, SMT DEF TypesOK
<1>4. i \in Nat /\ lost + i \in 1..Len(heard) /\ i <= packetHistoryTotalCount /\ lastRequest[dest] < i
  BY <1>2, <1>3, SMT DEF StoreOK
<1>5. packetHistory[i].id = lost + i
  <2>1. packetHistory[i] = heard[lost + i]
    BY <1>2, <1>3, SMT DEF StoreOK
  <2>. QED
    BY <1>4, <2>1 DEF StoreOK
<1>6. /\ lastRequest' = [lastRequest EXCEPT ![dest] = i]
      /\ got' = [got EXCEPT ![dest] = Append(got[dest], lost + i)]
  BY <1>1, <1>5, Zenon DEF PreparePayload
<1>7. PICK q : q = Append(got[dest], lost + i)
  OBVIOUS
<1>8. /\ q \in Seq(Nat) /\ Len(q) = Len(got[dest]) + 1 /\ q # <<>>
      /\ \A k \in 1..Len(got[dest]) : q[k] = got[dest][k]
      /\ q[Len(q)] = lost + i
  <2>1. lost + i \in Nat
    BY <1>3, <1>4, SMT
  <2>. QED
    BY <1>3, <1>7, <2>1, AppendProperties
<1>9. /\ lastRequest'[dest] = i /\ got'[dest] = q
      /\ \A n \in Nodes : n # dest => lastRequest'[n] = lastRequest[n] /\ got'[n] = got[n]
      /\ lastRequest' \in [Nodes -> Nat] /\ got' \in [Nodes -> Seq(Nat)]
  BY <1>3, <1>4, <1>6, <1>7, <1>8
<1>10. TypesOK' /\ StoreOK'
  BY <1>9 DEF TypesOK, StoreOK, store
<1>11. \A k \in 1..Len(got[dest]) : got[dest][k] <= lost + lastRequest[dest] /\ got[dest][k] \in Nat
  <2>1. \A k \in 1..Len(got[dest]) : got[dest][k] <= lost + lastRequest[dest]
    BY DEF IndexOK
  <2>2. \A k \in 1..Len(got[dest]) : got[dest][k] \in Nat
    BY <1>3, ElementOfSeq
  <2>. QED
    BY <2>1, <2>2
<1>12. \A k \in 1..Len(q) : q[k] <= lost + i
  <2>1. \A k \in 1..Len(q) : k = Len(q) \/ k \in 1..Len(got[dest])
    BY <1>3, <1>8, SMT
  <2>2. \A k \in 1..Len(got[dest]) : q[k] <= lost + i
    BY <1>3, <1>4, <1>8, <1>11, SMT
  <2>3. q[Len(q)] <= lost + i
    BY <1>3, <1>4, <1>8, SMT
  <2>. QED
    BY <2>1, <2>2, <2>3, Zenon
<1>13. IndexOK'
  BY <1>4, <1>8, <1>9, <1>12 DEF IndexOK, store
<1>14. ServedOK'
  <2> SUFFICES ASSUME dest \in Clients, NEW p \in 1..i,
                      MeantFor(heard[lost + p], dest), heard[lost + p].time > last_time, lost + p > had
               PROVE  \E k \in 1..Len(q) : q[k] = lost + p
    BY <1>9 DEF ServedOK
  <2>1. CASE p = i
    BY <1>3, <1>8, <2>1, SMT
  <2>2. CASE p # i
    <3>1. p \in 1..lastRequest[dest]
      <4>1. p \notin lastRequest[dest] + 1 .. i - 1
        BY <1>2, Zenon
      <4>. QED
        BY <1>3, <1>4, <2>2, <4>1, SMT
    <3>2. PICK k \in 1..Len(got[dest]) : got[dest][k] = lost + p
      BY <3>1 DEF ServedOK
    <3>3. k \in 1..Len(q)
      BY <1>3, <1>8, SMT
    <3>. QED
      BY <1>8, <3>2, <3>3
  <2>. QED
    BY <2>1, <2>2
<1>15. ReplayedOnce'
  <2>1. /\ \A k \in 1..Len(got[dest]) : got[dest][k] \in 1..Len(heard) /\ MeantFor(heard[got[dest][k]], dest)
        /\ \A j, k \in 1..Len(got[dest]) : j < k => got[dest][j] < got[dest][k]
    BY DEF ReplayedOnce
  <2>2. ASSUME NEW k \in 1..Len(q)
        PROVE  q[k] \in 1..Len(heard) /\ MeantFor(heard[q[k]], dest)
    <3>1. k = Len(q) \/ k \in 1..Len(got[dest])
      BY <1>3, <1>8, SMT
    <3>. QED
      BY <1>2, <1>4, <1>8, <2>1, <3>1, Zenon
  <2>3. ASSUME NEW j \in 1..Len(q), NEW k \in 1..Len(q), j < k
        PROVE  q[j] < q[k]
    <3>1. j \in 1..Len(got[dest]) /\ (k = Len(q) \/ k \in 1..Len(got[dest]))
      BY <1>3, <1>8, <2>3, SMT
    <3>2. CASE k = Len(q)
      BY <1>3, <1>4, <1>8, <1>11, <3>1, <3>2, SMT
    <3>3. CASE k \in 1..Len(got[dest])
      BY <1>8, <2>1, <2>3, <3>1, <3>3, Zenon
    <3>. QED
      BY <3>1, <3>2, <3>3
  <2>. QED
    BY <1>9, <2>2, <2>3 DEF ReplayedOnce
<1>. QED
  BY <1>10, <1>13, <1>14, <1>15

(* A message passes. *)
LEMMA HearKeeps ==
  ASSUME Inv, NEW from \in Clients \union Others, NEW to \in Nodes \union {Broadcast}, Hear(from, to)
  PROVE  Inv'
<1> USE DEF Inv
<1>1. PICK m : m = [id |-> Len(heard) + 1, time |-> now, from |-> from, to |-> to]
  OBVIOUS
<1>2. /\ HistoryAdd(m) /\ heard' = Append(heard, m)
      /\ UNCHANGED <<service, now, got, had>>
  BY <1>1 DEF Hear
<1>3. /\ heard \in Seq(Message) /\ Len(heard) \in Nat /\ lost \in Nat /\ records \in Nat \ {0}
      /\ packetHistoryTotalCount \in 0..records
      /\ packetHistory \in [1..records -> Message \union {Blank}]
      /\ packetHistoryTotalCount + lost = Len(heard)
  BY LenProperties, StoreForwardAssumption DEF TypesOK, StoreOK
<1>4. m \in Message /\ m.id = Len(heard) + 1
  BY <1>1, <1>3 DEF TypesOK, Message
<1>5. PICK total : total = packetHistoryTotalCount
  OBVIOUS
<1>6. /\ heard' \in Seq(Message) /\ Len(heard') = Len(heard) + 1
      /\ heard'[Len(heard) + 1] = m /\ \A k \in 1..Len(heard) : heard'[k] = heard[k]
  BY <1>2, <1>3, <1>4, AppendProperties
<1>7. \A k \in 1..Len(heard') : heard'[k].id = k
  <2>1. \A k \in 1..Len(heard') : k = Len(heard) + 1 \/ k \in 1..Len(heard)
    BY <1>3, <1>6, SMT
  <2>. QED
    BY <1>4, <1>6, <2>1 DEF StoreOK
<1>8. ReplayedOnce'
  <2>1. \A n \in Nodes : \A k \in 1..Len(got[n]) : got[n][k] \in 1..Len(heard)
    BY DEF ReplayedOnce
  <2>2. 1..Len(heard) \subseteq 1..Len(heard')
    BY <1>3, <1>6, SMT
  <2>. QED
    BY <1>2, <1>6, <2>1, <2>2 DEF ReplayedOnce
<1>9. CASE total = records
  <2>1. /\ packetHistory' = [packetHistory EXCEPT ![1] = m] /\ packetHistoryTotalCount' = 1
        /\ lost' = Len(heard) /\ lastRequest' = [n \in Nodes |-> 0]
    BY <1>2, <1>5, <1>9 DEF HistoryAdd
  <2>2. packetHistory' \in [1..records -> Message \union {Blank}] /\ packetHistory'[1] = m /\ 1 \in 0..records
    BY <1>3, <1>4, <2>1
  <2>3. TypesOK'
    BY <1>2, <1>3, <1>6, <2>1, <2>2 DEF TypesOK, service
  <2>4. StoreOK'
    BY <1>3, <1>6, <1>7, <2>1, <2>2, SMT DEF StoreOK
  <2>5. IndexOK'
    <3>1. ASSUME NEW n \in Nodes, NEW k \in 1..Len(got[n])
          PROVE  got[n][k] <= Len(heard) + 0
      BY <1>3, SMT DEF ReplayedOnce
    <3>. QED
      BY <1>2, <2>1, <3>1, SMT DEF IndexOK
  <2>6. ServedOK'
    <3>1. busyTo' \in Nodes => lastRequest'[busyTo'] = 0
      BY <2>1
    <3>2. busyTo' \in Nodes
      BY <1>2 DEF service, TypesOK
    <3>. QED
      BY <3>1, <3>2, SMT DEF ServedOK
  <2>. QED
    BY <1>8, <2>3, <2>4, <2>5, <2>6
<1>10. CASE total # records
  <2>1. /\ packetHistory' = [packetHistory EXCEPT ![total + 1] = m] /\ packetHistoryTotalCount' = total + 1
        /\ lost' = lost /\ lastRequest' = lastRequest
    BY <1>2, <1>5, <1>10 DEF HistoryAdd
  <2>2. total \in Nat /\ total + 1 \in 1..records /\ total + 1 \in 0..records /\ lost + total = Len(heard)
        /\ lost + (total + 1) = Len(heard) + 1
    BY <1>3, <1>5, <1>10, SMT
  <2>3. /\ packetHistory' \in [1..records -> Message \union {Blank}] /\ packetHistory'[total + 1] = m
        /\ \A p \in 1..total : p \in 1..records /\ packetHistory'[p] = packetHistory[p]
    BY <1>3, <1>4, <2>1, <2>2, SMT
  <2>4. TypesOK'
    BY <1>2, <1>3, <1>6, <2>1, <2>2, <2>3 DEF TypesOK, service
  <2>5. \A p \in 1..total + 1 : packetHistory'[p] = heard'[lost + p]
    <3>1. ASSUME NEW p \in 1..total
          PROVE  packetHistory'[p] = heard'[lost + p]
      <4>1. lost + p \in 1..Len(heard)
        BY <1>3, <2>2, SMT
      <4>. QED
        BY <1>5, <1>6, <2>3, <4>1 DEF StoreOK
    <3>2. packetHistory'[total + 1] = heard'[lost + (total + 1)]
      BY <1>6, <2>2, <2>3
    <3>3. \A p \in 1..total + 1 : p = total + 1 \/ p \in 1..total
      BY <2>2, SMT
    <3>. QED
      BY <3>1, <3>2, <3>3, Zenon
  <2>6. StoreOK'
    BY <1>3, <1>5, <1>6, <1>7, <2>1, <2>2, <2>5, SMT DEF StoreOK
  <2>7. IndexOK'
    <3>1. \A n \in Nodes : lastRequest[n] \in Nat /\ lastRequest[n] <= total
      BY <1>5 DEF IndexOK, TypesOK
    <3>2. \A n \in Nodes : lastRequest[n] <= total + 1
      BY <2>2, <3>1, SMT
    <3>. QED
      BY <1>2, <2>1, <3>2 DEF IndexOK
  <2>8. ServedOK'
    <3>1. busyTo \in Nodes /\ lastRequest[busyTo] \in Nat /\ lastRequest[busyTo] <= total
      BY <1>5 DEF TypesOK, IndexOK
    <3>2. \A p \in 1..lastRequest[busyTo] : lost + p \in 1..Len(heard)
      BY <1>3, <2>2, <3>1, SMT
    <3>3. \A p \in 1..lastRequest[busyTo] : heard'[lost + p] = heard[lost + p]
      BY <1>6, <3>2
    <3>. QED
      BY <1>2, <2>1, <3>3 DEF ServedOK, service
  <2>. QED
    BY <1>8, <2>4, <2>6, <2>7, <2>8
<1>. QED
  BY <1>9, <1>10

(* Whoever asks gets what lies beyond its index. *)
LEMMA HistorySendKeeps ==
  ASSUME Inv, NEW c \in Clients, NEW secAgo, HistorySend(c, secAgo)
  PROVE  Inv' /\ (lastRequest[c] > 0 => had' = lost + lastRequest[c])
<1> USE DEF Inv
<1>1. /\ UNCHANGED <<store, lastRequest, now, heard, lost, got>>
      /\ had' = IF got[c] = <<>> THEN 0 ELSE got[c][Len(got[c])]
      /\ busyTo' \in {c, busyTo} /\ (busy' => busyTo' = c)
  BY DEF HistorySend
<1>2. c \in Nodes /\ got[c] \in Seq(Nat) /\ lastRequest[c] \in Nat /\ lost \in Nat
  BY DEF Nodes, TypesOK
<1>3. lastRequest[c] > 0 => had' = lost + lastRequest[c]
  BY <1>1, <1>2 DEF IndexOK
<1>4. had' \in Nat
  <2>1. got[c] # <<>> => Len(got[c]) \in 1..Len(got[c])
    BY <1>2, EmptySeq, SMT
  <2>. QED
    BY <1>1, <1>2, <2>1, ElementOfSeq
<1>5. TypesOK' /\ StoreOK' /\ IndexOK' /\ ReplayedOnce'
  BY <1>1, <1>2, <1>4 DEF TypesOK, StoreOK, IndexOK, ReplayedOnce, store
<1>6. ServedOK'
  <2>1. ASSUME NEW p \in 1..lastRequest[c]
        PROVE  ~(lost + p > had')
    BY <1>2, <1>3, SMT
  <2>. QED
    BY <1>1, <2>1 DEF ServedOK
<1>. QED
  BY <1>3, <1>5, <1>6

LEMMA RunOnceKeeps ==
  ASSUME Inv, RunOnce
  PROVE  Inv'
<1>1. CASE Available(busyTo, last_time) # {}
  <2>1. busyTo \in Nodes
    BY DEF Inv, TypesOK
  <2>. QED
    BY <1>1, <2>1, PayloadKeeps DEF RunOnce
<1>2. CASE Available(busyTo, last_time) = {}
  BY <1>2 DEF RunOnce, Inv, TypesOK, StoreOK, IndexOK, ServedOK, ReplayedOnce, store
<1>. QED
  BY <1>1, <1>2

LEMMA GetForPhoneKeeps ==
  ASSUME Inv, GetForPhone
  PROVE  Inv'
<1>1. Us \in Nodes /\ Us \notin Clients
  BY StoreForwardAssumption DEF Nodes
<1>2. CASE Available(Us, 0) # {}
  BY <1>1, <1>2, PayloadKeeps DEF GetForPhone
<1>3. CASE Available(Us, 0) = {}
  BY <1>1, <1>3 DEF GetForPhone, Inv, TypesOK, StoreOK, IndexOK, ServedOK, ReplayedOnce, store
<1>. QED
  BY <1>2, <1>3

LEMMA RestartKeeps ==
  ASSUME Inv, Restart
  PROVE  Inv'
<1> USE DEF Inv
<1>1. /\ packetHistory' = [i \in 1..records |-> Blank] /\ packetHistoryTotalCount' = 0
      /\ lastRequest' = [n \in Nodes |-> 0]
      /\ busy' = FALSE /\ busyTo' = Us /\ lost' = Len(heard) /\ UNCHANGED <<now, heard, got, had>>
  BY DEF Restart, Empty
<1>2. Len(heard) \in Nat /\ records \in Nat /\ Us \in Nodes
  BY LenProperties, StoreForwardAssumption DEF TypesOK, Nodes
<1>3. TypesOK' /\ StoreOK'
  BY <1>1, <1>2, SMT DEF TypesOK, StoreOK
<1>4. IndexOK'
  <2>1. ASSUME NEW n \in Nodes, NEW k \in 1..Len(got[n])
        PROVE  got[n][k] <= Len(heard) + 0
    BY <1>2, SMT DEF ReplayedOnce
  <2>. QED
    BY <1>1, <2>1, SMT DEF IndexOK
<1>5. ServedOK' /\ ReplayedOnce'
  BY <1>1 DEF ServedOK, ReplayedOnce
<1>. QED
  BY <1>3, <1>4, <1>5

LEMMA TickKeeps ==
  ASSUME Inv, Tick
  PROVE  Inv'
<1>1. now' \in Nat
  BY SMT DEF Tick, Inv, TypesOK
<1>. QED
  BY <1>1 DEF Tick, Inv, TypesOK, StoreOK, IndexOK, ServedOK, ReplayedOnce, store, service

LEMMA NextInv == Inv /\ [Next]_vars => Inv'
<1> SUFFICES ASSUME Inv, [Next]_vars
             PROVE  Inv'
  OBVIOUS
<1>1. ASSUME NEW c \in Clients, Abort(c)
      PROVE  Inv'
  BY <1>1 DEF Abort, Inv, TypesOK, StoreOK, IndexOK, ServedOK, ReplayedOnce, store
<1>2. CASE UNCHANGED vars
  BY <1>2 DEF vars, Inv, TypesOK, StoreOK, IndexOK, ServedOK, ReplayedOnce, store, service
<1>. QED
  BY <1>1, <1>2, HearKeeps, HistorySendKeeps, RunOnceKeeps, GetForPhoneKeeps, TickKeeps, RestartKeeps DEF Next

LEMMA SpecInv == Spec => []Inv
  BY InitInv, NextInv, PTL DEF Spec

---------------------------------------------------------------------------
(* ReplayedOnce: what preparePayload hands to a client or to the phone was *)
(* heard, is meant for it, and comes once and in the order heard, whatever *)
(* is asked, aborted, overwritten or restarted in between.                 *)
THEOREM StoreReplayedOnce == Spec => []ReplayedOnce
<1>1. Inv => ReplayedOnce
  BY DEF Inv
<1>. QED
  BY <1>1, SpecInv, PTL

(* With nothing to hand out, nothing is owed, if what lies up to the index *)
(* was given or is not asked for.                                          *)
ServedUpToIndex(c) ==
  \A p \in 1..lastRequest[c] :
    /\ MeantFor(heard[lost + p], c) /\ heard[lost + p].time > last_time /\ lost + p > had
    => \E k \in 1..Len(got[c]) : got[c][k] = lost + p

Served(c) == Available(c, last_time) = {} /\ ServedUpToIndex(c)

LEMMA NothingOwed == Inv => \A c \in Clients : Served(c) => Owed(c) = {}
<1> SUFFICES ASSUME Inv, NEW c \in Clients, Available(c, last_time) = {}, ServedUpToIndex(c), NEW i \in Owed(c)
             PROVE  FALSE
  BY DEF Served
<1>1. /\ i \in (IF had > lost THEN had ELSE lost) + 1 .. Len(heard)
      /\ MeantFor(heard[i], c) /\ heard[i].time > last_time
      /\ \A j \in 1..Len(got[c]) : got[c][j] # i
  BY DEF Owed
<1>2. /\ c \in Nodes /\ lost \in Nat /\ had \in Nat /\ Len(heard) \in Nat /\ lastRequest[c] \in Nat
      /\ packetHistoryTotalCount \in Nat /\ packetHistoryTotalCount + lost = Len(heard)
  BY LenProperties, SMT DEF Inv, TypesOK, StoreOK, Nodes
<1>3. i > had /\ i > lost /\ i \in Nat /\ i <= Len(heard)
  BY <1>1, <1>2, SMT
<1>4. PICK p \in 1..packetHistoryTotalCount : lost + p = i
  <2>1. i - lost \in 1..packetHistoryTotalCount /\ lost + (i - lost) = i
    BY <1>2, <1>3, SMT
  <2>. QED
    BY <2>1
<1>5. p \in 1..lastRequest[c] \/ p \in lastRequest[c] + 1 .. packetHistoryTotalCount
  BY <1>2, SMT
<1>6. CASE p \in 1..lastRequest[c]
  BY <1>1, <1>3, <1>4, <1>6 DEF ServedUpToIndex
<1>7. CASE p \in lastRequest[c] + 1 .. packetHistoryTotalCount
  BY <1>1, <1>2, <1>4, <1>7, AvailableFacts
<1>. QED
  BY <1>5, <1>6, <1>7

(* ReplayWhole: the server turns from a client of its own accord, or       *)
(* answers that there is no history, only when that client has every       *)
(* message it asked for and had not had.                                   *)
THEOREM StoreReplayWhole == Spec => ReplayWhole
<1>1. (Inv => \A c \in Clients : Served(c) => Owed(c) = {})'
  BY NothingOwed, PTL
<1>2. ASSUME Inv, Inv', [Next]_vars, NEW c \in Clients
      PROVE  /\ busy /\ busyTo = c /\ ~busy' => Abort(c) \/ Restart \/ Owed(c) = {}
             /\ ~busy' /\ (\E secAgo \in Windows : HistorySend(c, secAgo)) => Owed(c)' = {}
  <2>1. ASSUME busy, busyTo = c, ~busy', ~Abort(c), ~Restart
        PROVE  Owed(c) = {}
    <3>1. RunOnce
      <4>1. ~GetForPhone
        BY <2>1, StoreForwardAssumption DEF GetForPhone
      <4>. QED
        BY <1>2, <2>1, <4>1 DEF Next, Hear, Abort, HistorySend, Tick, vars, service
    <3>2. Available(c, last_time) = {} /\ ServedUpToIndex(c)
      BY <1>2, <2>1, <3>1 DEF RunOnce, Inv, ServedOK, ServedUpToIndex
    <3>. QED
      BY <1>2, <3>2, NothingOwed DEF Served
  <2>2. ASSUME ~busy', NEW secAgo \in Windows, HistorySend(c, secAgo)
        PROVE  Owed(c)' = {}
    <3>1. UNCHANGED <<store, lastRequest, heard, lost, got>> /\ Available(c, last_time') = {}
      BY <2>2 DEF HistorySend
    <3>2. lastRequest[c] > 0 => had' = lost + lastRequest[c]
      BY <1>2, <2>2, HistorySendKeeps
    <3>3. (Available(c, last_time) = {})'
      BY <3>1 DEF Available, store
    <3>4. \A p \in 1..lastRequest[c] : ~(lost + p > had')
      <4>1. lastRequest[c] \in Nat /\ lost \in Nat
        BY <1>2 DEF Inv, TypesOK, Nodes
      <4>. QED
        BY <3>2, <4>1, SMT
    <3>5. ServedUpToIndex(c)'
      BY <3>1, <3>4 DEF ServedUpToIndex
    <3>. QED
      BY <1>1, <1>2, <3>3, <3>5 DEF Served
  <2>. QED
    BY <2>1, <2>2
<1>3. ASSUME Inv, Inv', [Next]_vars
      PROVE  [\A c \in Clients :
                /\ busy /\ busyTo = c /\ ~busy' => Abort(c) \/ Restart \/ Owed(c) = {}
                /\ ~busy' /\ (\E secAgo \in Windows : HistorySend(c, secAgo)) => Owed(c)' = {}]_vars
  BY <1>2, <1>3
<1>. QED
  BY <1>3, SpecInv, PTL DEF Spec, ReplayWhole
=============================================================================
