---------------------------- MODULE StoreForward ----------------------------
(***************************************************************************)
(* The store-and-forward server (StoreForwardModule.cpp). It keeps the text*)
(* messages it hears in a fixed store that starts over when it is full, and*)
(* an index per client of how far that client has been served. It serves   *)
(* one client at a time: a node of the mesh, one message per run of its    *)
(* thread, or its own phone, one per read; the two share busy and busyTo.  *)
(* A message counts as replayed when it is handed to the mesh: replies are *)
(* sent without want_ack.                                                  *)
(***************************************************************************)
EXTENDS Integers, Sequences, FiniteSetsExt

CONSTANTS Clients,        \* nodes that ask for their history,
          Others,         \*   nodes that do not,
          Us, Broadcast,
          records, historyReturnMax,
          Windows,        \* how far back a client may ask
          MaxTime,        \* bounds: of the clock,
          MaxMessages,    \*   of messages heard,
          MaxRequests,    \*   of requests for the history,
          MaxRestarts     \*   and of restarts

ASSUME StoreForwardAssumption ==
  /\ Clients \intersect Others = {} /\ Us \notin Clients \union Others
  /\ Broadcast \notin Clients \union Others \union {Us}
  /\ records \in Nat \ {0} /\ historyReturnMax \in Nat \ {0} /\ Windows \subseteq Nat

VARIABLES packetHistory, packetHistoryTotalCount, lastRequest,
          busy, busyTo, requestCount, last_time,
          now,                  \* getTime()
          heard,                \* history: every message heard,
          lost,                 \*   how many of them a restart or a new start of the store took away,
          got,                  \*   what each client was given,
          had,                  \*   and how far the one being served had got before it asked
          requests, restarts

service == <<busy, busyTo, requestCount, last_time>>
store == <<packetHistory, packetHistoryTotalCount>>
counters == <<requests, restarts>>
vars == <<store, lastRequest, service, now, heard, lost, got, had, counters>>

Nodes == Clients \union {Us}
Blank == [id |-> 0, time |-> 0, from |-> Us, to |-> Us]

Empty == /\ packetHistory' = [i \in 1..records |-> Blank] /\ packetHistoryTotalCount' = 0
         /\ lastRequest' = [n \in Nodes |-> 0]

Init == /\ packetHistory = [i \in 1..records |-> Blank] /\ packetHistoryTotalCount = 0
        /\ lastRequest = [n \in Nodes |-> 0]
        /\ busy = FALSE /\ busyTo = Us /\ requestCount = 0 /\ last_time = 0
        /\ now = 1 /\ heard = <<>> /\ lost = 0 /\ got = [n \in Nodes |-> <<>>] /\ had = 0
        /\ requests = 0 /\ restarts = 0

MeantFor(m, dest) == m.from # dest /\ m.to \in {Broadcast, dest}

(* The entries a client has not been served yet and is interested in. *)
Available(dest, since) ==
  {i \in lastRequest[dest] + 1 .. packetHistoryTotalCount :
     packetHistory[i].time > since /\ MeantFor(packetHistory[i], dest)}

(* A slip: the index is left at the message sent. *)
PreparePayloadAgain(dest, since) ==
  LET i == Min(Available(dest, since))
  IN /\ lastRequest' = [lastRequest EXCEPT ![dest] = i - 1]
     /\ got' = [got EXCEPT ![dest] = Append(@, packetHistory[i].id)]

PreparePayload(dest, since) ==
  LET i == Min(Available(dest, since))
  IN /\ lastRequest' = [lastRequest EXCEPT ![dest] = i]
     /\ got' = [got EXCEPT ![dest] = Append(@, packetHistory[i].id)]

(* A slip: the store starts over, the indices do not. *)
HistoryAddOver(m) ==
  LET full == packetHistoryTotalCount = records
      at == IF full THEN 1 ELSE packetHistoryTotalCount + 1
  IN /\ packetHistory' = [packetHistory EXCEPT ![at] = m] /\ packetHistoryTotalCount' = at
     /\ lost' = IF full THEN Len(heard) ELSE lost
     /\ UNCHANGED lastRequest

(* Once the store is full it is filled from the start, and what it held is *)
(* as good as gone: no index reaches beyond packetHistoryTotalCount.       *)
HistoryAdd(m) ==
  LET full == packetHistoryTotalCount = records
      at == IF full THEN 1 ELSE packetHistoryTotalCount + 1
  IN /\ packetHistory' = [packetHistory EXCEPT ![at] = m] /\ packetHistoryTotalCount' = at
     /\ lost' = IF full THEN Len(heard) ELSE lost
     /\ lastRequest' = IF full THEN [n \in Nodes |-> 0] ELSE lastRequest

(* A text message passes, addressed to whomever. *)
Hear(from, to) ==
  LET m == [id |-> Len(heard) + 1, time |-> now, from |-> from, to |-> to]
  IN /\ Len(heard) < MaxMessages /\ from # to
     /\ HistoryAdd(m) /\ heard' = Append(heard, m)
     /\ UNCHANGED <<service, now, got, had, counters>>

(* A client asks for its history, with a window or (the legacy text) for   *)
(* the default one. While the server is busy, or on the default channel,   *)
(* the answer is an error text and nothing changes.                        *)
HistorySend(c, secAgo) ==
  LET since == IF now < secAgo THEN 0 ELSE now - secAgo
      some == Available(c, since) # {}
  IN /\ ~busy /\ requests < MaxRequests /\ requests' = requests + 1
     /\ last_time' = since
     /\ busy' = some /\ busyTo' = IF some THEN c ELSE busyTo
     /\ had' = IF got[c] = <<>> THEN 0 ELSE got[c][Len(got[c])]
     /\ UNCHANGED <<store, lastRequest, requestCount, now, heard, lost, got, restarts>>

(* A client that has had enough, or an error, is no longer served. *)
Abort(c) == /\ busy /\ busyTo = c
            /\ requestCount' = 0 /\ busy' = FALSE
            /\ UNCHANGED <<store, lastRequest, busyTo, last_time, now, heard, lost, got, had, counters>>

(* A slip: the last message sent, the server does not stop being busy. *)
RunOnceOn == /\ busy /\ requestCount < historyReturnMax
             /\ Available(busyTo, last_time) # {}
             /\ PreparePayload(busyTo, last_time) /\ requestCount' = requestCount + 1
             /\ UNCHANGED <<busy, busyTo, last_time, store, now, heard, lost, had, counters>>

(* The thread, when the channel is free enough. It serves busyTo, be it the*)
(* own node, whose request had no window. With historyReturnMax messages   *)
(* sent it does nothing any more, and busy stays.                          *)
RunOnce == /\ busy /\ requestCount < historyReturnMax
           /\ IF Available(busyTo, last_time) # {}
                THEN /\ PreparePayload(busyTo, last_time)
                     /\ requestCount' = requestCount + 1 /\ UNCHANGED busy
                ELSE /\ requestCount' = 0 /\ busy' = FALSE /\ UNCHANGED <<lastRequest, got>>
           /\ UNCHANGED <<busyTo, last_time, store, now, heard, lost, had, counters>>

(* The phone reads. The count and the window of the thread are left alone. *)
GetForPhone == /\ IF busy THEN busyTo = Us ELSE Available(Us, 0) # {}
               /\ busyTo' = Us
               /\ IF Available(Us, 0) # {}
                    THEN PreparePayload(Us, 0) /\ busy' = TRUE
                    ELSE busy' = FALSE /\ UNCHANGED <<lastRequest, got>>
               /\ UNCHANGED <<requestCount, last_time, store, now, heard, lost, had, counters>>

(* Time passes, or the clock is set for the first time. *)
Tick == /\ now < MaxTime /\ now' \in now + 1 .. MaxTime
        /\ UNCHANGED <<store, lastRequest, service, heard, lost, got, had, counters>>

Restart == /\ restarts < MaxRestarts /\ restarts' = restarts + 1
           /\ Empty /\ busy' = FALSE /\ busyTo' = Us /\ requestCount' = 0 /\ last_time' = 0
           /\ lost' = Len(heard) /\ UNCHANGED <<now, heard, got, had, requests>>

Next == \/ \E from \in Clients \union Others, to \in Nodes \union {Broadcast} : Hear(from, to)
        \/ \E c \in Clients : Abort(c) \/ \E secAgo \in Windows : HistorySend(c, secAgo)
        \/ RunOnce \/ GetForPhone \/ Tick \/ Restart

(* The thread runs every packetTimeMax, and finds the channel free again.  *)
Spec == Init /\ [][Next]_vars /\ WF_vars(RunOnce)
---------------------------------------------------------------------------
(* Properties. *)

(* ReplayedOnce: what a client is given is meant for it, was heard, and is *)
(* given once and in the order heard, however often it asks, stops, asks   *)
(* with another window, reads by phone and thread in turn, or the store    *)
(* starts over while it is served.                                         *)
ReplayedOnce ==
  \A n \in Nodes :
    /\ \A i \in 1..Len(got[n]) : got[n][i] \in 1..Len(heard) /\ MeantFor(heard[got[n][i]], n)
    /\ \A i, j \in 1..Len(got[n]) : i < j => got[n][i] < got[n][j]

(* ReplayWhole: when the server turns from a client of its own accord, or  *)
(* answers that there is no history, the client has every message in the   *)
(* window it asked for that it could want and that is later than the last  *)
(* it had, whatever was heard, overwritten or asked by others meanwhile.   *)
Owed(c) ==
  {i \in (IF had > lost THEN had ELSE lost) + 1 .. Len(heard) :
     /\ MeantFor(heard[i], c) /\ heard[i].time > last_time
     /\ \A j \in 1..Len(got[c]) : got[c][j] # i}

ReplayWhole ==
  [][\A c \in Clients :
       /\ busy /\ busyTo = c /\ ~busy' => Abort(c) \/ Restart \/ Owed(c) = {}
       /\ ~busy' /\ (\E secAgo \in Windows : HistorySend(c, secAgo)) => Owed(c)' = {}]_vars

(* BusyEnds: whoever is being served, the server is there for others again,*)
(* unless it comes to the limit of messages of one answer.                 *)
BusyEnds == busy ~> ~busy \/ requestCount = historyReturnMax
=============================================================================
