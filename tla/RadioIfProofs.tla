--------------------------- MODULE RadioIfProofs ---------------------------
(***************************************************************************)
(* For every set of packets: each packet has one owner, and, where only the *)
(* main task calls the radio, what the send path asserts holds however      *)
(* handlers nest.  The inductive invariant describes the stack above a      *)
(* channel scan to come: the handlers nested there empty no queue, because  *)
(* no delay can be over before the last of their looks at the notification. *)
(***************************************************************************)
EXTENDS RadioIf, SequenceTheorems, TLAPS

Over == "TRANSMIT_DELAY_COMPLETED"

(* What may be on the stack above a scan, and what the notification is not. *)
Nested == {"read", "clear", "transmitted", "received", "standby", "listen", "timer"}

NestedOK(j) ==
  /\ todo[j] \in Nested
  /\ todo[j] \in {"read", "clear"} => notification # Over
  /\ todo[j] = "clear" => seen # Over

ScanOK(i) ==
  /\ txQueue # {}
  /\ i = 1 => sendingPacket = NoPacket
  /\ i > 1 => todo[i - 1] = "standby"
  /\ \A j \in 1 .. i - 1 : NestedOK(j)
  /\ \A j, k \in 1 .. i - 1 :
       j < k /\ todo[j] \in {"read", "clear", "timer"} => todo[k] # "read"

StepOK(i) ==
  /\ todo[i] \in {"clear", "attempt", "startSend"} => i = 1
  /\ todo[i] = "attempt" => notification # Over
  /\ todo[i] = "startSend" => txQueue # {} /\ sendingPacket = NoPacket
  /\ todo[i] = "scan" => ScanOK(i)

StackOK ==
  /\ \A i \in 1 .. Len(todo) : StepOK(i)
  /\ sender = "main" => todo = <<>>

IInv == TypeOK /\ StackOK

(* The stack after a step, position by position. *)
LEMMA DoStack ==
  ASSUME todo \in Seq(Steps), NEW st, NEW then \in Seq(Steps), Do(st, then)
  PROVE  /\ todo' \in Seq(Steps)
         /\ Len(todo) \in Nat /\ Len(todo) >= 1 /\ todo[1] = st
         /\ Len(then) \in Nat /\ Len(todo') = Len(then) + Len(todo) - 1
         /\ \A i \in 1 .. Len(then) : todo'[i] = then[i]
         /\ \A i \in 1 .. Len(todo') :
              i > Len(then) => todo'[i] = todo[i - Len(then) + 1]
<1>1. todo # <<>> /\ Head(todo) = st /\ todo' = then \o Tail(todo)
  BY DEF Do
<1>2. Len(todo) \in Nat /\ Len(todo) >= 1 /\ todo[1] = st /\ Len(then) \in Nat
  BY <1>1, LenProperties, EmptySeq, SMT
<1>3. /\ Tail(todo) \in Seq(Steps) /\ Len(Tail(todo)) = Len(todo) - 1
      /\ \A i \in 1 .. Len(Tail(todo)) : Tail(todo)[i] = todo[i + 1]
  BY <1>1, <1>2, HeadTailProperties, SMT
<1>4. /\ then \o Tail(todo) \in Seq(Steps)
      /\ Len(then \o Tail(todo)) = Len(then) + Len(Tail(todo))
      /\ \A i \in 1 .. Len(then) + Len(Tail(todo)) :
           (then \o Tail(todo))[i] =
             IF i <= Len(then) THEN then[i] ELSE Tail(todo)[i - Len(then)]
  BY <1>3, ConcatProperties, Zenon
<1>5. /\ todo' \in Seq(Steps) /\ Len(todo') = Len(then) + Len(todo) - 1
  BY <1>1, <1>2, <1>3, <1>4, SMT
<1>6. \A i \in 1 .. Len(then) : todo'[i] = then[i]
  BY <1>1, <1>2, <1>3, <1>4, SMT
<1>7. ASSUME NEW i \in 1 .. Len(todo'), i > Len(then)
      PROVE  todo'[i] = todo[i - Len(then) + 1]
  <2>1. todo'[i] = Tail(todo)[i - Len(then)]
    BY <1>1, <1>2, <1>3, <1>4, <1>5, <1>7, SMT
  <2>2. i - Len(then) \in 1 .. Len(Tail(todo))
    BY <1>2, <1>3, <1>5, <1>7, SMT
  <2>. QED
    BY <1>3, <2>1, <2>2, Zenon
<1>. QED
  BY <1>2, <1>5, <1>6, <1>7

(* The end of a step that puts nothing in its place. *)
LEMMA PopKeepsStack ==
  ASSUME IInv, NEW st \in Steps, Do(st, <<>>), UNCHANGED sender,
         st \in Nested =>
           /\ UNCHANGED txQueue
           /\ st = "timer" \/ notification' \in {notification, "none"}
           /\ sendingPacket' \in {sendingPacket, NoPacket}
           /\ st = "standby" => sendingPacket' = NoPacket
  PROVE  StackOK'
<1>1. /\ todo' \in Seq(Steps)
      /\ Len(todo) \in Nat /\ Len(todo) >= 1 /\ todo[1] = st
      /\ Len(todo') = Len(todo) - 1
      /\ \A i \in 1 .. Len(todo') : todo'[i] = todo[i + 1]
  <2>1. <<>> \in Seq(Steps) /\ Len(<<>>) = 0 /\ todo \in Seq(Steps)
    BY DEF IInv, TypeOK
  <2>2. /\ todo' \in Seq(Steps)
        /\ Len(todo) \in Nat /\ Len(todo) >= 1 /\ todo[1] = st
        /\ Len(todo') = 0 + Len(todo) - 1
        /\ \A i \in 1 .. Len(todo') : i > 0 => todo'[i] = todo[i - 0 + 1]
    BY <2>1, DoStack, Zenon
  <2>. QED
    BY <2>2, SMT
<1>2. ASSUME NEW i \in 1 .. Len(todo')
      PROVE  StepOK(i)'
  <2>1. /\ i + 1 \in 1 .. Len(todo) /\ i \in Nat /\ i >= 1
        /\ todo'[i] = todo[i + 1] /\ StepOK(i + 1)
    BY <1>1, SMT DEF IInv, StackOK
  <2>2. todo'[i] \notin {"clear", "attempt", "startSend"}
    BY <2>1, SMT DEF StepOK
  <2>3. ASSUME todo'[i] = "scan"
        PROVE  ScanOK(i)'
    <3>1. ScanOK(i + 1)
      BY <2>1, <2>3 DEF StepOK
    <3>2. NestedOK(1) /\ st \in Nested
      BY <1>1, <2>1, <3>1, SMT DEF ScanOK, NestedOK
    <3>3. txQueue' # {}
      BY <3>1, <3>2 DEF ScanOK
    <3>4. i = 1 => sendingPacket' = NoPacket
      BY <1>1, <2>1, <3>1, <3>2, SMT DEF ScanOK
    <3>5. i > 1 => todo'[i - 1] = "standby"
      BY <1>1, <2>1, <3>1, SMT DEF ScanOK
    <3>6. ASSUME NEW j \in 1 .. i - 1
          PROVE  NestedOK(j)'
      <4>1. /\ j + 1 \in 1 .. i /\ j \in 1 .. Len(todo') /\ j \in Nat /\ j >= 1
            /\ todo'[j] = todo[j + 1]
        BY <1>1, <2>1, SMT
      <4>2. NestedOK(j + 1) /\ StepOK(j + 1)
        BY <1>1, <2>1, <3>1, <4>1, SMT DEF ScanOK, IInv, StackOK
      <4>3. todo'[j] # "clear"
        BY <4>1, <4>2, SMT DEF StepOK
      <4>4. todo'[j] = "read" => notification' \in {notification, "none"}
        BY <1>1, <2>1, <3>1, <3>2, <4>1, SMT DEF ScanOK
      <4>. QED
        BY <4>1, <4>2, <4>3, <4>4 DEF NestedOK, Over
    <3>7. ASSUME NEW j \in 1 .. i - 1, NEW k \in 1 .. i - 1,
                 j < k, todo'[j] \in {"read", "clear", "timer"}
          PROVE  todo'[k] # "read"
      <4>1. /\ j + 1 \in 1 .. i /\ k + 1 \in 1 .. i /\ j + 1 < k + 1
            /\ j \in 1 .. Len(todo') /\ k \in 1 .. Len(todo')
        BY <1>1, <2>1, <3>7, SMT
      <4>2. todo'[j] = todo[j + 1] /\ todo'[k] = todo[k + 1]
        BY <1>1, <4>1, Zenon
      <4>. QED
        BY <2>1, <3>1, <3>7, <4>1, <4>2, SMT DEF ScanOK
    <3>. QED
      BY <3>3, <3>4, <3>5, <3>6, <3>7 DEF ScanOK
  <2>. QED
    BY <2>2, <2>3 DEF StepOK
<1>3. sender' = "main" => todo' = <<>>
  BY <1>1, SMT DEF IInv, StackOK, Do
<1>. QED
  BY <1>2, <1>3 DEF StackOK

(* Below a step that no scan has beneath it, the stack holds nothing that must
   be on its top. *)
LEMMA NothingBelow ==
  ASSUME IInv, todo # <<>>,
         todo[1] \notin Nested \/ (todo[1] = "clear" /\ seen = Over),
         NEW i \in 1 .. Len(todo), i > 1
  PROVE  todo[i] \notin {"clear", "attempt", "startSend", "scan"}
<1>1. StepOK(i) /\ i \in Nat
  BY DEF IInv, StackOK
<1>2. todo[i] \notin {"clear", "attempt", "startSend"}
  BY <1>1 DEF StepOK
<1>3. todo[i] # "scan"
  <2>1. SUFFICES ASSUME todo[i] = "scan"
                 PROVE  FALSE
    OBVIOUS
  <2>2. NestedOK(1)
    BY <1>1, <2>1, SMT DEF StepOK, ScanOK
  <2>. QED
    BY <2>2 DEF NestedOK
<1>. QED
  BY <1>2, <1>3

(* A step that is not nested above a scan may be replaced by any steps that
   keep the invariant themselves. *)
LEMMA PushKeepsStack ==
  ASSUME IInv, NEW st, NEW then \in Seq(Steps), Do(st, then), UNCHANGED sender,
         st \notin Nested \/ (st = "clear" /\ seen = Over),
         \A i \in 1 .. Len(then) : StepOK(i)'
  PROVE  StackOK'
<1>1. /\ todo' \in Seq(Steps)
      /\ Len(todo) \in Nat /\ Len(todo) >= 1 /\ todo[1] = st
      /\ Len(then) \in Nat /\ Len(todo') = Len(then) + Len(todo) - 1
      /\ \A i \in 1 .. Len(todo') :
           i > Len(then) => todo'[i] = todo[i - Len(then) + 1]
  <2>1. todo \in Seq(Steps)
    BY DEF IInv, TypeOK
  <2>. QED
    BY <2>1, DoStack, Zenon
<1>2. ASSUME NEW i \in 1 .. Len(todo'), i > Len(then)
      PROVE  StepOK(i)'
  <2>1. i - Len(then) + 1 \in 1 .. Len(todo) /\ i - Len(then) + 1 > 1
    BY <1>1, <1>2, SMT
  <2>2. todo # <<>> /\ (todo[1] \notin Nested \/ (todo[1] = "clear" /\ seen = Over))
    BY <1>1 DEF Do
  <2>3. todo[i - Len(then) + 1] \notin {"clear", "attempt", "startSend", "scan"}
    BY <2>1, <2>2, NothingBelow, Zenon
  <2>. QED
    BY <1>1, <1>2, <2>3, SMT DEF StepOK
<1>3. \A i \in 1 .. Len(todo') : StepOK(i)'
  BY <1>1, <1>2, SMT
<1>4. sender' = "main" => todo' = <<>>
  BY DEF IInv, StackOK, Do
<1>. QED
  BY <1>3, <1>4 DEF StackOK

(* checkNotification: it has read a notification that no scan need fear. *)
LEMMA ReadKeepsStack ==
  ASSUME IInv, ReadNotification
  PROVE  StackOK'
<1>1. /\ todo' \in Seq(Steps)
      /\ Len(todo) \in Nat /\ Len(todo) >= 1 /\ todo[1] = "read"
      /\ Len(todo') = Len(todo) /\ todo'[1] = "clear"
      /\ \A i \in 1 .. Len(todo') : i > 1 => todo'[i] = todo[i]
  <2>1. <<"clear">> \in Seq(Steps) /\ Len(<<"clear">>) = 1 /\ <<"clear">>[1] = "clear"
        /\ todo \in Seq(Steps) /\ Do("read", <<"clear">>)
    BY DEF IInv, TypeOK, Steps, ReadNotification
  <2>2. /\ todo' \in Seq(Steps)
        /\ Len(todo) \in Nat /\ Len(todo) >= 1 /\ todo[1] = "read"
        /\ Len(todo') = 1 + Len(todo) - 1
        /\ \A i \in 1 .. 1 : todo'[i] = <<"clear">>[i]
        /\ \A i \in 1 .. Len(todo') : i > 1 => todo'[i] = todo[i - 1 + 1]
    BY <2>1, DoStack, Zenon
  <2>. QED
    BY <2>1, <2>2, SMT
<1>2. seen' = notification /\ UNCHANGED <<txQueue, sendingPacket, notification, sender>>
  BY DEF ReadNotification, radio, thread, env
<1>3. ASSUME NEW i \in 1 .. Len(todo')
      PROVE  StepOK(i)'
  <2>1. i \in 1 .. Len(todo) /\ StepOK(i) /\ StepOK(1)
    BY <1>1, SMT DEF IInv, StackOK
  <2>2. CASE i = 1
    BY <1>1, <2>2 DEF StepOK
  <2>3. CASE i > 1 /\ todo[i] = "scan"
    <3>1. ScanOK(i) /\ todo'[i] = "scan"
      BY <1>1, <2>1, <2>3 DEF StepOK
    <3>2. NestedOK(1) /\ notification # Over
      BY <1>1, <2>1, <2>3, <3>1, SMT DEF ScanOK, NestedOK
    <3>3. txQueue' # {} /\ todo'[i - 1] = "standby"
      BY <1>1, <1>2, <2>1, <2>3, <3>1, SMT DEF ScanOK
    <3>4. ASSUME NEW j \in 1 .. i - 1
          PROVE  NestedOK(j)'
      <4>1. NestedOK(j) /\ j \in 1 .. Len(todo')
        BY <1>1, <2>1, <3>1, SMT DEF ScanOK
      <4>. QED
        BY <1>1, <1>2, <3>2, <4>1, SMT DEF NestedOK, Nested
    <3>5. ASSUME NEW j \in 1 .. i - 1, NEW k \in 1 .. i - 1,
                 j < k, todo'[j] \in {"read", "clear", "timer"}
          PROVE  todo'[k] # "read"
      <4>1. /\ j \in 1 .. Len(todo') /\ k \in 1 .. Len(todo') /\ k > 1
            /\ (j = 1 \/ j > 1)
        BY <1>1, <2>1, <3>5, SMT
      <4>2. todo[k] = todo'[k] /\ todo[j] \in {"read", "clear", "timer"}
        BY <1>1, <3>5, <4>1
      <4>. QED
        BY <3>1, <3>5, <4>2 DEF ScanOK
    <3>. QED
      BY <2>3, <3>1, <3>3, <3>4, <3>5, SMT DEF ScanOK, StepOK
  <2>4. CASE i > 1 /\ todo[i] # "scan"
    BY <1>1, <1>2, <2>1, <2>4 DEF StepOK
  <2>. QED
    BY <2>2, <2>3, <2>4, SMT
<1>4. sender' = "main" => todo' = <<>>
  BY <1>2 DEF IInv, StackOK, ReadNotification, Do
<1>. QED
  BY <1>3, <1>4 DEF StackOK

(* u is s followed by t, position by position. *)
Joins(u, s, t) ==
  /\ s \in Seq(Steps) /\ t \in Seq(Steps) /\ u \in Seq(Steps)
  /\ Len(u) = Len(s) + Len(t)
  /\ \A i \in 1 .. Len(s) : u[i] = s[i]
  /\ \A i \in 1 .. Len(t) : u[Len(s) + i] = t[i]

(* Then it is their concatenation. *)
LEMMA Concatenation ==
  ASSUME NEW s, NEW t, NEW u, Joins(u, s, t)
  PROVE  s \o t = u
<1>1. s \in Seq(Steps) /\ t \in Seq(Steps) /\ u \in Seq(Steps)
  BY DEF Joins
<1>2. /\ s \o t \in Seq(Steps) /\ Len(s \o t) = Len(s) + Len(t)
      /\ \A i \in 1 .. Len(s) + Len(t) :
           (s \o t)[i] = IF i <= Len(s) THEN s[i] ELSE t[i - Len(s)]
  BY <1>1, ConcatProperties, Zenon
<1>3. Len(s) \in Nat /\ Len(t) \in Nat
  BY <1>1, LenProperties
<1>4. ASSUME NEW i \in 1 .. Len(u)
      PROVE  (s \o t)[i] = u[i]
  <2>1. CASE i <= Len(s)
    BY <1>2, <1>3, <2>1, SMT DEF Joins
  <2>2. CASE i > Len(s)
    <3>1. i - Len(s) \in 1 .. Len(t) /\ Len(s) + (i - Len(s)) = i
      BY <1>3, <2>2, SMT DEF Joins
    <3>2. u[Len(s) + (i - Len(s))] = t[i - Len(s)]
      BY <3>1, Zenon DEF Joins
    <3>. QED
      BY <1>2, <1>3, <2>2, <3>1, <3>2, SMT DEF Joins
  <2>. QED
    BY <1>3, <2>1, <2>2, SMT DEF Joins
<1>. QED
  BY <1>1, <1>2, <1>4, SeqEqual DEF Joins

(* setStandby and startReceive, written out. *)
LEMMA StandbySteps ==
  /\ SetStandby = <<"read", "standby">>
  /\ StartReceive = <<"read", "standby", "listen">>
  /\ SetStandby \o StartReceive = <<"read", "standby", "read", "standby", "listen">>
<1>1. Joins(<<"read", "standby", "listen">>, <<"read", "standby">>, <<"listen">>)
  BY DEF Joins, Steps
<1>2. Joins(<<"read", "standby", "read", "standby", "listen">>, <<"read", "standby">>,
            <<"read", "standby", "listen">>)
  BY DEF Joins, Steps
<1>3. <<"read", "standby">> \o <<"listen">> = <<"read", "standby", "listen">>
  BY <1>1, Concatenation, Zenon
<1>4. <<"read", "standby">> \o <<"read", "standby", "listen">>
        = <<"read", "standby", "read", "standby", "listen">>
  BY <1>2, Concatenation, Zenon
<1>. QED
  BY <1>3, <1>4 DEF StartReceive, SetStandby

(* What the thread puts on its stack with them. *)
LEMMA CompoundSteps ==
  ASSUME NEW x \in Steps
  PROVE  /\ SetStandby \o <<x>> = <<"read", "standby", x>>
         /\ StartReceive \o <<x>> = <<"read", "standby", "listen", x>>
         /\ <<x>> \o StartReceive \o <<"timer">>
              = <<x, "read", "standby", "listen", "timer">>
         /\ SetStandby \o <<x>> \in Seq(Steps)
         /\ StartReceive \o <<x>> \in Seq(Steps)
         /\ <<x>> \o StartReceive \o <<"timer">> \in Seq(Steps)
<1>1. /\ Joins(<<"read", "standby", x>>, <<"read", "standby">>, <<x>>)
      /\ Joins(<<"read", "standby", "listen", x>>, <<"read", "standby", "listen">>, <<x>>)
      /\ Joins(<<x, "read", "standby", "listen">>, <<x>>, <<"read", "standby", "listen">>)
      /\ Joins(<<x, "read", "standby", "listen", "timer">>,
               <<x, "read", "standby", "listen">>, <<"timer">>)
  BY DEF Joins, Steps
<1>2. /\ <<"read", "standby">> \o <<x>> = <<"read", "standby", x>>
      /\ <<"read", "standby", "listen">> \o <<x>> = <<"read", "standby", "listen", x>>
      /\ <<x>> \o <<"read", "standby", "listen">> = <<x, "read", "standby", "listen">>
      /\ <<x, "read", "standby", "listen">> \o <<"timer">>
           = <<x, "read", "standby", "listen", "timer">>
  BY <1>1, Concatenation, Zenon
<1>3. /\ <<"read", "standby", x>> \in Seq(Steps)
      /\ <<"read", "standby", "listen", x>> \in Seq(Steps)
      /\ <<x, "read", "standby", "listen", "timer">> \in Seq(Steps)
  BY <1>1 DEF Joins
<1>. QED
  BY <1>2, <1>3, StandbySteps, Zenon

(* The handler of an interrupt, nested or not. *)
LEMMA InterruptKeepsStack ==
  ASSUME IInv, NEW first \in {"transmitted", "received"},
         Do("clear", <<first, "read", "standby", "listen", "timer">>),
         notification' = "none", UNCHANGED <<txQueue, sendingPacket, sender>>
  PROVE  StackOK'
<1> DEFINE then == <<first, "read", "standby", "listen", "timer">>
<1>0. /\ then \in Seq(Steps) /\ Len(then) = 5
      /\ then[1] = first /\ then[2] = "read" /\ then[3] = "standby"
      /\ then[4] = "listen" /\ then[5] = "timer"
      /\ todo \in Seq(Steps) /\ Do("clear", then)
  BY DEF IInv, TypeOK, Steps
<1> HIDE DEF then
<1>1. /\ todo' \in Seq(Steps)
      /\ Len(todo) \in Nat /\ Len(todo) >= 1 /\ todo[1] = "clear"
      /\ Len(todo') = Len(todo) + 4
      /\ todo'[1] = first /\ todo'[2] = "read" /\ todo'[3] = "standby"
      /\ todo'[4] = "listen" /\ todo'[5] = "timer"
      /\ \A i \in 1 .. Len(todo') : i > 5 => todo'[i] = todo[i - 4]
  <2>1. /\ todo' \in Seq(Steps)
        /\ Len(todo) \in Nat /\ Len(todo) >= 1 /\ todo[1] = "clear"
        /\ Len(todo') = Len(then) + Len(todo) - 1
        /\ \A i \in 1 .. Len(then) : todo'[i] = then[i]
        /\ \A i \in 1 .. Len(todo') :
             i > Len(then) => todo'[i] = todo[i - Len(then) + 1]
    BY <1>0, DoStack, Zenon
  <2>2. \A i \in 1 .. Len(todo') : i > 5 => todo'[i] = todo[i - 5 + 1]
    BY <1>0, <2>1
  <2>. QED
    BY <1>0, <2>1, <2>2, SMT
<1>2. ASSUME NEW i \in 1 .. Len(todo')
      PROVE  StepOK(i)'
  <2>1. CASE i <= 5
    <3>1. i \in 1 .. 5
      BY <1>1, <2>1, SMT
    <3>2. todo'[i] \in {first, "read", "standby", "listen", "timer"}
      BY <1>1, <3>1, SMT
    <3>. QED
      BY <3>2 DEF StepOK
  <2>2. CASE i > 5
    <3>1. /\ i - 4 \in 1 .. Len(todo) /\ i - 4 > 1 /\ i \in Nat
          /\ todo'[i] = todo[i - 4] /\ StepOK(i - 4)
      BY <1>1, <2>2, SMT DEF IInv, StackOK
    <3>2. todo'[i] \notin {"clear", "attempt", "startSend"}
      BY <3>1 DEF StepOK
    <3>3. ASSUME todo'[i] = "scan"
          PROVE  ScanOK(i)'
      <4>1. ScanOK(i - 4)
        BY <3>1, <3>3 DEF StepOK
      <4>2. i # 6
        BY <1>1, <3>1, <4>1, SMT DEF ScanOK
      <4>3. i - 1 \in 1 .. Len(todo') /\ i - 1 > 5 /\ i - 5 > 0 /\ i > 6
        BY <1>1, <2>2, <3>1, <4>2, SMT
      <4>4. todo'[i - 1] = "standby"
        BY <1>1, <3>1, <4>1, <4>3, SMT DEF ScanOK
      <4>5. ASSUME NEW j \in 1 .. i - 1
            PROVE  NestedOK(j)'
        <5>1. CASE j \in 1 .. 5
          <6>1. todo'[j] \in {first, "read", "standby", "listen", "timer"}
            BY <1>1, <5>1, SMT
          <6>. QED
            BY <6>1 DEF NestedOK, Nested, Over
        <5>2. CASE j > 5
          <6>1. /\ j \in 1 .. Len(todo') /\ j - 4 \in 1 .. (i - 4) - 1
                /\ j - 4 \in 1 .. Len(todo) /\ j - 4 > 1
            BY <1>1, <3>1, <5>2, SMT
          <6>2. todo'[j] = todo[j - 4] /\ NestedOK(j - 4) /\ StepOK(j - 4)
            BY <1>1, <4>1, <5>2, <6>1 DEF ScanOK, IInv, StackOK
          <6>. QED
            BY <6>1, <6>2 DEF NestedOK, StepOK, Over
        <5>. QED
          BY <3>1, <5>1, <5>2, SMT
      <4>6. ASSUME NEW j \in 1 .. i - 1, NEW k \in 1 .. i - 1,
                   j < k, todo'[j] \in {"read", "clear", "timer"}
            PROVE  todo'[k] # "read"
        <5>1. CASE k <= 5
          BY <1>1, <3>1, <4>6, <5>1, SMT
        <5>2. CASE k > 5
          <6>1. /\ k \in 1 .. Len(todo') /\ k - 4 \in 1 .. (i - 4) - 1
                /\ 1 \in 1 .. (i - 4) - 1 /\ 1 < k - 4
            BY <1>1, <3>1, <5>2, SMT
          <6>2. todo'[k] = todo[k - 4]
            BY <1>1, <5>2, <6>1
          <6>. QED
            BY <1>1, <4>1, <6>1, <6>2 DEF ScanOK
        <5>. QED
          BY <3>1, <5>1, <5>2, SMT
      <4>. QED
        BY <4>1, <4>3, <4>4, <4>5, <4>6, SMT DEF ScanOK
    <3>. QED
      BY <3>2, <3>3 DEF StepOK
  <2>. QED
    BY <1>1, <2>1, <2>2, SMT
<1>3. sender' = "main" => todo' = <<>>
  BY DEF IInv, StackOK, Do
<1>. QED
  BY <1>2, <1>3 DEF StackOK

(* checkNotification hands what it read to the handler. *)
LEMMA ClearKeepsStack ==
  ASSUME IInv, ClearNotification
  PROVE  StackOK'
<1>1. /\ Do("clear", Handler(seen)) /\ notification' = "none"
      /\ UNCHANGED <<txQueue, sendingPacket, seen, sender>>
      /\ seen \in Notifications
  BY DEF ClearNotification, radio, env, IInv, TypeOK
<1>2. CASE seen = "none"
  <2>1. Do("clear", <<>>)
    BY <1>1, <1>2 DEF Handler
  <2>. QED
    BY <1>1, <2>1, PopKeepsStack DEF Steps
<1>3. CASE seen = Over
  <2> DEFINE then == <<"attempt">>
  <2>1. then \in Seq(Steps) /\ Len(then) = 1 /\ then[1] = "attempt"
        /\ Do("clear", then) /\ todo \in Seq(Steps)
    BY <1>1, <1>3 DEF Handler, Over, Steps, IInv, TypeOK
  <2> HIDE DEF then
  <2>2. todo'[1] = "attempt"
    <3>1. \A i \in 1 .. Len(then) : todo'[i] = then[i]
      BY <2>1, DoStack, Zenon
    <3>. QED
      BY <2>1, <3>1, SMT
  <2>3. ASSUME NEW i \in 1 .. Len(then)
        PROVE  StepOK(i)'
    <3>1. i = 1
      BY <2>1, SMT
    <3>. QED
      BY <1>1, <2>2, <3>1 DEF StepOK, Over
  <2>. QED
    BY <1>1, <1>3, <2>1, <2>3, PushKeepsStack, Zenon
<1>4. CASE seen \in {"ISR_TX", "ISR_RX"}
  <2>1. PICK first \in {"transmitted", "received"} :
          Handler(seen) = <<first>> \o StartReceive \o <<"timer">>
    BY <1>4 DEF Handler
  <2>2. Handler(seen) = <<first, "read", "standby", "listen", "timer">>
    BY <2>1, CompoundSteps DEF Steps
  <2>3. Do("clear", <<first, "read", "standby", "listen", "timer">>)
    BY <1>1, <2>2
  <2>. QED
    BY <1>1, <2>3, InterruptKeepsStack, Zenon
<1>. QED
  BY <1>1, <1>2, <1>3, <1>4 DEF Notifications, Over

(* A step that replaces one not nested by standby steps and another: those of
   the send path but the scan, which waits on top of nothing of their kind. *)
LEMMA PlainPushKeepsStack ==
  ASSUME IInv, NEW st \in Steps \ Nested, NEW x \in {"delay", "armTx"},
         Do(st, <<"read", "standby", "listen", x>>), UNCHANGED sender
  PROVE  StackOK'
<1> DEFINE then == <<"read", "standby", "listen", x>>
<1>1. /\ then \in Seq(Steps) /\ Len(then) = 4
      /\ \A i \in 1 .. 4 : then[i] \in {"read", "standby", "listen", x}
      /\ Do(st, then) /\ todo \in Seq(Steps)
  BY DEF Steps, IInv, TypeOK
<1> HIDE DEF then
<1>2. \A i \in 1 .. Len(then) : todo'[i] = then[i]
  BY <1>1, DoStack, Zenon
<1>3. ASSUME NEW i \in 1 .. Len(then)
      PROVE  StepOK(i)'
  <2>1. todo'[i] \in {"read", "standby", "listen", x}
    BY <1>1, <1>2
  <2>. QED
    BY <2>1 DEF StepOK
<1>. QED
  BY <1>1, <1>3, PushKeepsStack, Zenon

(* Towards a scan: there is a packet, and the delay is over. *)
LEMMA AttemptKeepsStack ==
  ASSUME IInv, Attempt
  PROVE  StackOK'
<1> DEFINE then == <<"read", "standby", "scan">>
<1>1. /\ then \in Seq(Steps) /\ Len(then) = 3
      /\ then[1] = "read" /\ then[2] = "standby" /\ then[3] = "scan"
  BY DEF Steps
<1>d. Do("attempt", then) /\ todo \in Seq(Steps)
  BY CompoundSteps DEF Steps, IInv, TypeOK, Attempt
<1> HIDE DEF then
<1>2. /\ \A i \in 1 .. Len(then) : todo'[i] = then[i]
      /\ Len(todo) \in Nat /\ Len(todo) >= 1 /\ todo[1] = "attempt"
  BY <1>1, <1>d, DoStack, Zenon
<1>3. todo'[1] = "read" /\ todo'[2] = "standby" /\ todo'[3] = "scan"
  BY <1>1, <1>2, SMT
<1>4. notification' # Over /\ txQueue' # {} /\ UNCHANGED sender
  <2>1. StepOK(1)
    BY <1>2, SMT DEF IInv, StackOK
  <2>. QED
    BY <1>2, <2>1 DEF StepOK, Attempt, thread, env
<1>5. ScanOK(3)'
  <2>1. \A j \in 1 .. 2 : NestedOK(j)'
    BY <1>3, <1>4, SMT DEF NestedOK, Nested
  <2>. QED
    BY <1>3, <1>4, <2>1, SMT DEF ScanOK
<1>6. ASSUME NEW i \in 1 .. Len(then)
      PROVE  StepOK(i)'
  <2>1. i = 1 \/ i = 2 \/ i = 3
    BY <1>1, SMT
  <2>. QED
    BY <1>3, <1>5, <2>1 DEF StepOK
<1>. QED
  BY <1>1, <1>d, <1>4, <1>6, PushKeepsStack, Zenon DEF Nested

(* The scan found the channel free: what startSend asserts holds. *)
LEMMA ChannelFreeKeepsStack ==
  ASSUME IInv, ChannelFree
  PROVE  StackOK'
<1> DEFINE then == <<"startSend">>
<1>1. /\ then \in Seq(Steps) /\ Len(then) = 1 /\ then[1] = "startSend"
      /\ Do("scan", then) /\ todo \in Seq(Steps)
  BY DEF Steps, IInv, TypeOK, ChannelFree, Scan
<1> HIDE DEF then
<1>2. /\ \A i \in 1 .. Len(then) : todo'[i] = then[i]
      /\ Len(todo) \in Nat /\ Len(todo) >= 1 /\ todo[1] = "scan"
  BY <1>1, DoStack, Zenon
<1>3. txQueue' # {} /\ sendingPacket' = NoPacket /\ UNCHANGED sender
  <2>1. ScanOK(1)
    BY <1>2, SMT DEF IInv, StackOK, StepOK
  <2>. QED
    BY <2>1 DEF ScanOK, ChannelFree, Scan, radio, env
<1>4. ASSUME NEW i \in 1 .. Len(then)
      PROVE  StepOK(i)'
  <2>1. i = 1 /\ todo'[i] = "startSend"
    BY <1>1, <1>2, SMT
  <2>. QED
    BY <1>3, <2>1 DEF StepOK
<1>. QED
  BY <1>1, <1>3, <1>4, PushKeepsStack, Zenon DEF Nested

----------------------------------------------------------------------------
(* The radio listens and no packet has an owner. *)
LEMMA InitTypeOK == Init => TypeOK
<1>1. SUFFICES ASSUME Init
               PROVE  TypeOK
  OBVIOUS
<1>2. /\ todo \in Seq(Steps) /\ reconfigures \in 0 .. MaxReconfigures
      /\ sender \in Tasks \cup {"nobody"}
  BY <1>1, RadioAssumption DEF Init
<1>3. /\ fate \in [Packets -> Fates]
      /\ \A p \in Packets : fate[p] = "new"
  BY <1>1 DEF Init, Fates
<1>4. /\ txQueue = {p \in Packets : fate[p] = "queued"}
      /\ \A p \in Packets : fate[p] = "sending" <=> p = sendingPacket
  BY <1>1, <1>3, RadioAssumption DEF Init
<1>. QED
  BY <1>1, <1>2, <1>3, <1>4 DEF Init, TypeOK, Notifications

(* Every step keeps the types and the owners. *)
LEMMA TypeStep ==
  ASSUME TypeOK, [Next]_vars
  PROVE  TypeOK'
<1>1. NoPacket \notin Packets
  BY RadioAssumption
<1>2. ASSUME NEW st, NEW then \in Seq(Steps), Do(st, then)
      PROVE  todo' \in Seq(Steps)
  BY <1>2, DoStack, Zenon DEF TypeOK
<1>3. ASSUME NEW x \in Steps
      PROVE  <<x>> \in Seq(Steps)
  OBVIOUS
<1>4. <<>> \in Seq(Steps) /\ SetStandby \in Seq(Steps) /\ StartReceive \in Seq(Steps)
  BY StandbySteps DEF Steps
<1>5. \A n \in Notifications : Handler(n) \in Seq(Steps)
  <2>0. \A x \in Steps : <<x>> \o StartReceive \o <<"timer">> \in Seq(Steps)
    BY CompoundSteps, Zenon
  <2>1. Handler("ISR_TX") \in Seq(Steps) /\ Handler("ISR_RX") \in Seq(Steps)
    BY <2>0 DEF Handler, Steps
  <2>2. Handler("none") \in Seq(Steps) /\ Handler("TRANSMIT_DELAY_COMPLETED") \in Seq(Steps)
    BY DEF Handler, Steps
  <2>. QED
    BY <2>1, <2>2 DEF Notifications
<1>6. ASSUME NEW x \in Steps
      PROVE  SetStandby \o <<x>> \in Seq(Steps) /\ StartReceive \o <<x>> \in Seq(Steps)
  BY CompoundSteps, Zenon
<1>7. SetStandby \o StartReceive \in Seq(Steps)
  BY StandbySteps DEF Steps
<1>8. ASSUME StartTransmitTimer
      PROVE  notification' \in Notifications /\ due' \in BOOLEAN
  BY <1>8 DEF StartTransmitTimer, thread, TypeOK, Notifications
<1>9. ASSUME SetTransmitDelay
      PROVE  notification' \in Notifications /\ due' \in BOOLEAN /\ failed' \in BOOLEAN
  BY <1>8, <1>9 DEF SetTransmitDelay, TypeOK
<1>10. ASSUME CompleteSending, UNCHANGED txQueue
       PROVE  /\ sendingPacket' \in Packets \cup {NoPacket} /\ fate' \in [Packets -> Fates]
              /\ txQueue' \subseteq Packets
              /\ txQueue' = {p \in Packets : fate'[p] = "queued"}
              /\ \A p \in Packets : fate'[p] = "sending" <=> p = sendingPacket'
  BY <1>1, <1>10 DEF CompleteSending, TypeOK, Fates
<1>11. ASSUME NEW p \in Packets, NEW f \in Fates, fate' = [fate EXCEPT ![p] = f],
              p # sendingPacket, f = "sending" <=> sendingPacket' = p,
              f = "sending" => sendingPacket = NoPacket,
              f # "sending" => UNCHANGED sendingPacket,
              txQueue' = IF f = "queued" THEN txQueue \cup {p} ELSE txQueue \ {p}
       PROVE  /\ sendingPacket' \in Packets \cup {NoPacket} /\ fate' \in [Packets -> Fates]
              /\ txQueue' \subseteq Packets
              /\ txQueue' = {q \in Packets : fate'[q] = "queued"}
              /\ \A q \in Packets : fate'[q] = "sending" <=> q = sendingPacket'
  BY <1>1, <1>11 DEF TypeOK
<1>12. CASE Run
  BY <1>12, <1>3 DEF Run, TypeOK, Steps, radio, thread, history, env
<1>13. CASE ReadNotification
  BY <1>13, <1>2, <1>3 DEF ReadNotification, TypeOK, Steps, radio, thread, history, env
<1>14. CASE ClearNotification
  <2>1. todo' \in Seq(Steps)
    BY <1>14, <1>2, <1>5, Zenon DEF ClearNotification, TypeOK
  <2>. QED
    BY <1>14, <2>1 DEF ClearNotification, TypeOK, Notifications, radio, env
<1>15. CASE HandleTransmitInterrupt
  BY <1>15, <1>2, <1>4, <1>10 DEF HandleTransmitInterrupt, TypeOK, thread, env
<1>16. CASE HandleReceiveInterrupt
  BY <1>16, <1>2, <1>4 DEF HandleReceiveInterrupt, TypeOK, thread, history, env
<1>17. CASE Standby
  BY <1>17, <1>2, <1>4, <1>10 DEF Standby, TypeOK, thread, env
<1>18. CASE Listen
  BY <1>18, <1>2, <1>4 DEF Listen, TypeOK, thread, history, env
<1>19. CASE AttemptIdle
  BY <1>19, <1>2, <1>4 DEF AttemptIdle, TypeOK, radio, thread, history, env
<1>20. CASE AttemptBusy
  BY <1>20, <1>2, <1>4, <1>9 DEF AttemptBusy, TypeOK, radio, env
<1>21. CASE Attempt
  BY <1>21, <1>2, <1>6 DEF Attempt, TypeOK, Steps, radio, thread, history, env
<1>22. CASE ChannelActive \/ ChannelFree
  <2>1. /\ \E then \in Seq(Steps) : Do("scan", then)
        /\ UNCHANGED <<txQueue, radio, thread, seen, history, env>>
    BY <1>22, <1>3, <1>6 DEF ChannelActive, ChannelFree, Scan, Steps
  <2>2. todo' \in Seq(Steps)
    BY <2>1, <1>2
  <2>. QED
    BY <2>1, <2>2 DEF TypeOK, radio, thread, history, env
<1>23. ASSUME NEW p \in Packets, StartSend(p)
       PROVE  TypeOK'
  BY <1>23, <1>1, <1>2, <1>4, <1>11 DEF StartSend, TypeOK, Fates, thread, env
<1>24. ASSUME NEW p \in Packets, StartTransmitFails(p)
       PROVE  TypeOK'
  BY <1>24, <1>1, <1>2, <1>6, <1>11 DEF StartTransmitFails, TypeOK, Fates, Steps, radio, thread, env
<1>25. CASE ArmTx
  BY <1>25, <1>2, <1>4 DEF ArmTx, TypeOK, thread, history, env
<1>26. CASE Delay
  BY <1>26, <1>2, <1>4, <1>9 DEF Delay, TypeOK, radio, env
<1>27. CASE Timer
  BY <1>27, <1>2, <1>4, <1>8 DEF Timer, TypeOK, radio, history, env
<1>28. CASE ChipDone
  BY <1>28 DEF ChipDone, TypeOK, Notifications, thread, history, env
<1>29. CASE DelayOver
  BY <1>29 DEF DelayOver, TypeOK, radio, history, env
<1>30. ASSUME NEW p \in Packets, NEW task \in Tasks, Enqueue(task, p)
       PROVE  TypeOK'
  BY <1>30, <1>1, <1>11 DEF Enqueue, TypeOK, Fates, radio, thread
<1>31. CASE EnqueueDelay
  BY <1>31, <1>9 DEF EnqueueDelay, TypeOK, radio
<1>32. ASSUME NEW p \in Packets, CancelSending(p)
       PROVE  TypeOK'
  BY <1>32, <1>1, <1>11 DEF CancelSending, TypeOK, Fates, radio, thread, env
<1>33. CASE Reconfigure
  BY <1>33, <1>7, RadioAssumption DEF Reconfigure, TypeOK, radio, thread, history
<1>34. CASE UNCHANGED vars
  BY <1>34 DEF vars, TypeOK, radio, thread, history, env
<1>35. ASSUME NEW p \in Packets, StartSendDisabled(p)
       PROVE  TypeOK'
  BY <1>35, <1>1, <1>2, <1>4, <1>11 DEF StartSendDisabled, TypeOK, Fates, radio, thread, env
<1>36. ASSUME NEW p \in Packets, NEW task \in Tasks, EnqueueDisabled(task, p)
       PROVE  TypeOK'
  BY <1>36, <1>1, <1>11 DEF EnqueueDisabled, TypeOK, Fates, radio, thread, env
<1>37. CASE SetTxEnabled
  BY <1>37 DEF SetTxEnabled, TypeOK, radio, thread, history
<1>. QED
  BY <1>12, <1>13, <1>14, <1>15, <1>16, <1>17, <1>18, <1>19, <1>20, <1>21, <1>22,
     <1>23, <1>24, <1>25, <1>26, <1>27, <1>28, <1>29, <1>30, <1>31, <1>32, <1>33, <1>34,
     <1>35, <1>36, <1>37
     DEF Next, Thread

(* Where only the main task calls the radio, every step keeps the stack. *)
LEMMA StackStep ==
  ASSUME IInv, [Next]_vars, "ble" \notin Tasks
  PROVE  StackOK'
<1>1. /\ sender \in {"main", "nobody"} /\ isr # Over
      /\ sender = "main" => todo = <<>>
  BY RadioAssumption DEF IInv, TypeOK, StackOK, Over
<1>2. Len(<<>>) = 0 /\ \A i \in 1 .. 0 : FALSE
  OBVIOUS
<1>3. CASE Run
  <2>1. todo' = <<"read">> /\ sender' # "main"
    BY <1>3 DEF Run, env
  <2>2. Len(todo') = 1 /\ todo'[1] = "read"
    BY <2>1
  <2>. QED
    BY <2>1, <2>2 DEF StackOK, StepOK
<1>4. CASE ReadNotification
  BY <1>4, ReadKeepsStack, Zenon
<1>5. CASE ClearNotification
  BY <1>5, ClearKeepsStack, Zenon
<1>6. CASE HandleTransmitInterrupt \/ HandleReceiveInterrupt \/ Standby \/ Listen
  <2>1. PICK st \in {"transmitted", "received", "standby", "listen"} :
          Do(st, <<>>) /\ (st = "standby" => CompleteSending)
    BY <1>6 DEF HandleTransmitInterrupt, HandleReceiveInterrupt, Standby, Listen
  <2>2. /\ UNCHANGED <<txQueue, notification, sender>>
        /\ sendingPacket' \in {sendingPacket, NoPacket}
    BY <1>6 DEF HandleTransmitInterrupt, HandleReceiveInterrupt, Standby, Listen,
                CompleteSending, thread, env
  <2>. QED
    BY <2>1, <2>2, PopKeepsStack DEF Steps, CompleteSending
<1>7. CASE Timer
  BY <1>7, PopKeepsStack DEF Timer, Steps, radio, env
<1>8. CASE AttemptIdle \/ AttemptBusy \/ ArmTx \/ Delay
  BY <1>8, PopKeepsStack
     DEF AttemptIdle, AttemptBusy, ArmTx, Delay, Steps, Nested, env
<1>9. CASE Attempt
  BY <1>9, AttemptKeepsStack, Zenon
<1>10. CASE ChannelActive
  <2>1. Do("scan", <<"read", "standby", "listen", "delay">>) /\ UNCHANGED sender
    BY <1>10, CompoundSteps DEF ChannelActive, Scan, Steps, env
  <2>. QED
    BY <2>1, PlainPushKeepsStack DEF Steps, Nested
<1>11. CASE ChannelFree
  BY <1>11, ChannelFreeKeepsStack, Zenon
<1>12. ASSUME NEW p \in Packets, StartSend(p)
       PROVE  StackOK'
  BY <1>12, PopKeepsStack DEF StartSend, Steps, Nested, env
<1>18. ASSUME NEW p \in Packets, StartSendDisabled(p)
       PROVE  StackOK'
  BY <1>18, PopKeepsStack DEF StartSendDisabled, Steps, Nested, env
<1>13. ASSUME NEW p \in Packets, StartTransmitFails(p)
       PROVE  StackOK'
  <2>1. Do("startSend", <<"read", "standby", "listen", "armTx">>) /\ UNCHANGED sender
    BY <1>13, CompoundSteps DEF StartTransmitFails, Steps, env
  <2>. QED
    BY <2>1, PlainPushKeepsStack DEF Steps, Nested
<1>14. CASE ChipDone
  <2>1. /\ UNCHANGED <<todo, txQueue, sendingPacket, seen, sender>>
        /\ notification' # Over \/ UNCHANGED notification
    BY <1>1, <1>14 DEF ChipDone, thread, env
  <2>2. \A j : NestedOK(j) => NestedOK(j)'
    BY <2>1 DEF NestedOK
  <2>3. \A i : ScanOK(i) => ScanOK(i)'
    BY <2>1, <2>2 DEF ScanOK
  <2>4. \A i : StepOK(i) => StepOK(i)'
    BY <2>1, <2>3 DEF StepOK
  <2>. QED
    BY <2>1, <2>4 DEF IInv, StackOK
<1>15. CASE DelayOver \/ UNCHANGED vars
  BY <1>15, Zenon
     DEF DelayOver, vars, radio, thread, history, env, IInv, StackOK, StepOK, ScanOK, NestedOK
<1>16. CASE \/ EnqueueDelay \/ SetTxEnabled
            \/ \E p \in Packets : CancelSending(p)
                 \/ \E task \in Tasks : Enqueue(task, p) \/ EnqueueDisabled(task, p)
  <2>1. todo' = <<>>
    BY <1>1, <1>16, RadioAssumption, "ble" \notin Tasks
       DEF EnqueueDelay, CancelSending, Enqueue, EnqueueDisabled, SetTxEnabled
  <2>. QED
    BY <1>2, <2>1 DEF StackOK
<1>17. CASE Reconfigure
  <2>1. todo' = <<"read", "standby", "read", "standby", "listen">> /\ UNCHANGED sender
    BY <1>17, StandbySteps DEF Reconfigure, SetStandby, StartReceive
  <2>2. sender' # "main"
    BY <1>17, <2>1 DEF Reconfigure
  <2>3. /\ Len(todo') = 5
        /\ \A i \in 1 .. 5 : todo'[i] \in {"read", "standby", "listen"}
    BY <2>1
  <2>. QED
    BY <2>2, <2>3 DEF StackOK, StepOK
<1>. QED
  BY <1>3, <1>4, <1>5, <1>6, <1>7, <1>8, <1>9, <1>10, <1>11, <1>12, <1>13, <1>14,
     <1>15, <1>16, <1>17, <1>18 DEF Next, Thread

----------------------------------------------------------------------------
(* Each packet has one owner, the queue or the transmission under way, and none
   once it is sent or dropped; and every variable has its type. *)
THEOREM RadioTypeOK == Spec => []TypeOK
<1>1. Init => TypeOK
  BY InitTypeOK
<1>2. TypeOK /\ [Next]_vars => TypeOK'
  BY TypeStep
<1>. QED
  BY <1>1, <1>2, PTL DEF Spec

(* dequeue finds a packet and beginSending no transmission under way, for all
   the handlers that ran between onNotify's look at the queue and startSend:
   where the main task alone enqueues, cancels and reconfigures. *)
THEOREM RadioAssertionsHold ==
  ASSUME "ble" \notin Tasks
  PROVE  Spec => []AssertionsHold
<1>1. Init => IInv
  <2>1. Init => TypeOK
    BY InitTypeOK
  <2>2. Init => StackOK
    BY DEF Init, StackOK
  <2>. QED
    BY <2>1, <2>2 DEF IInv
<1>2. IInv /\ [Next]_vars => IInv'
  BY TypeStep, StackStep DEF IInv
<1>3. IInv => AssertionsHold
  <2>1. SUFFICES ASSUME IInv, todo # <<>>, Head(todo) = "startSend"
                 PROVE  txQueue # {} /\ sendingPacket = NoPacket
    BY DEF AssertionsHold
  <2>2. Len(todo) \in Nat /\ Len(todo) >= 1 /\ todo[1] = "startSend"
    BY <2>1, LenProperties, EmptySeq, SMT DEF IInv, TypeOK
  <2>. QED
    BY <2>1, <2>2, SMT DEF IInv, StackOK, StepOK
<1>. QED
  BY <1>1, <1>2, <1>3, PTL DEF Spec

----------------------------------------------------------------------------
(* The radio is left attended, and waiting packets have a reason to go,      *)
(* whichever tasks call it: a step that stops the radio has below it one     *)
(* that starts it again, and one that starts the delay.                      *)
Has(stack, steps) == \E k \in 1 .. Len(stack) : stack[k] \in steps

Led(stack, firsts, thens) ==
  \A i \in 1 .. Len(stack) : stack[i] \in firsts =>
    \E k \in 1 .. Len(stack) : k > i /\ stack[k] \in thens

Stops == {"standby", "transmitted", "received"}
Starts == {"listen", "scan"}
Breaks == {"standby", "listen"}
Resumes == {"timer", "delay", "scan"}

ListenOK ==
  \A i \in 1 .. Len(todo) : todo[i] = "listen" =>
    \/ i = 1 /\ sendingPacket = NoPacket
    \/ i > 1 /\ todo[i - 1] = "standby"

Woken == notification \in {"ISR_RX", "ISR_TX"}
Listening == chip = "rx" /\ isr # "none" /\ isReceiving /\ sendingPacket = NoPacket
Sending == chip = "tx" /\ isr = "ISR_TX" /\ sendingPacket # NoPacket
Stalled == chip = "standby" /\ \E p \in Packets : fate[p] = "dropped"

Awake == Has(todo, {"listen", "scan", "startSend"}) \/ Woken \/ Listening \/ Sending \/ Stalled

(* The radio is in standby between the scan and startSend. *)
StillOK ==
  \A i \in 1 .. Len(todo) : todo[i] \in {"scan", "startSend"} =>
    \/ i = 1 /\ chip = "standby"
    \/ i > 1 /\ todo[i] = "scan" /\ todo[i - 1] = "standby"

Scheduled ==
  \/ Has(todo, {"timer", "delay", "scan", "attempt", "startSend"})
  \/ Pending \/ sender # "nobody" \/ (chip = "tx" /\ isr = "ISR_TX")

AttendedInv == ListenOK /\ StillOK /\ Led(todo, Stops, Starts) /\ (~ lost => Awake)
WorkInv == Undisturbed => Led(todo, Breaks, Resumes) /\ (txQueue # {} => Scheduled)

(* What a step leaves below it stays, and what it puts there is there. *)
LEMMA DoHas ==
  ASSUME todo \in Seq(Steps), NEW st, NEW then \in Seq(Steps), Do(st, then), NEW steps
  PROVE  /\ Has(then, steps) => Has(todo', steps)
         /\ Has(todo, steps) /\ st \notin steps => Has(todo', steps)
<1>1. /\ Len(todo) \in Nat /\ todo[1] = st
      /\ Len(then) \in Nat /\ Len(todo') = Len(then) + Len(todo) - 1
      /\ \A i \in 1 .. Len(then) : todo'[i] = then[i]
      /\ \A i \in 1 .. Len(todo') : i > Len(then) => todo'[i] = todo[i - Len(then) + 1]
      /\ Len(todo) >= 1
  BY DoStack, Zenon
<1>2. ASSUME NEW k \in 1 .. Len(then), then[k] \in steps
      PROVE  Has(todo', steps)
  <2>1. k \in 1 .. Len(todo') /\ todo'[k] \in steps
    BY <1>1, <1>2, SMT
  <2>. QED
    BY <2>1 DEF Has
<1>3. ASSUME NEW k \in 1 .. Len(todo), todo[k] \in steps, st \notin steps
      PROVE  Has(todo', steps)
  <2>1. k > 1
    BY <1>1, <1>3, SMT
  <2>2. /\ k - 1 + Len(then) \in 1 .. Len(todo') /\ k - 1 + Len(then) > Len(then)
        /\ (k - 1 + Len(then)) - Len(then) + 1 = k
    BY <1>1, <2>1, SMT
  <2>3. todo'[k - 1 + Len(then)] = todo[k]
    BY <1>1, <2>2
  <2>. QED
    BY <1>3, <2>2, <2>3 DEF Has
<1>. QED
  BY <1>2, <1>3 DEF Has

LEMMA DoLed ==
  ASSUME todo \in Seq(Steps), NEW st, NEW then \in Seq(Steps), Do(st, then), NEW firsts, NEW thens,
         Led(todo, firsts, thens)
  PROVE  /\ st \in firsts => Has(todo', thens)
         /\ Led(then, firsts, thens) => Led(todo', firsts, thens)
<1>1. /\ Len(todo) \in Nat /\ todo[1] = st
      /\ Len(then) \in Nat /\ Len(todo') = Len(then) + Len(todo) - 1
      /\ \A i \in 1 .. Len(then) : todo'[i] = then[i]
      /\ \A i \in 1 .. Len(todo') : i > Len(then) => todo'[i] = todo[i - Len(then) + 1]
      /\ Len(todo) >= 1
  BY DoStack, Zenon
<1>2. ASSUME NEW k \in 1 .. Len(todo), k > 1, todo[k] \in thens
      PROVE  k - 1 + Len(then) \in 1 .. Len(todo') /\ todo'[k - 1 + Len(then)] \in thens
  <2>1. /\ k - 1 + Len(then) \in 1 .. Len(todo') /\ k - 1 + Len(then) > Len(then)
        /\ (k - 1 + Len(then)) - Len(then) + 1 = k
    BY <1>1, <1>2, SMT
  <2>2. todo'[k - 1 + Len(then)] = todo[k]
    BY <1>1, <2>1
  <2>. QED
    BY <1>2, <2>1, <2>2
<1>3. ASSUME st \in firsts
      PROVE  Has(todo', thens)
  <2>1. 1 \in 1 .. Len(todo)
    BY <1>1, SMT
  <2>2. PICK k \in 1 .. Len(todo) : k > 1 /\ todo[k] \in thens
    BY <1>1, <1>3, <2>1 DEF Led
  <2>. QED
    BY <1>2, <2>2 DEF Has
<1>4. ASSUME Led(then, firsts, thens), NEW i \in 1 .. Len(todo'), todo'[i] \in firsts
      PROVE  \E k \in 1 .. Len(todo') : k > i /\ todo'[k] \in thens
  <2>1. CASE i <= Len(then)
    <3>1. i \in 1 .. Len(then) /\ then[i] \in firsts
      BY <1>1, <1>4, <2>1, SMT
    <3>2. PICK k \in 1 .. Len(then) : k > i /\ then[k] \in thens
      BY <1>4, <3>1 DEF Led
    <3>3. k \in 1 .. Len(todo') /\ todo'[k] = then[k]
      BY <1>1, <3>2, SMT
    <3>. QED
      BY <3>2, <3>3
  <2>2. CASE i > Len(then)
    <3>1. PICK o \in 1 .. Len(todo) : o = i - Len(then) + 1 /\ o > 1
      BY <1>1, <2>2, SMT
    <3>2. todo[o] \in firsts
      BY <1>1, <1>4, <2>2, <3>1
    <3>3. PICK k \in 1 .. Len(todo) : k > o /\ todo[k] \in thens
      BY <3>2 DEF Led
    <3>4. k > 1 /\ k - 1 + Len(then) > i
      BY <1>1, <3>1, <3>3, SMT
    <3>. QED
      BY <1>2, <3>3, <3>4
  <2>. QED
    BY <1>1, <2>1, <2>2, SMT
<1>. QED
  BY <1>3, <1>4 DEF Led

(* A stop just above a step that listens. *)
LEMMA DoListen ==
  ASSUME todo \in Seq(Steps), NEW st, NEW then \in Seq(Steps), Do(st, then), ListenOK,
         \A i \in 1 .. Len(then) : then[i] = "listen" => i > 1 /\ then[i - 1] = "standby",
         st = "standby" => then = <<>> /\ sendingPacket' = NoPacket
  PROVE  ListenOK'
<1>1. /\ Len(todo) \in Nat /\ todo[1] = st
      /\ Len(then) \in Nat /\ Len(todo') = Len(then) + Len(todo) - 1
      /\ \A i \in 1 .. Len(then) : todo'[i] = then[i]
      /\ \A i \in 1 .. Len(todo') : i > Len(then) => todo'[i] = todo[i - Len(then) + 1]
      /\ Len(todo) >= 1
  BY DoStack, Zenon
<1>2. ASSUME NEW i \in 1 .. Len(todo'), todo'[i] = "listen"
      PROVE  \/ i = 1 /\ sendingPacket' = NoPacket
             \/ i > 1 /\ todo'[i - 1] = "standby"
  <2>1. CASE i <= Len(then)
    <3>1. i \in 1 .. Len(then) /\ then[i] = "listen"
      BY <1>1, <1>2, <2>1, SMT
    <3>2. i > 1 /\ then[i - 1] = "standby"
      BY <3>1
    <3>3. i - 1 \in 1 .. Len(then)
      BY <1>1, <3>1, <3>2, SMT
    <3>. QED
      BY <1>1, <3>2, <3>3
  <2>2. CASE i > Len(then)
    <3>1. PICK o \in 1 .. Len(todo) : o = i - Len(then) + 1 /\ o > 1
      BY <1>1, <2>2, SMT
    <3>2. todo[o] = "listen"
      BY <1>1, <1>2, <2>2, <3>1
    <3>3. todo[o - 1] = "standby"
      BY <3>1, <3>2, SMT DEF ListenOK
    <3>4. CASE o = 2
      <4>1. st = "standby" /\ Len(then) = 0
        BY <1>1, <3>3, <3>4
      <4>. QED
        BY <1>1, <3>1, <3>4, <4>1, SMT
    <3>5. CASE o # 2
      <4>1. i - 1 \in 1 .. Len(todo') /\ i - 1 > Len(then) /\ (i - 1) - Len(then) + 1 = o - 1 /\ i > 1
        BY <1>1, <3>1, <3>5, SMT
      <4>2. todo'[i - 1] = todo[o - 1]
        BY <1>1, <4>1
      <4>. QED
        BY <3>3, <4>1, <4>2
    <3>. QED
      BY <3>4, <3>5
  <2>. QED
    BY <1>1, <2>1, <2>2, SMT
<1>. QED
  BY <1>2 DEF ListenOK

(* The same of the scan, which puts startSend in its place. *)
LEMMA DoStill ==
  ASSUME todo \in Seq(Steps), NEW st, NEW then \in Seq(Steps), Do(st, then), StillOK,
         \A i \in 1 .. Len(then) : then[i] \in {"scan", "startSend"} =>
           \/ i = 1 /\ then[i] = "startSend" /\ st = "scan"
           \/ i > 1 /\ then[i] = "scan" /\ then[i - 1] = "standby",
         st = "standby" => then = <<>> /\ chip' = "standby",
         st = "scan" => chip' = chip
  PROVE  StillOK'
<1>1. /\ Len(todo) \in Nat /\ todo[1] = st
      /\ Len(then) \in Nat /\ Len(todo') = Len(then) + Len(todo) - 1
      /\ \A i \in 1 .. Len(then) : todo'[i] = then[i]
      /\ \A i \in 1 .. Len(todo') : i > Len(then) => todo'[i] = todo[i - Len(then) + 1]
      /\ Len(todo) >= 1
  BY DoStack, Zenon
<1>2. ASSUME NEW i \in 1 .. Len(todo'), todo'[i] \in {"scan", "startSend"}
      PROVE  \/ i = 1 /\ chip' = "standby"
             \/ i > 1 /\ todo'[i] = "scan" /\ todo'[i - 1] = "standby"
  <2>1. CASE i <= Len(then)
    <3>1. i \in 1 .. Len(then) /\ then[i] = todo'[i] /\ then[i] \in {"scan", "startSend"}
      BY <1>1, <1>2, <2>1, SMT
    <3>2. CASE i = 1 /\ then[i] = "startSend" /\ st = "scan"
      <4>1. 1 \in 1 .. Len(todo) /\ todo[1] = "scan"
        BY <1>1, <3>2, SMT
      <4>2. chip = "standby"
        BY <4>1, SMT DEF StillOK
      <4>. QED
        BY <3>2, <4>2
    <3>3. CASE i > 1 /\ then[i] = "scan" /\ then[i - 1] = "standby"
      <4>1. i - 1 \in 1 .. Len(then)
        BY <1>1, <3>1, <3>3, SMT
      <4>. QED
        BY <1>1, <3>1, <3>3, <4>1
    <3>. QED
      BY <3>1, <3>2, <3>3
  <2>2. CASE i > Len(then)
    <3>1. PICK o \in 1 .. Len(todo) : o = i - Len(then) + 1 /\ o > 1
      BY <1>1, <2>2, SMT
    <3>2. todo[o] = todo'[i] /\ todo[o] \in {"scan", "startSend"}
      BY <1>1, <1>2, <2>2, <3>1
    <3>3. todo[o] = "scan" /\ todo[o - 1] = "standby"
      BY <3>1, <3>2, SMT DEF StillOK
    <3>4. CASE o = 2
      <4>1. st = "standby" /\ Len(then) = 0
        BY <1>1, <3>3, <3>4
      <4>. QED
        BY <1>1, <3>1, <3>4, <4>1, SMT
    <3>5. CASE o # 2
      <4>1. i - 1 \in 1 .. Len(todo') /\ i - 1 > Len(then) /\ (i - 1) - Len(then) + 1 = o - 1 /\ i > 1
        BY <1>1, <3>1, <3>5, SMT
      <4>2. todo'[i - 1] = todo[o - 1]
        BY <1>1, <4>1
      <4>. QED
        BY <3>2, <3>3, <4>1, <4>2
    <3>. QED
      BY <3>4, <3>5
  <2>. QED
    BY <1>1, <2>1, <2>2, SMT
<1>. QED
  BY <1>2 DEF StillOK

(* What the thread puts on its stack. *)
Interrupted == {<<x, "read", "standby", "listen", "timer">> : x \in {"transmitted", "received"}}
Refused == <<"read", "standby", "listen", "armTx">>
Pushed ==
  {<<>>, <<"clear">>, <<"attempt">>, <<"startSend">>, <<"read", "standby", "scan">>,
   <<"read", "standby", "listen", "delay">>, Refused} \cup Interrupted

LEMMA PushedFacts ==
  ASSUME NEW then \in Pushed
  PROVE  /\ then \in Seq(Steps) /\ Led(then, Stops, Starts)
         /\ \A i \in 1 .. Len(then) : then[i] = "listen" => i > 1 /\ then[i - 1] = "standby"
         /\ \A i \in 1 .. Len(then) : then[i] \in {"scan", "startSend"} =>
              \/ i = 1 /\ then = <<"startSend">>
              \/ i > 1 /\ then[i] = "scan" /\ then[i - 1] = "standby"
         /\ then # Refused => Led(then, Breaks, Resumes)
<1> DEFINE Fine(s) ==
      /\ s \in Seq(Steps) /\ Led(s, Stops, Starts)
      /\ \A i \in 1 .. Len(s) : s[i] = "listen" => i > 1 /\ s[i - 1] = "standby"
      /\ \A i \in 1 .. Len(s) : s[i] \in {"scan", "startSend"} =>
           \/ i = 1 /\ s = <<"startSend">>
           \/ i > 1 /\ s[i] = "scan" /\ s[i - 1] = "standby"
<1>1. Fine(<<>>) /\ Led(<<>>, Breaks, Resumes)
  BY DEF Led
<1>2. ASSUME NEW x \in {"clear", "attempt", "startSend"}
      PROVE  Fine(<<x>>) /\ Led(<<x>>, Breaks, Resumes)
  BY DEF Led, Stops, Breaks, Steps
<1>3. Fine(<<"read", "standby", "scan">>) /\ Led(<<"read", "standby", "scan">>, Breaks, Resumes)
  <2>1. PICK s : s = <<"read", "standby", "scan">>
    OBVIOUS
  <2>2. s \in Seq(Steps) /\ Len(s) = 3 /\ s[1] = "read" /\ s[2] = "standby" /\ s[3] = "scan"
    BY <2>1 DEF Steps
  <2>3. \A i \in 1 .. 3 : i = 1 \/ i = 2 \/ i = 3
    OBVIOUS
  <2>4. 3 \in 1 .. 3 /\ 3 > 2 /\ s[3] \in Starts /\ s[3] \in Resumes
    BY <2>2 DEF Starts, Resumes
  <2>5. Led(s, Stops, Starts) /\ Led(s, Breaks, Resumes)
    BY <2>2, <2>3, <2>4 DEF Led, Stops, Breaks
  <2>. QED
    BY <2>1, <2>2, <2>3, <2>5
<1>4. ASSUME NEW x \in {"delay", "armTx"}
      PROVE  Fine(<<"read", "standby", "listen", x>>)
             /\ (x = "delay" => Led(<<"read", "standby", "listen", x>>, Breaks, Resumes))
  <2>1. PICK s : s = <<"read", "standby", "listen", x>>
    OBVIOUS
  <2>2. s \in Seq(Steps) /\ Len(s) = 4 /\ s[1] = "read" /\ s[2] = "standby" /\ s[3] = "listen" /\ s[4] = x
    BY <2>1 DEF Steps
  <2>3. \A i \in 1 .. 4 : i = 1 \/ i = 2 \/ i = 3 \/ i = 4
    OBVIOUS
  <2>4. 3 \in 1 .. 4 /\ 3 > 2 /\ s[3] \in Starts /\ 4 \in 1 .. 4 /\ 4 > 2 /\ 4 > 3
        /\ (x = "delay" => s[4] \in Resumes)
    BY <2>2 DEF Starts, Resumes
  <2>5. Led(s, Stops, Starts)
    BY <2>2, <2>3, <2>4 DEF Led, Stops
  <2>6. x = "delay" => Led(s, Breaks, Resumes)
    BY <2>2, <2>3, <2>4 DEF Led, Breaks
  <2>7. /\ \A i \in 1 .. Len(s) : s[i] = "listen" => i > 1 /\ s[i - 1] = "standby"
        /\ \A i \in 1 .. Len(s) : s[i] \notin {"scan", "startSend"}
    BY <2>2, <2>3
  <2>. QED
    BY <2>1, <2>2, <2>5, <2>6, <2>7
<1>5. ASSUME NEW x \in {"transmitted", "received"}
      PROVE  Fine(<<x, "read", "standby", "listen", "timer">>)
             /\ Led(<<x, "read", "standby", "listen", "timer">>, Breaks, Resumes)
  <2>1. PICK s : s = <<x, "read", "standby", "listen", "timer">>
    OBVIOUS
  <2>2. s \in Seq(Steps) /\ Len(s) = 5 /\ s[1] = x /\ s[2] = "read" /\ s[3] = "standby" /\ s[4] = "listen"
        /\ s[5] = "timer"
    BY <2>1 DEF Steps
  <2>3. \A i \in 1 .. 5 : i = 1 \/ i = 2 \/ i = 3 \/ i = 4 \/ i = 5
    OBVIOUS
  <2>4. 4 \in 1 .. 5 /\ 4 > 1 /\ 4 > 3 /\ s[4] \in Starts /\ 5 \in 1 .. 5 /\ 5 > 3 /\ 5 > 4 /\ s[5] \in Resumes
    BY <2>2 DEF Starts, Resumes
  <2>5. Led(s, Stops, Starts) /\ Led(s, Breaks, Resumes)
    BY <2>2, <2>3, <2>4 DEF Led, Stops, Breaks
  <2>6. /\ \A i \in 1 .. Len(s) : s[i] = "listen" => i > 1 /\ s[i - 1] = "standby"
        /\ \A i \in 1 .. Len(s) : s[i] \notin {"scan", "startSend"}
    BY <2>2, <2>3
  <2>. QED
    BY <2>1, <2>2, <2>5, <2>6
<1>. HIDE DEF Fine
<1>6. Fine(then) /\ (then # Refused => Led(then, Breaks, Resumes))
  BY <1>1, <1>2, <1>3, <1>4, <1>5 DEF Pushed, Interrupted, Refused
<1>. QED
  BY <1>6 DEF Fine

(* How the stack moves; only a stop ends a transmission, and nothing begins *)
(* one but startSend.                                                       *)
Kept == UNCHANGED <<todo, sendingPacket>> /\ (chip = "standby" => chip' = "standby")
Begins == /\ todo = <<>> /\ UNCHANGED sendingPacket
          /\ \/ todo' = <<"read">>
             \/ todo' = <<"read", "standby", "read", "standby", "listen">> /\ reconfigures' # 0
Moves ==
  \E st \in Steps, then \in Pushed :
    /\ Do(st, then)
    /\ st = "standby" => then = <<>> /\ sendingPacket' = NoPacket /\ chip' = "standby"
    /\ st = "scan" => chip' = chip
    /\ then = <<"startSend">> => st = "scan"
    /\ then = Refused => ~ Undisturbed'

LEMMA ThreadMoves ==
  ASSUME TypeOK, [Next]_vars
  PROVE  Kept \/ Begins \/ Moves
<1>0. <<>> \in Pushed /\ <<"clear">> \in Pushed /\ <<"attempt">> \in Pushed /\ <<"startSend">> \in Pushed
      /\ <<"read", "standby", "scan">> \in Pushed /\ <<"read", "standby", "listen", "delay">> \in Pushed
      /\ Refused \in Pushed /\ Interrupted \subseteq Pushed
  BY DEF Pushed
<1>a. /\ <<>> # Refused /\ <<"clear">> # Refused /\ <<"attempt">> # Refused /\ <<"startSend">> # Refused
      /\ <<"read", "standby", "scan">> # Refused /\ <<"read", "standby", "listen", "delay">> # Refused
      /\ \A x \in {"transmitted", "received"} : <<x, "read", "standby", "listen", "timer">> # Refused
  <2>1. PICK n : n = Refused
    OBVIOUS
  <2>2. Len(n) = 4 /\ n[4] = "armTx"
    BY <2>1 DEF Refused
  <2>3. Len(<<>>) # 4 /\ Len(<<"clear">>) # 4 /\ Len(<<"attempt">>) # 4 /\ Len(<<"startSend">>) # 4
        /\ Len(<<"read", "standby", "scan">>) # 4 /\ <<"read", "standby", "listen", "delay">>[4] # "armTx"
        /\ \A x : Len(<<x, "read", "standby", "listen", "timer">>) # 4
    OBVIOUS
  <2>. QED
    BY <2>1, <2>2, <2>3
<1>b. /\ <<>> # <<"startSend">> /\ <<"clear">> # <<"startSend">> /\ <<"attempt">> # <<"startSend">>
      /\ <<"read", "standby", "scan">> # <<"startSend">> /\ Refused # <<"startSend">>
      /\ <<"read", "standby", "listen", "delay">> # <<"startSend">>
      /\ \A x \in {"transmitted", "received"} : <<x, "read", "standby", "listen", "timer">> # <<"startSend">>
  <2>1. PICK n : n = <<"startSend">>
    OBVIOUS
  <2>2. Len(n) = 1 /\ n[1] = "startSend"
    BY <2>1
  <2>3. Len(<<>>) # 1 /\ <<"clear">>[1] # "startSend" /\ <<"attempt">>[1] # "startSend"
        /\ Len(<<"read", "standby", "scan">>) # 1 /\ Len(<<"read", "standby", "listen", "delay">>) # 1
        /\ Len(Refused) # 1 /\ \A x : Len(<<x, "read", "standby", "listen", "timer">>) # 1
    BY DEF Refused
  <2>. QED
    BY <2>1, <2>2, <2>3
<1>1. CASE Run
  BY <1>1 DEF Run, Begins, radio
<1>2. CASE ReadNotification
  BY <1>0, <1>2, <1>a, <1>b DEF ReadNotification, Moves, Steps
<1>3. CASE ClearNotification
  <2>1. Handler(seen) \in Pushed /\ Handler(seen) # Refused /\ Handler(seen) # <<"startSend">>
    <3>1. seen \in Notifications
      BY DEF TypeOK
    <3>2. CASE seen = "none"
      BY <1>0, <1>a, <1>b, <3>2 DEF Handler
    <3>3. CASE seen = "TRANSMIT_DELAY_COMPLETED"
      BY <1>0, <1>a, <1>b, <3>3 DEF Handler
    <3>4. CASE seen = "ISR_TX"
      <4>1. Handler(seen) = <<"transmitted", "read", "standby", "listen", "timer">>
        BY <3>4, CompoundSteps DEF Handler, Steps
      <4>. QED
        BY <1>0, <1>a, <1>b, <4>1 DEF Interrupted
    <3>5. CASE seen = "ISR_RX"
      <4>1. Handler(seen) = <<"received", "read", "standby", "listen", "timer">>
        BY <3>5, CompoundSteps DEF Handler, Steps
      <4>. QED
        BY <1>0, <1>a, <1>b, <4>1 DEF Interrupted
    <3>. QED
      BY <3>1, <3>2, <3>3, <3>4, <3>5 DEF Notifications
  <2>. QED
    BY <1>3, <2>1 DEF ClearNotification, Moves, Steps
<1>4. CASE HandleTransmitInterrupt \/ HandleReceiveInterrupt \/ Standby \/ Listen
  <2>1. PICK st \in Steps :
          Do(st, <<>>) /\ st # "scan" /\ (st = "standby" => sendingPacket' = NoPacket /\ chip' = "standby")
    BY <1>4 DEF HandleTransmitInterrupt, HandleReceiveInterrupt, Standby, Listen, CompleteSending, Steps
  <2>. QED
    BY <1>0, <1>a, <1>b, <2>1 DEF Moves
<1>5. CASE AttemptIdle \/ AttemptBusy \/ ArmTx \/ Delay \/ Timer \/ \E p \in Packets : StartSend(p) \/ StartSendDisabled(p)
  <2>1. PICK st \in Steps : Do(st, <<>>) /\ st # "standby" /\ st # "scan"
    BY <1>5 DEF AttemptIdle, AttemptBusy, ArmTx, Delay, Timer, StartSend, StartSendDisabled, Steps
  <2>. QED
    BY <1>0, <1>a, <1>b, <2>1 DEF Moves
<1>6. CASE Attempt
  <2>1. Do("attempt", <<"read", "standby", "scan">>)
    BY <1>6, CompoundSteps DEF Attempt, Steps
  <2>. QED
    BY <1>0, <1>a, <1>b, <2>1 DEF Moves, Steps
<1>7. CASE ChannelActive
  <2>1. Do("scan", <<"read", "standby", "listen", "delay">>) /\ chip' = chip
    BY <1>7, CompoundSteps DEF ChannelActive, Scan, Steps, radio
  <2>. QED
    BY <1>0, <1>a, <1>b, <2>1 DEF Moves, Steps
<1>8. CASE ChannelFree
  BY <1>0, <1>8, <1>a, <1>b DEF ChannelFree, Scan, Moves, Steps, radio
<1>9. ASSUME NEW p \in Packets, StartTransmitFails(p)
      PROVE  Moves
  <2>1. Do("startSend", Refused)
    BY <1>9, CompoundSteps DEF StartTransmitFails, Steps, Refused
  <2>2. fate'[p] = "refused"
    BY <1>9 DEF StartTransmitFails, TypeOK
  <2>. QED
    <3>1. ~ Undisturbed'
      BY <2>2 DEF Undisturbed
    <3>. QED
      BY <1>0, <1>b, <2>1, <3>1 DEF Moves, Steps
<1>10. CASE Reconfigure
  <2>1. todo' = <<"read", "standby", "read", "standby", "listen">>
    BY <1>10, StandbySteps DEF Reconfigure
  <2>2. reconfigures' # 0
    BY <1>10, RadioAssumption DEF Reconfigure, TypeOK
  <2>. QED
    BY <1>10, <2>1, <2>2 DEF Reconfigure, Begins, radio
<1>11. CASE \/ ChipDone \/ DelayOver \/ EnqueueDelay \/ SetTxEnabled \/ UNCHANGED vars
            \/ \E p \in Packets :
                 CancelSending(p) \/ \E task \in Tasks : Enqueue(task, p) \/ EnqueueDisabled(task, p)
  BY <1>11
     DEF ChipDone, DelayOver, EnqueueDelay, SetTxEnabled, CancelSending, Enqueue, EnqueueDisabled, Kept,
         vars, radio
<1>. QED
  BY <1>1, <1>2, <1>3, <1>4, <1>5, <1>6, <1>7, <1>8, <1>9, <1>10, <1>11 DEF Next, Thread

LEMMA StackMoves ==
  ASSUME TypeOK, ListenOK, StillOK, Led(todo, Stops, Starts), [Next]_vars
  PROVE  /\ ListenOK' /\ StillOK' /\ Led(todo', Stops, Starts)
         /\ Undisturbed' /\ Led(todo, Breaks, Resumes) => Led(todo', Breaks, Resumes)
<1>1. CASE Kept
  BY <1>1 DEF Kept, ListenOK, StillOK
<1>2. CASE Begins
  <2>1. \/ todo' = <<"read">>
        \/ todo' = <<"read", "standby", "read", "standby", "listen">> /\ ~ Undisturbed'
    BY <1>2 DEF Begins, Undisturbed
  <2>2. CASE todo' = <<"read">>
    BY <2>2 DEF ListenOK, StillOK, Led, Stops, Breaks
  <2>3. CASE todo' = <<"read", "standby", "read", "standby", "listen">> /\ ~ Undisturbed'
    <3>1. /\ Len(todo') = 5 /\ todo'[1] = "read" /\ todo'[2] = "standby" /\ todo'[3] = "read"
          /\ todo'[4] = "standby" /\ todo'[5] = "listen"
      BY <2>3
    <3>2. \A i \in 1 .. 5 : i = 1 \/ i = 2 \/ i = 3 \/ i = 4 \/ i = 5
      OBVIOUS
    <3>3. 5 \in 1 .. 5 /\ 5 > 2 /\ 5 > 4 /\ todo'[5] \in Starts /\ 5 > 1 /\ todo'[5 - 1] = "standby"
      BY <3>1 DEF Starts
    <3>4. Led(todo', Stops, Starts)
      BY <3>1, <3>2, <3>3 DEF Led, Stops
    <3>5. ListenOK' /\ StillOK'
      BY <3>1, <3>2, <3>3 DEF ListenOK, StillOK
    <3>. QED
      BY <2>3, <3>4, <3>5
  <2>. QED
    BY <2>1, <2>2, <2>3
<1>3. CASE Moves
  <2>1. PICK st \in Steps, then \in Pushed :
          /\ Do(st, then)
          /\ st = "standby" => then = <<>> /\ sendingPacket' = NoPacket /\ chip' = "standby"
          /\ st = "scan" => chip' = chip
          /\ then = <<"startSend">> => st = "scan"
          /\ then = Refused => ~ Undisturbed'
    BY <1>3 DEF Moves
  <2>2. /\ then \in Seq(Steps) /\ Led(then, Stops, Starts) /\ todo \in Seq(Steps)
        /\ \A i \in 1 .. Len(then) : then[i] = "listen" => i > 1 /\ then[i - 1] = "standby"
        /\ then # Refused => Led(then, Breaks, Resumes)
    BY PushedFacts DEF TypeOK
  <2>a. \A i \in 1 .. Len(then) : then[i] \in {"scan", "startSend"} =>
          \/ i = 1 /\ then[i] = "startSend" /\ st = "scan"
          \/ i > 1 /\ then[i] = "scan" /\ then[i - 1] = "standby"
    <3>1. \A i \in 1 .. Len(then) : then[i] \in {"scan", "startSend"} =>
            \/ i = 1 /\ then = <<"startSend">>
            \/ i > 1 /\ then[i] = "scan" /\ then[i - 1] = "standby"
      BY PushedFacts, Zenon
    <3>2. then = <<"startSend">> => then[1] = "startSend" /\ st = "scan"
      BY <2>1
    <3>. QED
      BY <3>1, <3>2
  <2>3. ListenOK' /\ StillOK'
    BY <2>1, <2>2, <2>a, DoListen, DoStill
  <2>4. Led(todo', Stops, Starts)
    BY <2>1, <2>2, DoLed
  <2>5. Undisturbed' /\ Led(todo, Breaks, Resumes) => Led(todo', Breaks, Resumes)
    BY <2>1, <2>2, DoLed
  <2>. QED
    BY <2>3, <2>4, <2>5
<1>. QED
  BY <1>1, <1>2, <1>3, ThreadMoves

(* What became of a packet refused or dropped does not change. *)
LEMMA FateSteps ==
  ASSUME TypeOK, [Next]_vars
  PROVE  \/ UNCHANGED fate
         \/ \E p \in Packets : \E f : fate[p] \notin {"refused", "dropped"} /\ fate' = [fate EXCEPT ![p] = f]
<1>1. /\ sendingPacket # NoPacket => sendingPacket \in Packets /\ fate[sendingPacket] = "sending"
      /\ txQueue = {p \in Packets : fate[p] = "queued"}
  BY RadioAssumption DEF TypeOK
<1>2. CASE \/ Run \/ ReadNotification \/ HandleReceiveInterrupt \/ Listen
           \/ AttemptIdle \/ Attempt \/ ChannelActive \/ ChannelFree \/ ArmTx \/ Timer
           \/ ChipDone \/ DelayOver \/ Reconfigure \/ SetTxEnabled \/ UNCHANGED vars
  <2>1. UNCHANGED history
    BY <1>2, Zenon
       DEF Run, ReadNotification, HandleReceiveInterrupt, Listen, AttemptIdle, Attempt, ChannelActive,
           ChannelFree, Scan, ArmTx, Timer, ChipDone, DelayOver, Reconfigure, SetTxEnabled, vars
  <2>. QED
    BY <2>1 DEF history
<1>3. CASE HandleTransmitInterrupt \/ Standby
  <2>1. CompleteSending
    BY <1>3 DEF HandleTransmitInterrupt, Standby
  <2>. QED
    BY <1>1, <2>1 DEF CompleteSending
<1>4. CASE ClearNotification \/ AttemptBusy \/ Delay \/ EnqueueDelay
  BY <1>4 DEF ClearNotification, AttemptBusy, Delay, EnqueueDelay
<1>5. ASSUME NEW p \in Packets, \/ StartSend(p) \/ StartTransmitFails(p) \/ StartSendDisabled(p)
                                \/ CancelSending(p)
                                \/ \E task \in Tasks : Enqueue(task, p) \/ EnqueueDisabled(task, p)
      PROVE  fate[p] \notin {"refused", "dropped"} /\ \E f : fate' = [fate EXCEPT ![p] = f]
  <2>1. fate[p] \in {"queued", "new"}
    BY <1>1, <1>5
       DEF StartSend, StartTransmitFails, StartSendDisabled, CancelSending, Enqueue, EnqueueDisabled
  <2>2. \E f : fate' = [fate EXCEPT ![p] = f]
    BY <1>5
       DEF StartSend, StartTransmitFails, StartSendDisabled, CancelSending, Enqueue, EnqueueDisabled
  <2>. QED
    BY <2>1, <2>2
<1>. QED
  BY <1>2, <1>3, <1>4, <1>5 DEF Next, Thread

LEMMA StaysStalled ==
  ASSUME TypeOK, [Next]_vars, Stalled, chip' = "standby"
  PROVE  Stalled'
<1>1. PICK p \in Packets : fate[p] = "dropped"
  BY DEF Stalled
<1>2. fate'[p] = "dropped"
  BY <1>1, FateSteps DEF TypeOK
<1>. QED
  BY <1>2 DEF Stalled

(* A step that leaves the radio and an interrupt's notification alone. *)
LEMMA KeepsAwake ==
  ASSUME TypeOK, [Next]_vars, Awake, NEW st, NEW then \in Seq(Steps), Do(st, then),
         st \notin {"listen", "scan", "startSend"}, UNCHANGED radio, Woken => Woken'
  PROVE  Awake'
<1>1. Stalled => Stalled'
  BY StaysStalled DEF radio, Stalled
<1>. QED
  BY <1>1, DoHas DEF TypeOK, Awake, Listening, Sending, radio

LEMMA TimerKeeps ==
  ASSUME TypeOK, StartTransmitTimer
  PROVE  (Woken => Woken') /\ (txQueue # {} => Pending')
  BY DEF TypeOK, StartTransmitTimer, Woken, Pending, thread

LEMMA AwakeStep ==
  ASSUME TypeOK, AttendedInv, [Next]_vars, ~ lost'
  PROVE  Awake'
<1>0. todo \in Seq(Steps) /\ ListenOK /\ Led(todo, Stops, Starts) /\ (~ lost => Awake)
  BY DEF TypeOK, AttendedInv
<1>b. Stalled /\ chip' = "standby" => Awake'
  BY StaysStalled DEF Awake
<1>a. /\ <<>> \in Seq(Steps) /\ <<"clear">> \in Seq(Steps)
      /\ \A x \in {"startSend", "attempt"} : <<x>> \in Seq(Steps) /\ Has(<<x>>, {x})
      /\ \A s, some, more : Has(s, some) /\ some \subseteq more => Has(s, more)
  BY DEF Steps, Has
<1>1. CASE Run
  <2>1. todo = <<>> /\ ~ lost /\ UNCHANGED <<radio, notification>>
    BY <1>1 DEF Run, thread, history
  <2>. QED
    BY <1>0, <1>b, <2>1 DEF Awake, Has, Woken, Listening, Sending, Stalled, radio
<1>2. CASE ReadNotification
  BY <1>0, <1>2, <1>a, KeepsAwake DEF ReadNotification, radio, thread, history, Woken
<1>3. CASE ClearNotification
  <2>1. Do("clear", Handler(seen)) /\ notification = seen /\ ~ lost /\ UNCHANGED radio
    BY <1>3 DEF ClearNotification
  <2>2. CASE seen \in {"ISR_TX", "ISR_RX"}
    <3>1. PICK x \in {"transmitted", "received"} :
            Handler(seen) = <<x, "read", "standby", "listen", "timer">>
      BY <2>2, CompoundSteps DEF Handler, Steps
    <3>2. PICK s : s = <<x, "read", "standby", "listen", "timer">>
      OBVIOUS
    <3>3. s \in Seq(Steps) /\ 4 \in 1 .. Len(s) /\ s[4] = "listen" /\ Do("clear", s)
      BY <2>1, <3>1, <3>2 DEF Steps
    <3>4. Has(s, {"listen", "scan", "startSend"})
      BY <3>3 DEF Has
    <3>. QED
      BY <1>0, <3>3, <3>4, DoHas DEF Awake
  <2>3. CASE seen \in {"none", "TRANSMIT_DELAY_COMPLETED"}
    <3>1. Handler(seen) \in Seq(Steps) /\ ~ Woken
      BY <1>a, <2>1, <2>3 DEF Handler, Woken
    <3>. QED
      BY <1>0, <2>1, <3>1, KeepsAwake
  <2>. QED
    BY <2>2, <2>3 DEF TypeOK, Notifications
<1>4. CASE HandleTransmitInterrupt \/ HandleReceiveInterrupt \/ Standby
  <2>1. PICK st \in Stops : Do(st, <<>>)
    BY <1>4 DEF HandleTransmitInterrupt, HandleReceiveInterrupt, Standby, Stops
  <2>2. Has(todo', Starts)
    BY <1>0, <1>a, <2>1, DoLed
  <2>. QED
    BY <1>a, <2>2 DEF Awake, Starts
<1>5. CASE Listen
  <2>1. Do("listen", <<>>) /\ chip' = "rx" /\ isReceiving' = TRUE /\ isr' = "ISR_RX" /\ sendingPacket' = sendingPacket
    BY <1>5 DEF Listen
  <2>a. Len(todo) \in Nat /\ Len(todo) >= 1 /\ todo[1] = "listen"
    BY <1>0, <1>a, <2>1, DoStack, Zenon
  <2>2. todo[1] = "listen" /\ 1 \in 1 .. Len(todo)
    BY <2>a
  <2>3. sendingPacket = NoPacket
    BY <1>0, <2>2, SMT DEF ListenOK
  <2>. QED
    BY <2>1, <2>3 DEF Awake, Listening
<1>6. CASE AttemptIdle
  BY <1>0, <1>6, <1>a, KeepsAwake DEF AttemptIdle, thread, history, Woken
<1>7. CASE AttemptBusy \/ Delay
  <2>1. PICK st \in {"attempt", "delay"} : Do(st, <<>>) /\ StartTransmitTimer /\ ~ lost /\ UNCHANGED radio
    <3>1. CASE AttemptBusy
      BY <3>1 DEF AttemptBusy, SetTransmitDelay
    <3>2. CASE Delay
      BY <3>2 DEF Delay, SetTransmitDelay
    <3>. QED
      BY <1>7, <3>1, <3>2
  <2>. QED
    BY <1>0, <1>a, <2>1, TimerKeeps, KeepsAwake
<1>8. CASE Timer
  <2>1. Do("timer", <<>>) /\ StartTransmitTimer /\ ~ lost /\ UNCHANGED radio
    BY <1>8 DEF Timer, history
  <2>. QED
    BY <1>0, <1>a, <2>1, TimerKeeps, KeepsAwake
<1>9. CASE Attempt \/ ChannelActive \/ \E p \in Packets : StartTransmitFails(p)
  <2>1. PICK st, s : /\ st \in Steps /\ Do(st, s)
                    /\ s \in {<<"read", "standby", "scan">>, <<"read", "standby", "listen", "delay">>,
                              <<"read", "standby", "listen", "armTx">>}
    BY <1>9, CompoundSteps DEF Attempt, ChannelActive, Scan, StartTransmitFails, Steps
  <2>2. s \in Seq(Steps) /\ 3 \in 1 .. Len(s) /\ s[3] \in {"scan", "listen"}
    <3>1. CASE s = <<"read", "standby", "scan">>
      BY <3>1 DEF Steps
    <3>2. CASE s = <<"read", "standby", "listen", "delay">>
      BY <3>2 DEF Steps
    <3>3. CASE s = <<"read", "standby", "listen", "armTx">>
      BY <3>3 DEF Steps
    <3>. QED
      BY <2>1, <3>1, <3>2, <3>3
  <2>3. Has(s, {"listen", "scan", "startSend"})
    BY <2>2 DEF Has
  <2>. QED
    BY <1>0, <2>1, <2>2, <2>3, DoHas DEF Awake
<1>10. CASE ChannelFree
  <2>1. Has(<<"startSend">>, {"listen", "scan", "startSend"})
    BY <1>a
  <2>. QED
    BY <1>0, <1>10, <1>a, <2>1, DoHas DEF ChannelFree, Scan, Awake
<1>11. ASSUME NEW p \in Packets, StartSend(p)
       PROVE  Awake'
  BY <1>11, RadioAssumption DEF StartSend, Awake, Sending
<1>12. CASE ArmTx
  <2>1. Do("armTx", <<>>) /\ isr' = "ISR_TX" /\ ~ lost /\ UNCHANGED <<notification, chip, isReceiving, sendingPacket>>
    BY <1>12 DEF ArmTx, thread, history
  <2>2. Has(todo, {"listen", "scan", "startSend"}) => Has(todo', {"listen", "scan", "startSend"})
    <3>1. "armTx" \notin {"listen", "scan", "startSend"}
      OBVIOUS
    <3>. QED
      BY <1>0, <1>a, <2>1, <3>1, DoHas, Zenon
  <2>. QED
    BY <1>0, <1>b, <2>1, <2>2 DEF Awake, Woken, Listening, Sending, Stalled
<1>13. CASE ChipDone
  <2>1. /\ todo' = todo /\ ~ lost /\ chip # "standby" /\ isr \in {"none", "ISR_RX", "ISR_TX"}
        /\ IF isr = "none" THEN notification' = notification ELSE notification' = isr
    BY <1>13 DEF ChipDone, TypeOK, thread, history
  <2>. QED
    BY <1>0, <1>b, <2>1 DEF Awake, Woken, Listening, Sending, Stalled
<1>14. CASE \/ DelayOver \/ SetTxEnabled \/ UNCHANGED vars
            \/ \E p \in Packets :
                 CancelSending(p) \/ \E task \in Tasks : Enqueue(task, p) \/ EnqueueDisabled(task, p)
  <2>1. ~ lost /\ UNCHANGED <<todo, notification, chip, isr, isReceiving, sendingPacket>>
    BY <1>14 DEF DelayOver, SetTxEnabled, CancelSending, Enqueue, EnqueueDisabled, vars, radio, thread, history
  <2>. QED
    BY <1>0, <1>b, <2>1 DEF Awake, Woken, Listening, Sending, Stalled
<1>15. CASE EnqueueDelay
  <2>1. ~ lost /\ UNCHANGED <<todo, chip, isr, isReceiving, sendingPacket>> /\ StartTransmitTimer
    BY <1>15 DEF EnqueueDelay, SetTransmitDelay, radio
  <2>. QED
    BY <1>0, <1>b, <2>1, TimerKeeps DEF Awake, Listening, Sending, Stalled
<1>16. CASE Reconfigure
  <2>1. PICK s : s = <<"read", "standby", "read", "standby", "listen">>
    OBVIOUS
  <2>2. todo' = s /\ 5 \in 1 .. Len(s) /\ s[5] = "listen"
    BY <1>16, <2>1, StandbySteps DEF Reconfigure
  <2>. QED
    BY <2>2 DEF Awake, Has
<1>17. ASSUME NEW p \in Packets, StartSendDisabled(p)
       PROVE  Awake'
  <2>1. Do("startSend", <<>>) /\ chip' = chip /\ fate'[p] = "dropped"
    BY <1>17 DEF StartSendDisabled, TypeOK, radio
  <2>2. Len(todo) \in Nat /\ Len(todo) >= 1 /\ todo[1] = "startSend"
    BY <1>0, <1>a, <2>1, DoStack, Zenon
  <2>3. todo[1] = "startSend" /\ 1 \in 1 .. Len(todo)
    BY <2>2
  <2>4. chip = "standby"
    BY <2>3, SMT DEF AttendedInv, StillOK
  <2>. QED
    BY <2>1, <2>4 DEF Awake, Stalled
<1>. QED
  BY <1>17, <1>1, <1>2, <1>3, <1>4, <1>5, <1>6, <1>7, <1>8, <1>9, <1>10, <1>11, <1>12, <1>13, <1>14, <1>15, <1>16
     DEF Next, Thread

(* What disturbs the thread is not undone. *)
LEMMA StillDisturbed ==
  ASSUME TypeOK, [Next]_vars, Undisturbed'
  PROVE  Undisturbed
<1>1. fate \in [Packets -> Fates] /\ reconfigures \in Nat
  BY RadioAssumption DEF TypeOK
<1>2. (lost => lost') /\ (failed => failed') /\ (reconfigures' = 0 => reconfigures = 0)
  <2>0. CASE ClearNotification
    BY <2>0 DEF ClearNotification, env
  <2>1. CASE \/ Run \/ ReadNotification \/ HandleReceiveInterrupt \/ Listen
             \/ AttemptIdle \/ Attempt \/ ChannelActive \/ ChannelFree \/ ArmTx \/ Timer
             \/ ChipDone \/ DelayOver \/ UNCHANGED vars
    <3>1. UNCHANGED history /\ UNCHANGED env
      BY <2>1, Zenon
         DEF Run, ReadNotification, HandleReceiveInterrupt, Listen, AttemptIdle, Attempt, ChannelActive,
             ChannelFree, Scan, ArmTx, Timer, ChipDone, DelayOver, vars
    <3>. QED
      BY <3>1 DEF history, env
  <2>2. CASE HandleTransmitInterrupt \/ Standby
    BY <2>2 DEF HandleTransmitInterrupt, Standby, env
  <2>3. CASE AttemptBusy \/ Delay \/ EnqueueDelay
    <3>1. UNCHANGED <<lost, reconfigures>> /\ ~ failed
      BY <2>3 DEF AttemptBusy, Delay, EnqueueDelay, Do, env
    <3>. QED
      BY <3>1
  <2>4. CASE Reconfigure \/ SetTxEnabled
    <3>1. reconfigures' \in {reconfigures, reconfigures + 1} /\ UNCHANGED <<lost, failed>>
      BY <2>4 DEF Reconfigure, SetTxEnabled, history
    <3>. QED
      BY <1>1, <3>1
  <2>5. CASE \E p \in Packets :
               \/ StartSend(p) \/ StartTransmitFails(p) \/ StartSendDisabled(p) \/ CancelSending(p)
               \/ \E task \in Tasks : Enqueue(task, p) \/ EnqueueDisabled(task, p)
    BY <2>5
       DEF StartSend, StartTransmitFails, StartSendDisabled, CancelSending, Enqueue, EnqueueDisabled, env
  <2>. QED
    BY <2>0, <2>1, <2>2, <2>3, <2>4, <2>5 DEF Next, Thread
<1>3. \A p \in Packets : fate'[p] \notin {"refused", "dropped"}
  BY DEF Undisturbed
<1>4. \A p \in Packets : fate[p] \notin {"refused", "dropped"}
  BY <1>1, <1>3, FateSteps
<1>. QED
  BY <1>2, <1>4 DEF Undisturbed

(* A step with nothing to do for the queue leaves what there is to be done. *)
LEMMA KeepsScheduled ==
  ASSUME TypeOK, Scheduled, NEW st, NEW then \in Seq(Steps), Do(st, then),
         st \notin {"timer", "delay", "scan", "attempt", "startSend"},
         UNCHANGED <<chip, sender>>, isr' \in {isr, "ISR_TX"}, Pending => Pending'
  PROVE  Scheduled'
  BY DoHas DEF TypeOK, Scheduled

LEMMA ScheduledStep ==
  ASSUME TypeOK, Led(todo, Breaks, Resumes), txQueue # {} => Scheduled, [Next]_vars, Undisturbed', txQueue' # {}
  PROVE  Scheduled'
<1>0. todo \in Seq(Steps) /\ <<>> \in Seq(Steps) /\ <<"clear">> \in Seq(Steps)
      /\ \A x \in {"startSend", "attempt"} : <<x>> \in Seq(Steps) /\ Has(<<x>>, {x})
      /\ \A s, some, more : Has(s, some) /\ some \subseteq more => Has(s, more)
  BY DEF TypeOK, Steps, Has
<1>1. CASE Run
  <2>1. todo = <<>> /\ UNCHANGED <<txQueue, chip, isr, notification, sender>>
    BY <1>1 DEF Run, radio, thread, env
  <2>. QED
    BY <2>1 DEF Scheduled, Has, Pending
<1>2. CASE ReadNotification
  <2>1. Do("read", <<"clear">>) /\ UNCHANGED <<txQueue, chip, isr, notification, sender>>
    BY <1>2 DEF ReadNotification, radio, thread, env
  <2>. QED
    BY <1>0, <2>1, KeepsScheduled DEF Pending
<1>3. CASE ClearNotification
  <2>1. /\ Do("clear", Handler(seen)) /\ notification = seen /\ UNCHANGED <<txQueue, chip, isr, sender>>
    BY <1>3 DEF ClearNotification, radio, env, Undisturbed
  <2>2. CASE seen \in {"ISR_TX", "ISR_RX"}
    <3>1. PICK x \in {"transmitted", "received"} :
            Handler(seen) = <<x, "read", "standby", "listen", "timer">>
      BY <2>2, CompoundSteps DEF Handler, Steps
    <3>2. PICK s : s = <<x, "read", "standby", "listen", "timer">>
      OBVIOUS
    <3>3. s \in Seq(Steps) /\ 5 \in 1 .. Len(s) /\ s[5] = "timer" /\ Do("clear", s)
      BY <2>1, <3>1, <3>2 DEF Steps
    <3>4. Has(s, {"timer", "delay", "scan", "attempt", "startSend"})
      BY <3>3 DEF Has
    <3>. QED
      BY <1>0, <3>3, <3>4, DoHas DEF Scheduled
  <2>3. CASE seen = "TRANSMIT_DELAY_COMPLETED"
    <3>1. Handler(seen) = <<"attempt">>
      BY <2>3 DEF Handler
    <3>2. Has(<<"attempt">>, {"timer", "delay", "scan", "attempt", "startSend"})
      BY <1>0
    <3>. QED
      <4>1. PICK s \in Seq(Steps) : s = <<"attempt">>
        BY <1>0
      <4>2. Do("clear", s) /\ Has(s, {"timer", "delay", "scan", "attempt", "startSend"})
        BY <2>1, <3>1, <3>2, <4>1
      <4>3. Has(todo', {"timer", "delay", "scan", "attempt", "startSend"})
        BY <1>0, <4>2, DoHas
      <4>. QED
        BY <4>3 DEF Scheduled
  <2>4. CASE seen = "none"
    <3>1. Handler(seen) = <<>> /\ ~ Pending
      BY <2>1, <2>4 DEF Handler, Pending
    <3>. QED
      BY <1>0, <2>1, <3>1, KeepsScheduled
  <2>. QED
    BY <2>2, <2>3, <2>4 DEF TypeOK, Notifications
<1>4. CASE HandleTransmitInterrupt \/ HandleReceiveInterrupt
  <2>1. PICK st \in {"transmitted", "received"} :
          Do(st, <<>>) /\ UNCHANGED <<txQueue, chip, isr, notification, sender>>
    BY <1>4 DEF HandleTransmitInterrupt, HandleReceiveInterrupt, thread, env
  <2>. QED
    BY <1>0, <2>1, KeepsScheduled DEF Pending
<1>5. CASE Standby \/ Listen
  <2>1. PICK st \in Breaks : Do(st, <<>>)
    BY <1>5 DEF Standby, Listen, Breaks
  <2>2. Has(todo', Resumes)
    BY <1>0, <2>1, DoLed
  <2>. QED
    BY <1>0, <2>2 DEF Scheduled, Resumes
<1>6. CASE AttemptIdle
  BY <1>6 DEF AttemptIdle
<1>7. CASE AttemptBusy \/ Delay \/ Timer \/ EnqueueDelay
  <2>1. StartTransmitTimer /\ txQueue' = txQueue
    BY <1>7 DEF AttemptBusy, Delay, Timer, EnqueueDelay, SetTransmitDelay
  <2>. QED
    BY <2>1, TimerKeeps DEF Scheduled
<1>8. CASE Attempt \/ ChannelActive
  <2>1. PICK st, s : /\ st \in Steps /\ Do(st, s)
                    /\ s \in {<<"read", "standby", "scan">>, <<"read", "standby", "listen", "delay">>}
    BY <1>8, CompoundSteps DEF Attempt, ChannelActive, Scan, Steps
  <2>2. s \in Seq(Steps) /\ \E k \in 1 .. Len(s) : s[k] \in {"scan", "delay"}
    <3>1. CASE s = <<"read", "standby", "scan">>
      <4>1. s \in Seq(Steps) /\ 3 \in 1 .. Len(s) /\ s[3] = "scan"
        BY <3>1 DEF Steps
      <4>. QED
        BY <4>1
    <3>2. CASE s = <<"read", "standby", "listen", "delay">>
      <4>1. s \in Seq(Steps) /\ 4 \in 1 .. Len(s) /\ s[4] = "delay"
        BY <3>2 DEF Steps
      <4>. QED
        BY <4>1
    <3>. QED
      BY <2>1, <3>1, <3>2
  <2>3. Has(s, {"timer", "delay", "scan", "attempt", "startSend"})
    BY <2>2 DEF Has
  <2>. QED
    BY <1>0, <2>1, <2>2, <2>3, DoHas DEF Scheduled
<1>9. CASE ChannelFree
  <2>1. Has(<<"startSend">>, {"timer", "delay", "scan", "attempt", "startSend"})
    BY <1>0
  <2>. QED
    <3>1. Do("scan", <<"startSend">>) /\ <<"startSend">> \in Seq(Steps)
      BY <1>0, <1>9 DEF ChannelFree, Scan
    <3>2. Has(todo', {"timer", "delay", "scan", "attempt", "startSend"})
      BY <1>0, <2>1, <3>1, DoHas, Zenon
    <3>. QED
      BY <3>2 DEF Scheduled
<1>10. ASSUME NEW p \in Packets, StartSend(p)
       PROVE  Scheduled'
  BY <1>10 DEF StartSend, Scheduled
<1>11. ASSUME NEW p \in Packets, StartTransmitFails(p)
       PROVE  FALSE
  BY <1>11 DEF StartTransmitFails, Undisturbed, TypeOK
<1>12. CASE ArmTx
  <2>1. Do("armTx", <<>>) /\ UNCHANGED <<txQueue, chip, notification, sender>> /\ isr' = "ISR_TX"
    BY <1>12 DEF ArmTx, thread, env
  <2>. QED
    BY <1>0, <2>1, KeepsScheduled DEF Pending
<1>13. CASE ChipDone
  <2>1. /\ UNCHANGED <<todo, txQueue, sender>> /\ isr \in {"none", "ISR_RX", "ISR_TX"}
        /\ IF isr = "none" THEN notification' = notification ELSE notification' = isr
    BY <1>13 DEF ChipDone, TypeOK, thread, env
  <2>. QED
    BY <2>1 DEF Scheduled, Pending
<1>14. CASE \/ DelayOver \/ SetTxEnabled \/ UNCHANGED vars
            \/ \E p \in Packets : CancelSending(p) \/ \E task \in Tasks : EnqueueDisabled(task, p)
  <2>1. UNCHANGED <<todo, notification, chip, isr, sender>> /\ (txQueue # {})
    BY <1>14 DEF DelayOver, SetTxEnabled, CancelSending, EnqueueDisabled, vars, radio, thread, env
  <2>. QED
    BY <2>1 DEF Scheduled, Pending
<1>15. CASE \E p \in Packets, task \in Tasks : Enqueue(task, p)
  BY <1>15, RadioAssumption DEF Enqueue, Scheduled
<1>16. CASE Reconfigure
  BY <1>16, RadioAssumption DEF Reconfigure, Undisturbed, TypeOK
<1>17. ASSUME NEW p \in Packets, StartSendDisabled(p)
       PROVE  FALSE
  BY <1>17 DEF StartSendDisabled, Undisturbed, TypeOK
<1>. QED
  BY <1>17, <1>1, <1>2, <1>3, <1>4, <1>5, <1>6, <1>7, <1>8, <1>9, <1>10, <1>11, <1>12, <1>13, <1>14, <1>15, <1>16
     DEF Next, Thread

LEMMA WakefulInv == Spec => [](TypeOK /\ AttendedInv /\ WorkInv)
<1>1. Init => TypeOK /\ AttendedInv /\ WorkInv
  <2>1. Init => AttendedInv
    BY DEF Init, AttendedInv, ListenOK, StillOK, Led, Awake, Listening
  <2>2. Init => WorkInv
    BY DEF Init, WorkInv, Led
  <2>. QED
    BY <2>1, <2>2, InitTypeOK
<1>2. TypeOK /\ AttendedInv /\ WorkInv /\ [Next]_vars => (TypeOK /\ AttendedInv /\ WorkInv)'
  <2>. SUFFICES ASSUME TypeOK, AttendedInv, WorkInv, [Next]_vars
                PROVE  (TypeOK /\ AttendedInv /\ WorkInv)'
    OBVIOUS
  <2>1. TypeOK'
    BY TypeStep
  <2>2. AttendedInv'
    BY StackMoves, AwakeStep DEF AttendedInv
  <2>3. WorkInv'
    BY StillDisturbed, StackMoves, ScheduledStep DEF AttendedInv, WorkInv
  <2>. QED
    BY <2>1, <2>2, <2>3
<1>. QED
  BY <1>1, <1>2, PTL DEF Spec

(* A thread with nothing to do left the radio where an interrupt wakes it,  *)
(* however handlers nested and whichever tasks called, unless a notification *)
(* came between the two steps of checkNotification or a packet was dropped   *)
(* because transmitting was disabled after it was queued.                    *)
THEOREM RadioAttended == Spec => []Attended
<1>1. TypeOK /\ AttendedInv /\ WorkInv => Attended
  <2>1. todo = <<>> => ~ Has(todo, {"listen", "scan", "startSend"})
    BY DEF Has
  <2>. QED
    BY <2>1 DEF AttendedInv, Awake, Attended, Idle, Pending, Woken, Listening, Sending, Stalled
<1>. QED
  BY <1>1, WakefulInv, PTL

(* While packets wait, a delay is under way or a transmission that ends, but *)
(* for a reconfiguration, a transmission refused or a packet dropped.        *)
THEOREM RadioWorkScheduled == Spec => []WorkScheduled
<1>1. TypeOK /\ AttendedInv /\ WorkInv => WorkScheduled
  <2>1. todo = <<>> => ~ Has(todo, {"timer", "delay", "scan", "attempt", "startSend"})
    BY DEF Has
  <2>. QED
    BY <2>1 DEF WorkInv, Scheduled, WorkScheduled, Idle
<1>. QED
  BY <1>1, WakefulInv, PTL
=============================================================================
