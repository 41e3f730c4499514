---------------------------- MODULE RouterProofs ----------------------------
(***************************************************************************)
(* Lemmas about the operators of PacketQueueOps and Router, for every       *)
(* queue, node, packet and state: what a function of the router returns,    *)
(* preserves and bounds.  They are what the proofs about the queue on its   *)
(* own and about the mesh rest on.                                          *)
(***************************************************************************)
EXTENDS Router, WellFoundedInduction, SequenceTheorems, FiniteSetTheorems, TLAPS

(* A nonempty set of naturals has a least element. *)
LEMMA LeastNat ==
  ASSUME NEW T, T \subseteq Nat, T # {}
  PROVE  \E x \in T : \A y \in T : x <= y
<1>1. PICK x \in T : \A y \in T : <<y, x>> \notin OpToRel(<, Nat)
  BY NatLessThanWellFounded, WFMin, Zenon
<1>2. \A y \in Nat, z \in Nat : y < z => <<y, z>> \in OpToRel(<, Nat)
  BY Zenon DEF OpToRel
<1>3. \A y \in T : ~ (y < x)
  BY <1>1, <1>2, Zenon
<1>. QED
  BY <1>3, SMT

(* A contiguous part of a sequence, position by position. *)
LEMMA SubSeqElements ==
  ASSUME NEW S, NEW q \in Seq(S), NEW m \in Nat \ {0}, NEW n \in Nat, n <= Len(q),
         m <= n + 1
  PROVE  /\ SubSeq(q, m, n) \in Seq(S)
         /\ Len(SubSeq(q, m, n)) = n - m + 1
         /\ \A i \in 1 .. n - m + 1 : SubSeq(q, m, n)[i] = q[m + i - 1]
<1>1. \A i \in m .. n : q[i] \in S
  BY ElementOfSeq, LenProperties, SMT
<1>. QED
  BY <1>1, SubSeqProperties, SMT

(* What InsertAt returns, position by position. *)
LEMMA InsertAtElements ==
  ASSUME NEW S, NEW q \in Seq(S), NEW e \in S, NEW i \in 1 .. Len(q) + 1
  PROVE  /\ InsertAt(q, i, e) \in Seq(S)
         /\ Len(InsertAt(q, i, e)) = Len(q) + 1
         /\ \A k \in 1 .. Len(q) + 1 :
              InsertAt(q, i, e)[k] = IF k < i THEN q[k]
                                     ELSE IF k = i THEN e ELSE q[k - 1]
<1> DEFINE a == SubSeq(q, 1, i - 1)
           b == <<e>>
           c == SubSeq(q, i, Len(q))
<1>0. Len(q) \in Nat
  BY LenProperties
<1>1. /\ a \in Seq(S)
      /\ Len(a) = i - 1
      /\ \A k \in 1 .. i - 1 : a[k] = q[k]
  BY <1>0, SubSeqElements, SMT
<1>2. /\ c \in Seq(S)
      /\ Len(c) = Len(q) - i + 1
      /\ \A k \in 1 .. Len(q) - i + 1 : c[k] = q[i + k - 1]
  BY <1>0, SubSeqElements, SMT
<1>3. b \in Seq(S) /\ Len(b) = 1 /\ b[1] = e
  BY SMT
<1> DEFINE ab == a \o b
           abc == ab \o c
<1> HIDE DEF a, b, c
<1>4. /\ ab \in Seq(S)
      /\ Len(ab) = Len(a) + Len(b)
      /\ \A k \in 1 .. Len(a) + Len(b) :
           ab[k] = IF k <= Len(a) THEN a[k] ELSE b[k - Len(a)]
  BY <1>1, <1>3, ConcatProperties, Zenon
<1>c. c \in Seq(S)
  BY <1>2, Zenon
<1>ab. ab \in Seq(S)
  BY <1>4, Zenon
<1> HIDE DEF ab
<1>5. /\ abc \in Seq(S)
      /\ Len(abc) = Len(ab) + Len(c)
      /\ \A k \in 1 .. Len(ab) + Len(c) :
           abc[k] = IF k <= Len(ab) THEN ab[k] ELSE c[k - Len(ab)]
  BY <1>c, <1>ab, ConcatProperties, Zenon
<1> HIDE DEF abc
<1>6. /\ Len(ab) = i
      /\ \A k \in 1 .. i : ab[k] = IF k < i THEN q[k] ELSE e
  BY <1>1, <1>3, <1>4, SMT
<1>7. /\ Len(abc) = Len(q) + 1
      /\ \A k \in 1 .. Len(q) + 1 :
           abc[k] = IF k < i THEN q[k] ELSE IF k = i THEN e ELSE q[k - 1]
  <2>1. ASSUME NEW k \in 1 .. Len(q) + 1, k > i
        PROVE  abc[k] = q[k - 1]
    <3>1. abc[k] = c[k - i] /\ k - i \in 1 .. Len(q) - i + 1
      BY <1>0, <1>2, <1>5, <1>6, <2>1, SMT
    <3>. QED
      BY <1>0, <1>2, <3>1, <2>1, SMT
  <2>. QED
    BY <1>0, <1>2, <1>5, <1>6, <2>1, SMT
<1>. QED
  BY <1>5, <1>7, Zenon DEF InsertAt, a, b, c, ab, abc

(* What RemoveAt returns, position by position. *)
LEMMA RemoveAtElements ==
  ASSUME NEW S, NEW q \in Seq(S), NEW i \in 1 .. Len(q)
  PROVE  /\ RemoveAt(q, i) \in Seq(S)
         /\ Len(RemoveAt(q, i)) = Len(q) - 1
         /\ \A k \in 1 .. Len(q) - 1 :
              RemoveAt(q, i)[k] = IF k < i THEN q[k] ELSE q[k + 1]
<1> DEFINE a == SubSeq(q, 1, i - 1)
           c == SubSeq(q, i + 1, Len(q))
<1>0. Len(q) \in Nat
  BY LenProperties
<1>1. /\ a \in Seq(S)
      /\ Len(a) = i - 1
      /\ \A k \in 1 .. i - 1 : a[k] = q[k]
  BY <1>0, SubSeqElements, SMT
<1>2. /\ c \in Seq(S)
      /\ Len(c) = Len(q) - i
      /\ \A k \in 1 .. Len(q) - i : c[k] = q[i + k]
  BY <1>0, SubSeqElements, SMT
<1> DEFINE ac == a \o c
<1> HIDE DEF a, c
<1>3. /\ ac \in Seq(S)
      /\ Len(ac) = Len(a) + Len(c)
      /\ \A k \in 1 .. Len(a) + Len(c) :
           ac[k] = IF k <= Len(a) THEN a[k] ELSE c[k - Len(a)]
  BY <1>1, <1>2, ConcatProperties, Zenon
<1> HIDE DEF ac
<1>4. /\ Len(ac) = Len(q) - 1
      /\ \A k \in 1 .. Len(q) - 1 : ac[k] = IF k < i THEN q[k] ELSE q[k + 1]
  BY <1>0, <1>1, <1>2, <1>3, SMT
<1>. QED
  BY <1>3, <1>4, Zenon DEF RemoveAt, a, c, ac

(* upper_bound is always defined: the position a packet is inserted at. *)
LEMMA UpperBoundPosition ==
  ASSUME NEW S, NEW q \in Seq(S), NEW us, NEW p
  PROVE  /\ UpperBound(us, q, p) \in 1 .. Len(q) + 1
         /\ \A j \in 1 .. UpperBound(us, q, p) - 1 : ~ Precedes(us, p, q[j])
         /\ UpperBound(us, q, p) <= Len(q)
              => Precedes(us, p, q[UpperBound(us, q, p)])
<1> DEFINE T == {i \in 1 .. Len(q) + 1 : i <= Len(q) => Precedes(us, p, q[i])}
           IsBound(i) == /\ \A j \in 1 .. i - 1 : ~ Precedes(us, p, q[j])
                         /\ i <= Len(q) => Precedes(us, p, q[i])
<1>0. Len(q) \in Nat
  BY LenProperties
<1>1. T \subseteq Nat /\ T # {}
  <2>1. Len(q) + 1 \in T
    BY <1>0, SMT
  <2>. QED
    BY <1>0, <2>1, SMT
<1>2. PICK i \in T : \A j \in T : i <= j
  <2> HIDE DEF T
  <2>. QED
    BY <1>1, LeastNat, Zenon
<1>3. i \in 1 .. Len(q) + 1 /\ IsBound(i)
  BY <1>0, <1>2, SMT
<1> HIDE DEF IsBound
<1>4. UpperBound(us, q, p) = CHOOSE k \in 1 .. Len(q) + 1 : IsBound(k)
  BY Zenon DEF UpperBound, IsBound
<1>5. UpperBound(us, q, p) \in 1 .. Len(q) + 1 /\ IsBound(UpperBound(us, q, p))
  BY <1>3, <1>4, Zenon
<1>. QED
  BY <1>5, Zenon DEF IsBound

(* Every packet of r stands in q, and any two of them in the same order. *)
Embeds(r, q) ==
  /\ \A i \in 1 .. Len(r) : \E m \in 1 .. Len(q) : r[i] = q[m]
  /\ \A i, j \in 1 .. Len(r) :
       i < j => \E m, n \in 1 .. Len(q) : m < n /\ r[i] = q[m] /\ r[j] = q[n]

(* r is made of packets of q, in their order, and of p, which stands after
   what it must not precede and before what it must. *)
EmbedsWith(us, r, q, p) ==
  /\ \A i \in 1 .. Len(r) : r[i] = p \/ \E m \in 1 .. Len(q) : r[i] = q[m]
  /\ \A i, j \in 1 .. Len(r) :
       i < j =>
         \/ \E m, n \in 1 .. Len(q) : m < n /\ r[i] = q[m] /\ r[j] = q[n]
         \/ /\ r[j] = p /\ ~ Precedes(us, p, r[i])
            /\ \E m \in 1 .. Len(q) : r[i] = q[m]
         \/ /\ r[i] = p /\ Precedes(us, p, r[j])
            /\ \E m \in 1 .. Len(q) : r[j] = q[m]

(* Removing one packet, from whatever place, leaves the others as they stood. *)
LEMMA RemoveAtEmbeds ==
  ASSUME NEW S, NEW q \in Seq(S), NEW i \in 1 .. Len(q)
  PROVE  Embeds(RemoveAt(q, i), q)
<1> DEFINE r == RemoveAt(q, i)
           g(x) == IF x < i THEN x ELSE x + 1
<1>0. Len(q) \in Nat
  BY LenProperties
<1>1. /\ Len(r) = Len(q) - 1
      /\ \A k \in 1 .. Len(q) - 1 : r[k] = IF k < i THEN q[k] ELSE q[k + 1]
  BY RemoveAtElements
<1> HIDE DEF r
<1>2. \A k \in 1 .. Len(r) : g(k) \in 1 .. Len(q) /\ r[k] = q[g(k)]
  BY <1>0, <1>1, SMT
<1>3. \A j, k \in 1 .. Len(r) : j < k => g(j) < g(k)
  BY <1>0, <1>1, SMT
<1> HIDE DEF g
<1>. QED
  BY <1>2, <1>3, Zenon DEF r, Embeds

(* ... and so does removing the last packet ... *)
LEMMA FrontEmbeds ==
  ASSUME NEW S, NEW q \in Seq(S), q # <<>>
  PROVE  /\ Front(q) \in Seq(S)
         /\ Len(Front(q)) = Len(q) - 1
         /\ Embeds(Front(q), q)
<1> DEFINE m == Len(q) - 1
           f == SubSeq(q, 1, m)
<1>0. Len(q) \in Nat /\ Len(q) >= 1
  BY LenProperties, EmptySeq, SMT
<1>1. m \in Nat /\ m <= Len(q) /\ 1 <= m + 1 /\ 1 \in Nat \ {0}
  BY <1>0, SMT
<1>m. Len(q) = m + 1
  BY <1>0, SMT
<1> HIDE DEF m
<1>2. /\ f \in Seq(S)
      /\ Len(f) = m - 1 + 1
      /\ \A k \in 1 .. m - 1 + 1 : f[k] = q[1 + k - 1]
  BY <1>1, SubSeqElements, SMT
<1> HIDE DEF f
<1>3. Len(f) = m /\ \A k \in 1 .. m : f[k] = q[k]
  BY <1>1, <1>2, SMT
<1>4. \A k \in 1 .. Len(f) : k \in 1 .. Len(q) /\ f[k] = q[k]
  BY <1>1, <1>m, <1>3, SMT
<1>5. Embeds(f, q)
  BY <1>4, Zenon DEF Embeds
<1>. QED
  BY <1>2, <1>3, <1>5, Zenon DEF Front, f, m

(* ... or the first. *)
LEMMA TailEmbeds ==
  ASSUME NEW S, NEW q \in Seq(S), q # <<>>
  PROVE  /\ Tail(q) \in Seq(S)
         /\ Len(Tail(q)) = Len(q) - 1
         /\ Embeds(Tail(q), q)
<1> DEFINE r == Tail(q)
           g(x) == x + 1
<1>0. Len(q) \in Nat
  BY LenProperties
<1>1. r \in Seq(S) /\ Len(r) = Len(q) - 1 /\ \A k \in 1 .. Len(r) : r[k] = q[k + 1]
  BY HeadTailProperties
<1> HIDE DEF r
<1>2. \A k \in 1 .. Len(r) : g(k) \in 1 .. Len(q) /\ r[k] = q[g(k)]
  BY <1>0, <1>1, SMT
<1>3. \A j, k \in 1 .. Len(r) : j < k => g(j) < g(k)
  BY <1>0, <1>1, SMT
<1> HIDE DEF g
<1>4. Embeds(r, q)
  BY <1>2, <1>3, Zenon DEF Embeds
<1>. QED
  BY <1>1, <1>4, Zenon DEF r

(* IndexOf is 0 or an index of the queue. *)
LEMMA IndexOfRange ==
  ASSUME NEW S, NEW q \in Seq(S), NEW from, NEW id
  PROVE  IndexOf(q, from, id) \in 0 .. Len(q)
<1> DEFINE I == {i \in 1 .. Len(q) : q[i].from = from /\ q[i].id = id}
<1>0. Len(q) \in Nat
  BY LenProperties
<1>1. IndexOf(q, from, id) = IF I # {} THEN Min(I) ELSE 0
  BY Zenon DEF IndexOf, SelectInSeq
<1>2. ASSUME I # {}
      PROVE  Min(I) \in I
  <2>1. I \subseteq Nat
    BY <1>0, SMT
  <2> HIDE DEF I
  <2>2. \E x \in I : \A y \in I : x <= y
    BY <1>2, <2>1, LeastNat, Zenon
  <2>. QED
    BY <2>2, Zenon DEF Min
<1>. QED
  BY <1>0, <1>1, <1>2, SMT

(* remove: the queue gets no longer, and what is left stands as it stood. *)
LEMMA RemovePacketEmbeds ==
  ASSUME NEW S, NEW q \in Seq(S), NEW from, NEW id
  PROVE  /\ RemovePacket(q, from, id) \in Seq(S)
         /\ Len(RemovePacket(q, from, id)) <= Len(q)
         /\ Embeds(RemovePacket(q, from, id), q)
<1>0. Len(q) \in Nat
  BY LenProperties
<1>1. CASE IndexOf(q, from, id) = 0
  <2>1. RemovePacket(q, from, id) = q
    BY <1>1, Zenon DEF RemovePacket
  <2>2. Embeds(q, q)
    BY Zenon DEF Embeds
  <2>. QED
    BY <1>0, <2>1, <2>2, SMT
<1>2. CASE IndexOf(q, from, id) # 0
  <2>1. IndexOf(q, from, id) \in 1 .. Len(q)
    BY <1>0, <1>2, IndexOfRange, SMT
  <2>2. RemovePacket(q, from, id) = RemoveAt(q, IndexOf(q, from, id))
    BY <1>2, Zenon DEF RemovePacket
  <2>3. /\ RemoveAt(q, IndexOf(q, from, id)) \in Seq(S)
        /\ Len(RemoveAt(q, IndexOf(q, from, id))) = Len(q) - 1
    BY <2>1, RemoveAtElements, Zenon
  <2>4. Embeds(RemoveAt(q, IndexOf(q, from, id)), q)
    BY <2>1, RemoveAtEmbeds, Zenon
  <2>. QED
    BY <1>0, <2>2, <2>3, <2>4, SMT
<1>. QED
  BY <1>1, <1>2

(* Inserting at the upper bound of a queue in order: one more packet, and the
   new one stands where its order with each of the others puts it. *)
LEMMA InsertEmbedsWith ==
  ASSUME NEW S, \A e \in S : e.prio \in Nat,
         NEW q \in Seq(S), NEW us, NEW p \in S, InOrder(us, q)
  PROVE  /\ InsertInOrder(us, q, p) \in Seq(S)
         /\ Len(InsertInOrder(us, q, p)) = Len(q) + 1
         /\ EmbedsWith(us, InsertInOrder(us, q, p), q, p)
<1> DEFINE n == UpperBound(us, q, p)
           r == InsertAt(q, n, p)
           g(x) == IF x < n THEN x ELSE x - 1
<1>0. Len(q) \in Nat /\ \A k \in 1 .. Len(q) : q[k] \in S
  BY LenProperties, ElementOfSeq
<1>1. /\ n \in 1 .. Len(q) + 1
      /\ \A j \in 1 .. n - 1 : ~ Precedes(us, p, q[j])
      /\ n <= Len(q) => Precedes(us, p, q[n])
  BY UpperBoundPosition, Zenon
<1> HIDE DEF n
<1>n. n \in 1 .. Len(q) + 1
  BY <1>1
<1>2. /\ r \in Seq(S)
      /\ Len(r) = Len(q) + 1
      /\ \A k \in 1 .. Len(q) + 1 :
           r[k] = IF k < n THEN q[k] ELSE IF k = n THEN p ELSE q[k - 1]
  BY <1>n, InsertAtElements
<1> HIDE DEF r
<1>3. \A k \in 1 .. Len(r) : k # n => g(k) \in 1 .. Len(q) /\ r[k] = q[g(k)]
  BY <1>0, <1>n, <1>2, SMT
<1>4. \A j, k \in 1 .. Len(r) : j < k /\ j # n /\ k # n => g(j) < g(k)
  BY <1>0, <1>n, <1>2, SMT
<1>5. r[n] = p
  BY <1>0, <1>n, <1>2, SMT
<1>6. \A k \in 1 .. Len(r) : k < n => ~ Precedes(us, p, r[k])
  <2>1. \A k \in 1 .. Len(r) : k < n => k \in 1 .. n - 1 /\ r[k] = q[k]
    BY <1>0, <1>n, <1>2, SMT
  <2>. QED
    BY <1>1, <2>1, Zenon
<1>7. ASSUME NEW k \in 1 .. Len(r), k > n
      PROVE  Precedes(us, p, r[k])
  <2>1. n <= Len(q) /\ r[k] = q[k - 1] /\ k - 1 \in n .. Len(q)
    BY <1>0, <1>n, <1>2, <1>7, SMT
  <2>2. Precedes(us, p, q[n]) /\ (k - 1 = n \/ ~ Precedes(us, q[k - 1], q[n]))
    BY <1>0, <1>1, <2>1, SMT DEF InOrder
  <2>3. p.prio \in Nat /\ q[n].prio \in Nat /\ q[k - 1].prio \in Nat
    BY <1>0, <1>n, <2>1, SMT
  <2>. QED
    BY <2>1, <2>2, <2>3, SMT DEF Precedes
<1>8. \A j, k \in 1 .. Len(r) : j < k => (k = n => j # n /\ j < n) /\ (j = n => k # n /\ k > n)
  BY <1>0, <1>n, <1>2, SMT
<1> HIDE DEF g
<1>9. EmbedsWith(us, r, q, p)
  <2>1. \A i \in 1 .. Len(r) : r[i] = p \/ \E m \in 1 .. Len(q) : r[i] = q[m]
    BY <1>3, <1>5, Zenon
  <2>2. ASSUME NEW i \in 1 .. Len(r), NEW j \in 1 .. Len(r), i < j
        PROVE  \/ \E m, k \in 1 .. Len(q) : m < k /\ r[i] = q[m] /\ r[j] = q[k]
               \/ /\ r[j] = p /\ ~ Precedes(us, p, r[i])
                  /\ \E m \in 1 .. Len(q) : r[i] = q[m]
               \/ /\ r[i] = p /\ Precedes(us, p, r[j])
                  /\ \E m \in 1 .. Len(q) : r[j] = q[m]
    <3>1. CASE j = n
      BY <1>3, <1>5, <1>6, <1>8, <2>2, <3>1, Zenon
    <3>2. CASE i = n
      BY <1>3, <1>5, <1>7, <1>8, <2>2, <3>2, Zenon
    <3>3. CASE i # n /\ j # n
      BY <1>3, <1>4, <2>2, <3>3, Zenon
    <3>. QED
      BY <3>1, <3>2, <3>3
  <2>. QED
    BY <2>1, <2>2, Zenon DEF EmbedsWith
<1>. QED
  BY <1>2, <1>9, Zenon DEF InsertInOrder, r, n

(* The two relations compose. *)
LEMMA EmbedsWithTransitive ==
  ASSUME NEW us, NEW r, NEW f, NEW q, NEW p,
         EmbedsWith(us, r, f, p), Embeds(f, q)
  PROVE  EmbedsWith(us, r, q, p)
<1>f. \A m \in 1 .. Len(f) : \E k \in 1 .. Len(q) : f[m] = q[k]
  BY Zenon DEF Embeds
<1>r. \A i \in 1 .. Len(r) : r[i] = p \/ \E m \in 1 .. Len(f) : r[i] = f[m]
  BY Zenon DEF EmbedsWith
<1>1. \A i \in 1 .. Len(r) : r[i] = p \/ \E m \in 1 .. Len(q) : r[i] = q[m]
  BY <1>f, <1>r, Zenon
<1>2. ASSUME NEW i \in 1 .. Len(r), NEW j \in 1 .. Len(r), i < j
      PROVE  \/ \E m, k \in 1 .. Len(q) : m < k /\ r[i] = q[m] /\ r[j] = q[k]
             \/ /\ r[j] = p /\ ~ Precedes(us, p, r[i])
                /\ \E m \in 1 .. Len(q) : r[i] = q[m]
             \/ /\ r[i] = p /\ Precedes(us, p, r[j])
                /\ \E m \in 1 .. Len(q) : r[j] = q[m]
  <2>1. CASE \E m, k \in 1 .. Len(f) : m < k /\ r[i] = f[m] /\ r[j] = f[k]
    <3>1. PICK m \in 1 .. Len(f), k \in 1 .. Len(f) :
            m < k /\ r[i] = f[m] /\ r[j] = f[k]
      BY <2>1
    <3>2. \E x, y \in 1 .. Len(q) : x < y /\ f[m] = q[x] /\ f[k] = q[y]
      BY <3>1, Zenon DEF Embeds
    <3>. QED
      BY <3>1, <3>2, Zenon
  <2>2. CASE /\ r[j] = p /\ ~ Precedes(us, p, r[i])
             /\ \E m \in 1 .. Len(f) : r[i] = f[m]
    BY <2>2, <1>f, Zenon
  <2>3. CASE /\ r[i] = p /\ Precedes(us, p, r[j])
             /\ \E m \in 1 .. Len(f) : r[j] = f[m]
    BY <2>3, <1>f, Zenon
  <2>. QED
    BY <1>2, <2>1, <2>2, <2>3, Zenon DEF EmbedsWith
<1>. QED
  BY <1>1, <1>2, Zenon DEF EmbedsWith

(* enqueue on a queue in order: it stays within its capacity, and is made of
   what it held and of the new packet. *)
LEMMA EnqueueEmbedsWith ==
  ASSUME NEW S, \A e \in S : e.prio \in Nat,
         NEW q \in Seq(S), NEW us, NEW p \in S, NEW maxLen \in Nat,
         Len(q) <= maxLen, InOrder(us, q)
  PROVE  /\ Enqueue(us, q, p, maxLen) \in Seq(S)
         /\ Len(Enqueue(us, q, p, maxLen)) <= maxLen
         /\ EmbedsWith(us, Enqueue(us, q, p, maxLen), q, p)
<1>0. Len(q) \in Nat
  BY LenProperties
<1>1. CASE Len(q) < maxLen
  <2>1. Enqueue(us, q, p, maxLen) = InsertInOrder(us, q, p)
    BY <1>1, Zenon DEF Enqueue
  <2>2. /\ InsertInOrder(us, q, p) \in Seq(S)
        /\ Len(InsertInOrder(us, q, p)) = Len(q) + 1
        /\ EmbedsWith(us, InsertInOrder(us, q, p), q, p)
    BY InsertEmbedsWith, Zenon
  <2>3. Len(q) + 1 <= maxLen
    BY <1>0, <1>1, SMT
  <2>. QED
    BY <2>1, <2>2, <2>3, Zenon
<1>2. CASE ~ (Len(q) < maxLen) /\ CanReplace(q, p)
  <2>1. Enqueue(us, q, p, maxLen) = InsertInOrder(us, Front(q), p)
    BY <1>2, Zenon DEF Enqueue
  <2>2. q # <<>>
    BY <1>2 DEF CanReplace
  <2>3. /\ Front(q) \in Seq(S)
        /\ Len(Front(q)) = Len(q) - 1
        /\ Embeds(Front(q), q)
    BY <2>2, FrontEmbeds, Zenon
  <2>4. InOrder(us, Front(q))
    BY <2>3, Zenon DEF InOrder, Embeds
  <2>5. /\ InsertInOrder(us, Front(q), p) \in Seq(S)
        /\ Len(InsertInOrder(us, Front(q), p)) = Len(Front(q)) + 1
        /\ EmbedsWith(us, InsertInOrder(us, Front(q), p), Front(q), p)
    BY <2>3, <2>4, InsertEmbedsWith, Zenon
  <2>6. EmbedsWith(us, InsertInOrder(us, Front(q), p), q, p)
    BY <2>3, <2>5, EmbedsWithTransitive, Zenon
  <2>7. Len(q) - 1 + 1 <= maxLen
    BY <1>0, SMT
  <2>. QED
    BY <2>1, <2>3, <2>5, <2>6, <2>7, Zenon
<1>3. CASE ~ (Len(q) < maxLen) /\ ~ CanReplace(q, p)
  <2>1. Enqueue(us, q, p, maxLen) = q
    BY <1>3, Zenon DEF Enqueue
  <2>2. EmbedsWith(us, q, q, p)
    BY Zenon DEF EmbedsWith
  <2>. QED
    BY <2>1, <2>2, Zenon
<1>. QED
  BY <1>1, <1>2, <1>3

(* Both ways a queue changes keep it in order. *)
LEMMA EmbedsInOrder ==
  ASSUME NEW us, NEW q, NEW r, InOrder(us, q), Embeds(r, q)
  PROVE  InOrder(us, r)
  BY Zenon DEF InOrder, Embeds

LEMMA EmbedsWithInOrder ==
  ASSUME NEW S, \A e \in S : e.prio \in Nat,
         NEW q \in Seq(S), NEW us, NEW p \in S, NEW r,
         InOrder(us, q), EmbedsWith(us, r, q, p)
  PROVE  InOrder(us, r)
<1>1. \A x, y \in S : Precedes(us, x, y) => ~ Precedes(us, y, x)
  BY SMT DEF Precedes
<1>2. \A k \in 1 .. Len(q) : q[k] \in S
  BY LenProperties, ElementOfSeq
<1>3. SUFFICES ASSUME NEW i \in 1 .. Len(r), NEW j \in 1 .. Len(r), i < j
               PROVE  ~ Precedes(us, r[j], r[i])
  BY Zenon DEF InOrder
<1>4. CASE \E m, n \in 1 .. Len(q) : m < n /\ r[i] = q[m] /\ r[j] = q[n]
  BY <1>4, Zenon DEF InOrder
<1>5. CASE r[j] = p /\ ~ Precedes(us, p, r[i])
  BY <1>5
<1>6. CASE /\ r[i] = p /\ Precedes(us, p, r[j])
           /\ \E m \in 1 .. Len(q) : r[j] = q[m]
  BY <1>1, <1>2, <1>6, Zenon
<1>. QED
  BY <1>3, <1>4, <1>5, <1>6, Zenon DEF EmbedsWith

(* Insertion loses nothing and adds one packet. *)
LEMMA InsertKeeps ==
  ASSUME NEW S, NEW q \in Seq(S), NEW us, NEW p \in S,
         NEW r, r = InsertInOrder(us, q, p)
  PROVE  /\ r \in Seq(S)
         /\ \A k \in 1 .. Len(q) : \E i \in 1 .. Len(r) : r[i] = q[k]
         /\ \A i \in 1 .. Len(r) : r[i] = p \/ \E k \in 1 .. Len(q) : r[i] = q[k]
<1>1. PICK u \in 1 .. Len(q) + 1 : u = UpperBound(us, q, p)
  BY UpperBoundPosition
<1>2. r = InsertAt(q, u, p)
  BY <1>1 DEF InsertInOrder
<1>3. /\ r \in Seq(S) /\ Len(r) = Len(q) + 1
      /\ \A k \in 1 .. Len(q) + 1 :
           r[k] = IF k < u THEN q[k] ELSE IF k = u THEN p ELSE q[k - 1]
  <2>1. /\ InsertAt(q, u, p) \in Seq(S) /\ Len(InsertAt(q, u, p)) = Len(q) + 1
        /\ \A k \in 1 .. Len(q) + 1 :
             InsertAt(q, u, p)[k] = IF k < u THEN q[k] ELSE IF k = u THEN p ELSE q[k - 1]
    BY <1>1, InsertAtElements
  <2>. QED
    BY <1>2, <2>1
<1>4. Len(q) \in Nat
  BY LenProperties
<1>5. \A k \in 1 .. Len(q) : \E i \in 1 .. Len(r) : r[i] = q[k]
  <2>1. SUFFICES ASSUME NEW k \in 1 .. Len(q)
                 PROVE  \E i \in 1 .. Len(r) : r[i] = q[k]
    OBVIOUS
  <2>2. CASE k < u
    <3>1. k \in 1 .. Len(q) + 1 /\ k \in 1 .. Len(r)
      BY <1>3, <1>4, SMT
    <3>. QED
      BY <1>3, <2>2, <3>1
  <2>3. CASE ~ (k < u)
    <3>1. k + 1 \in 1 .. Len(q) + 1 /\ k + 1 \in 1 .. Len(r) /\ ~ (k + 1 < u) /\ k + 1 # u
          /\ (k + 1) - 1 = k
      BY <1>1, <1>3, <1>4, <2>3, SMT
    <3>2. r[k + 1] = q[k]
      BY <1>3, <3>1
    <3>. QED
      BY <3>1, <3>2
  <2>. QED
    BY <2>2, <2>3
<1>6. \A i \in 1 .. Len(r) : r[i] = p \/ \E k \in 1 .. Len(q) : r[i] = q[k]
  <2>1. SUFFICES ASSUME NEW i \in 1 .. Len(r), r[i] # p
                 PROVE  \E k \in 1 .. Len(q) : r[i] = q[k]
    OBVIOUS
  <2>2. i \in 1 .. Len(q) + 1 /\ i # u
    BY <1>3, <2>1
  <2>3. CASE i < u
    <3>1. i \in 1 .. Len(q)
      BY <1>1, <1>4, <2>2, <2>3, SMT
    <3>. QED
      BY <1>3, <2>2, <2>3, <3>1
  <2>4. CASE ~ (i < u)
    <3>1. i - 1 \in 1 .. Len(q)
      BY <1>1, <1>4, <2>2, <2>4, SMT
    <3>. QED
      BY <1>3, <2>2, <2>4, <3>1
  <2>. QED
    BY <2>3, <2>4
<1>. QED
  BY <1>3, <1>5, <1>6

(* The packets of a queue, by their places. *)
LEMMA Places ==
  ASSUME NEW S, NEW q \in Seq(S)
  PROVE  \A p : p \in ToSet(q) <=> \E i \in 1 .. Len(q) : p = q[i]
  BY LenProperties DEF ToSet

----------------------------------------------------------------------------
(* How many packets of one origin and id the queue holds. *)
PlacesOf(q, from, id) == {i \in 1 .. Len(q) : q[i].from = from /\ q[i].id = id}

LEMMA InjectionBounds ==
  ASSUME NEW A, NEW B, IsFiniteSet(B), NEW f \in [A -> B],
         \A x, y \in A : f[x] = f[y] => x = y
  PROVE  IsFiniteSet(A) /\ Cardinality(A) <= Cardinality(B)
<1>1. f \in Injection(A, B)
  BY Zenon DEF Injection, IsInjective
<1>. QED
  BY <1>1, FS_Injection

LEMMA CopiesFinite ==
  ASSUME NEW S, NEW q \in Seq(S), NEW from, NEW id
  PROVE  IsFiniteSet(PlacesOf(q, from, id)) /\ Cardinality(PlacesOf(q, from, id)) \in Nat
<1>1. IsFiniteSet(1 .. Len(q))
  BY LenProperties, FS_Interval, SMT
<1>2. PlacesOf(q, from, id) \in SUBSET (1 .. Len(q))
  BY DEF PlacesOf
<1>. QED
  BY <1>1, <1>2, FS_Subset, FS_CardinalityType

(* The places of r but u answer to different places of q. *)
ButOne(q, r, f, u) ==
  /\ u \in 1 .. Len(r) /\ f \in [1 .. Len(r) -> Nat]
  /\ \A i, j \in 1 .. Len(r) : i # u /\ j # u /\ f[i] = f[j] => i = j
  /\ \A i \in 1 .. Len(r) : i # u => f[i] \in 1 .. Len(q) /\ r[i] = q[f[i]]

LEMMA CopiesButOne ==
  ASSUME NEW S, NEW q \in Seq(S), NEW r \in Seq(S), NEW from, NEW id, NEW u, NEW f,
         ButOne(q, r, f, u)
  PROVE  Cardinality(PlacesOf(r, from, id))
           <= Cardinality(PlacesOf(q, from, id)) + (IF r[u].from = from /\ r[u].id = id THEN 1 ELSE 0)
<1> DEFINE A == PlacesOf(r, from, id)
           B == PlacesOf(q, from, id)
           g == [i \in A \ {u} |-> f[i]]
<1>1. IsFiniteSet(A) /\ IsFiniteSet(B) /\ Cardinality(A) \in Nat /\ Cardinality(B) \in Nat
  BY CopiesFinite
<1>2. A \subseteq 1 .. Len(r) /\ (u \in A <=> r[u].from = from /\ r[u].id = id)
  BY DEF PlacesOf, ButOne
<1>3. \A i \in A \ {u} : f[i] \in B
  BY DEF PlacesOf, ButOne
<1>4. g \in [A \ {u} -> B] /\ \A i, j \in A \ {u} : g[i] = g[j] => i = j
  BY <1>2, <1>3 DEF ButOne
<1> HIDE DEF A, B, g
<1>5. Cardinality(A \ {u}) <= Cardinality(B)
  BY <1>1, <1>4, InjectionBounds
<1>6. Cardinality(A \ {u}) = IF u \in A THEN Cardinality(A) - 1 ELSE Cardinality(A)
  BY <1>1, FS_RemoveElement
<1>7. Cardinality(A) <= Cardinality(B) + (IF u \in A THEN 1 ELSE 0)
  BY <1>1, <1>5, <1>6, SMT
<1>. QED
  BY <1>2, <1>7 DEF A, B

LEMMA InsertCopies ==
  ASSUME NEW S, NEW q \in Seq(S), NEW us, NEW p \in S, NEW r, r = InsertInOrder(us, q, p),
         NEW from, NEW id
  PROVE  Cardinality(PlacesOf(r, from, id))
           <= Cardinality(PlacesOf(q, from, id)) + (IF p.from = from /\ p.id = id THEN 1 ELSE 0)
<1>1. PICK u \in 1 .. Len(q) + 1 : u = UpperBound(us, q, p)
  BY UpperBoundPosition
<1>2. r = InsertAt(q, u, p)
  BY <1>1 DEF InsertInOrder
<1>3. /\ r \in Seq(S) /\ Len(r) = Len(q) + 1
      /\ \A k \in 1 .. Len(q) + 1 :
           r[k] = IF k < u THEN q[k] ELSE IF k = u THEN p ELSE q[k - 1]
  <2>1. /\ InsertAt(q, u, p) \in Seq(S) /\ Len(InsertAt(q, u, p)) = Len(q) + 1
        /\ \A k \in 1 .. Len(q) + 1 :
             InsertAt(q, u, p)[k] = IF k < u THEN q[k] ELSE IF k = u THEN p ELSE q[k - 1]
    BY <1>1, InsertAtElements
  <2>. QED
    BY <1>2, <2>1
<1>4. Len(q) \in Nat
  BY LenProperties
<1> DEFINE f == [k \in 1 .. Len(r) |-> IF k < u THEN k ELSE k - 1]
<1>5. u \in 1 .. Len(r) /\ r[u] = p /\ f \in [1 .. Len(r) -> Nat]
  BY <1>1, <1>3, <1>4, SMT
<1>6. \A i, j \in 1 .. Len(r) : i # u /\ j # u /\ f[i] = f[j] => i = j
  BY <1>1, <1>3, <1>4, SMT
<1>7. \A i \in 1 .. Len(r) : i # u => f[i] \in 1 .. Len(q) /\ r[i] = q[f[i]]
  <2>1. \A i \in 1 .. Len(r) : i # u => f[i] \in 1 .. Len(q)
    BY <1>1, <1>3, <1>4, SMT
  <2>2. \A i \in 1 .. Len(r) : i # u => r[i] = q[f[i]]
    BY <1>3
  <2>. QED
    BY <2>1, <2>2
<1>9. ButOne(q, r, f, u)
  BY <1>5, <1>6, <1>7 DEF ButOne
<1> HIDE DEF f
<1>8. Cardinality(PlacesOf(r, from, id))
           <= Cardinality(PlacesOf(q, from, id)) + (IF r[u].from = from /\ r[u].id = id THEN 1 ELSE 0)
  BY <1>3, <1>9, CopiesButOne
<1>. QED
  BY <1>5, <1>8

(* The places of r answer to different places of q, none of them u. *)
AllBut(q, r, f, u) ==
  /\ u \in 1 .. Len(q) /\ f \in [1 .. Len(r) -> Nat]
  /\ \A i, j \in 1 .. Len(r) : f[i] = f[j] => i = j
  /\ \A i \in 1 .. Len(r) : f[i] \in 1 .. Len(q) /\ f[i] # u /\ r[i] = q[f[i]]

LEMMA CopiesLess ==
  ASSUME NEW S, NEW q \in Seq(S), NEW r \in Seq(S), NEW from, NEW id, NEW u, NEW f,
         AllBut(q, r, f, u)
  PROVE  Cardinality(PlacesOf(r, from, id)) + (IF q[u].from = from /\ q[u].id = id THEN 1 ELSE 0)
           <= Cardinality(PlacesOf(q, from, id))
<1> DEFINE A == PlacesOf(r, from, id)
           B == PlacesOf(q, from, id)
           g == [i \in A |-> f[i]]
<1>1. IsFiniteSet(A) /\ IsFiniteSet(B) /\ Cardinality(A) \in Nat /\ Cardinality(B) \in Nat
  BY CopiesFinite
<1>2. A \subseteq 1 .. Len(r) /\ (u \in B <=> q[u].from = from /\ q[u].id = id)
  BY DEF PlacesOf, AllBut
<1>3. \A i \in A : f[i] \in B \ {u}
  BY DEF PlacesOf, AllBut
<1>4. g \in [A -> B \ {u}] /\ \A i, j \in A : g[i] = g[j] => i = j
  BY <1>2, <1>3 DEF AllBut
<1> HIDE DEF A, B, g
<1>5. IsFiniteSet(B \ {u}) /\ Cardinality(B \ {u}) = IF u \in B THEN Cardinality(B) - 1 ELSE Cardinality(B)
  BY <1>1, FS_RemoveElement
<1>6. Cardinality(A) <= Cardinality(B \ {u})
  BY <1>4, <1>5, InjectionBounds
<1>7. Cardinality(A) + (IF u \in B THEN 1 ELSE 0) <= Cardinality(B)
  BY <1>1, <1>5, <1>6, SMT
<1>. QED
  BY <1>2, <1>7 DEF A, B

LEMMA RemoveAtCopies ==
  ASSUME NEW S, NEW q \in Seq(S), NEW u \in 1 .. Len(q), NEW r, r = RemoveAt(q, u), NEW from, NEW id
  PROVE  Cardinality(PlacesOf(r, from, id)) + (IF q[u].from = from /\ q[u].id = id THEN 1 ELSE 0)
           <= Cardinality(PlacesOf(q, from, id))
<1>1. /\ r \in Seq(S) /\ Len(r) = Len(q) - 1 /\ Len(q) \in Nat
      /\ \A k \in 1 .. Len(q) - 1 : r[k] = IF k < u THEN q[k] ELSE q[k + 1]
  BY RemoveAtElements, LenProperties
<1> DEFINE f == [k \in 1 .. Len(r) |-> IF k < u THEN k ELSE k + 1]
<1>2. f \in [1 .. Len(r) -> Nat] /\ \A i, j \in 1 .. Len(r) : f[i] = f[j] => i = j
  BY <1>1, SMT
<1>3. \A i \in 1 .. Len(r) : f[i] \in 1 .. Len(q) /\ f[i] # u
  BY <1>1, SMT
<1>4. \A i \in 1 .. Len(r) : r[i] = q[f[i]]
  BY <1>1
<1>5. AllBut(q, r, f, u)
  BY <1>2, <1>3, <1>4 DEF AllBut
<1> HIDE DEF f
<1>. QED
  BY <1>1, <1>5, CopiesLess

LEMMA TailCopies ==
  ASSUME NEW S, NEW q \in Seq(S), q # <<>>, NEW from, NEW id
  PROVE  Cardinality(PlacesOf(Tail(q), from, id)) + (IF Head(q).from = from /\ Head(q).id = id THEN 1 ELSE 0)
           <= Cardinality(PlacesOf(q, from, id))
<1>1. PICK r \in Seq(S) : r = Tail(q)
  BY HeadTailProperties
<1>2. /\ Len(r) = Len(q) - 1 /\ Len(q) \in Nat \ {0} /\ Head(q) = q[1]
      /\ \A k \in 1 .. Len(r) : r[k] = q[k + 1]
  BY <1>1, HeadTailProperties, LenProperties, EmptySeq
<1> DEFINE f == [k \in 1 .. Len(r) |-> k + 1]
<1>3. f \in [1 .. Len(r) -> Nat] /\ \A i, j \in 1 .. Len(r) : f[i] = f[j] => i = j
  BY <1>2, SMT
<1>4. \A i \in 1 .. Len(r) : f[i] \in 1 .. Len(q) /\ f[i] # 1
  BY <1>2, SMT
<1>5. \A i \in 1 .. Len(r) : r[i] = q[f[i]]
  BY <1>2
<1>6. 1 \in 1 .. Len(q)
  BY <1>2, SMT
<1>8. AllBut(q, r, f, 1)
  BY <1>3, <1>4, <1>5, <1>6 DEF AllBut
<1> HIDE DEF f
<1>7. Cardinality(PlacesOf(r, from, id)) + (IF q[1].from = from /\ q[1].id = id THEN 1 ELSE 0)
           <= Cardinality(PlacesOf(q, from, id))
  BY <1>8, CopiesLess
<1>. QED
  BY <1>1, <1>2, <1>7

LEMMA RemovePacketCopies ==
  ASSUME NEW S, NEW q \in Seq(S), NEW f, NEW i, NEW r, r = RemovePacket(q, f, i), NEW from, NEW id
  PROVE  Cardinality(PlacesOf(r, from, id)) <= Cardinality(PlacesOf(q, from, id))
<1>0. r \in Seq(S)
  BY RemovePacketEmbeds
<1>1. Cardinality(PlacesOf(q, from, id)) \in Nat /\ Cardinality(PlacesOf(r, from, id)) \in Nat
  BY <1>0, CopiesFinite
<1>2. CASE IndexOf(q, f, i) = 0
  BY <1>1, <1>2, SMT DEF RemovePacket
<1>3. CASE IndexOf(q, f, i) # 0
  <2>1. PICK u \in 1 .. Len(q) : u = IndexOf(q, f, i)
    BY <1>3, IndexOfRange, LenProperties, SMT
  <2>2. r = RemoveAt(q, u)
    BY <1>3, <2>1, Zenon DEF RemovePacket
  <2>3. Cardinality(PlacesOf(r, from, id)) + (IF q[u].from = from /\ q[u].id = id THEN 1 ELSE 0)
           <= Cardinality(PlacesOf(q, from, id))
    BY <2>1, <2>2, RemoveAtCopies
  <2>. QED
    BY <1>1, <2>3, SMT
<1>. QED
  BY <1>2, <1>3

(* The last packet goes. *)
LEMMA FrontElements ==
  ASSUME NEW S, NEW q \in Seq(S), q # <<>>
  PROVE  /\ Front(q) \in Seq(S) /\ Len(Front(q)) = Len(q) - 1
         /\ \A k \in 1 .. Len(q) - 1 : Front(q)[k] = q[k]
<1> DEFINE m == Len(q) - 1
           f == SubSeq(q, 1, m)
<1>0. Len(q) \in Nat /\ Len(q) >= 1
  BY LenProperties, EmptySeq, SMT
<1>1. m \in Nat /\ m <= Len(q) /\ 1 <= m + 1 /\ 1 \in Nat \ {0}
  BY <1>0, SMT
<1> HIDE DEF m
<1>2. /\ f \in Seq(S)
      /\ Len(f) = m - 1 + 1
      /\ \A k \in 1 .. m - 1 + 1 : f[k] = q[1 + k - 1]
  BY <1>1, SubSeqElements, SMT
<1> HIDE DEF f
<1>3. Len(f) = m /\ \A k \in 1 .. m : f[k] = q[k]
  BY <1>1, <1>2, SMT
<1>. QED
  BY <1>2, <1>3, Zenon DEF Front, f, m

(* r is q with at most p added to it. *)
AddsAtMost(S, q, p, maxLen, r) ==
  /\ r \in Seq(S) /\ Len(r) <= maxLen
  /\ \A i \in 1 .. Len(r) : r[i] = p \/ \E k \in 1 .. Len(q) : r[i] = q[k]
  /\ \A from, id : Cardinality(PlacesOf(r, from, id))
       <= Cardinality(PlacesOf(q, from, id)) + (IF p.from = from /\ p.id = id THEN 1 ELSE 0)

(* Enqueue adds at most the packet itself. *)
LEMMA EnqueueCopies ==
  ASSUME NEW S, NEW q \in Seq(S), NEW us, NEW p \in S, NEW maxLen \in Nat, Len(q) <= maxLen,
         NEW r, r = Enqueue(us, q, p, maxLen)
  PROVE  AddsAtMost(S, q, p, maxLen, r)
<1>0. Len(q) \in Nat
  BY LenProperties
<1>l. ASSUME NEW t \in Seq(S), r = InsertInOrder(us, t, p)
      PROVE  Len(r) = Len(t) + 1
  <2>1. PICK u \in 1 .. Len(t) + 1 : u = UpperBound(us, t, p)
    BY UpperBoundPosition
  <2>. QED
    BY <1>l, <2>1, InsertAtElements DEF InsertInOrder
<1>1. CASE r = InsertInOrder(us, q, p) /\ Len(q) < maxLen
  <2>1. /\ r \in Seq(S) /\ \A i \in 1 .. Len(r) : r[i] = p \/ \E k \in 1 .. Len(q) : r[i] = q[k]
    BY <1>1, InsertKeeps
  <2>2. \A from, id : Cardinality(PlacesOf(r, from, id))
              <= Cardinality(PlacesOf(q, from, id)) + (IF p.from = from /\ p.id = id THEN 1 ELSE 0)
    BY <1>1, InsertCopies
  <2>3. Len(r) = Len(q) + 1
    BY <1>1, <1>l
  <2>. QED
    BY <1>0, <1>1, <2>1, <2>2, <2>3, SMT DEF AddsAtMost
<1>2. CASE r = InsertInOrder(us, Front(q), p) /\ q # <<>>
  <2>1. PICK f \in Seq(S) : f = Front(q)
    BY <1>2, FrontElements
  <2>2. Len(f) = Len(q) - 1 /\ Len(q) # 0 /\ \A k \in 1 .. Len(q) - 1 : f[k] = q[k]
    BY <1>2, <2>1, FrontElements, EmptySeq
  <2>3. /\ r \in Seq(S) /\ \A i \in 1 .. Len(r) : r[i] = p \/ \E k \in 1 .. Len(f) : r[i] = f[k]
    <3>1. r = InsertInOrder(us, f, p)
      BY <1>2, <2>1
    <3>. QED
      BY <2>1, <3>1, InsertKeeps
  <2>4. ASSUME NEW from, NEW id
        PROVE  Cardinality(PlacesOf(r, from, id))
              <= Cardinality(PlacesOf(q, from, id)) + (IF p.from = from /\ p.id = id THEN 1 ELSE 0)
    <3>1. PlacesOf(f, from, id) \in SUBSET PlacesOf(q, from, id)
      <4>1. \A k \in 1 .. Len(f) : k \in 1 .. Len(q) /\ f[k] = q[k]
        BY <1>0, <2>2, SMT
      <4>. QED
        BY <4>1 DEF PlacesOf
    <3>2. /\ Cardinality(PlacesOf(f, from, id)) \in Nat /\ Cardinality(PlacesOf(q, from, id)) \in Nat
          /\ Cardinality(PlacesOf(f, from, id)) <= Cardinality(PlacesOf(q, from, id))
      BY <2>1, <3>1, CopiesFinite, FS_Subset
    <3>3. Cardinality(PlacesOf(r, from, id))
            <= Cardinality(PlacesOf(f, from, id)) + (IF p.from = from /\ p.id = id THEN 1 ELSE 0)
      BY <1>2, <2>1, InsertCopies
    <3>4. Cardinality(PlacesOf(r, from, id)) \in Nat
      BY <2>3, CopiesFinite
    <3>. QED
      BY <3>2, <3>3, <3>4, SMT
  <2>5. Len(r) = Len(f) + 1
    BY <1>2, <1>l, <2>1
  <2>6. \A k \in 1 .. Len(f) : k \in 1 .. Len(q) /\ f[k] = q[k]
    BY <1>0, <2>2, SMT
  <2>7. Len(r) <= maxLen
    BY <1>0, <2>2, <2>5, SMT
  <2>. QED
    BY <2>3, <2>4, <2>6, <2>7 DEF AddsAtMost
<1>3. CASE r = q
  <2>1. \A from, id : Cardinality(PlacesOf(q, from, id)) \in Nat
    BY CopiesFinite
  <2>. QED
    BY <1>3, <2>1, SMT DEF AddsAtMost
<1>. QED
  BY <1>1, <1>2, <1>3, Zenon DEF Enqueue, CanReplace

---------------------------------------------------------------------------
(* The state of a node, field by field. *)
LEMMA StateFields ==
  ASSUME NEW s, IsNodeState(s)
  PROVE  /\ s.recent \subseteq Node \X Nat /\ s.uplink \subseteq Nat
         /\ s.txQueue \in Seq(Packet) /\ s.fromRadio \in Seq(Packet) /\ s.toPhone \in Seq(Packet)
         /\ s.nextId \in Nat /\ s.failed \in BOOLEAN
         /\ Len(s.txQueue) <= MAX_TX_QUEUE /\ Len(s.fromRadio) <= MAX_RX_FROMRADIO
         /\ DOMAIN s.pending \subseteq Nat
         /\ s.pending \in [DOMAIN s.pending -> Pending]
         /\ \A i \in DOMAIN s.pending : s.pending[i] \in Pending
  BY DEF IsNodeState

IsRecords(x) == DOMAIN x \subseteq Nat /\ x \in [DOMAIN x -> Pending]

LEMMA SetPending ==
  ASSUME NEW s, IsNodeState(s), NEW x, IsRecords(x), NEW t, t = [s EXCEPT !.pending = x]
  PROVE  /\ IsNodeState(t) /\ t.pending = x
         /\ t.recent = s.recent /\ t.txQueue = s.txQueue /\ t.fromRadio = s.fromRadio
         /\ t.toPhone = s.toPhone /\ t.uplink = s.uplink /\ t.nextId = s.nextId /\ t.failed = s.failed
  BY DEF IsNodeState, IsRecords

Recents == SUBSET (Node \X Nat)

LEMMA SetRecent ==
  ASSUME NEW s, IsNodeState(s), NEW x \in Recents, NEW t, t = [s EXCEPT !.recent = x]
  PROVE  /\ IsNodeState(t) /\ t.recent = x
         /\ t.pending = s.pending /\ t.txQueue = s.txQueue /\ t.fromRadio = s.fromRadio
         /\ t.toPhone = s.toPhone /\ t.uplink = s.uplink /\ t.nextId = s.nextId /\ t.failed = s.failed
  BY DEF IsNodeState, Recents

LEMMA SetTxQueue ==
  ASSUME NEW s, IsNodeState(s), NEW x \in Seq(Packet), Len(x) <= MAX_TX_QUEUE,
         NEW t, t = [s EXCEPT !.txQueue = x]
  PROVE  /\ IsNodeState(t) /\ t.txQueue = x
         /\ t.pending = s.pending /\ t.recent = s.recent /\ t.fromRadio = s.fromRadio
         /\ t.toPhone = s.toPhone /\ t.uplink = s.uplink /\ t.nextId = s.nextId /\ t.failed = s.failed
  BY DEF IsNodeState

LEMMA SetFromRadio ==
  ASSUME NEW s, IsNodeState(s), NEW x \in Seq(Packet), Len(x) <= MAX_RX_FROMRADIO,
         NEW t, t = [s EXCEPT !.fromRadio = x]
  PROVE  /\ IsNodeState(t) /\ t.fromRadio = x
         /\ t.pending = s.pending /\ t.recent = s.recent /\ t.txQueue = s.txQueue
         /\ t.toPhone = s.toPhone /\ t.uplink = s.uplink /\ t.nextId = s.nextId /\ t.failed = s.failed
  BY DEF IsNodeState

LEMMA SetToPhone ==
  ASSUME NEW s, IsNodeState(s), NEW x \in Seq(Packet), NEW t, t = [s EXCEPT !.toPhone = x]
  PROVE  /\ IsNodeState(t) /\ t.toPhone = x
         /\ t.pending = s.pending /\ t.recent = s.recent /\ t.txQueue = s.txQueue
         /\ t.fromRadio = s.fromRadio /\ t.uplink = s.uplink /\ t.nextId = s.nextId /\ t.failed = s.failed
  BY DEF IsNodeState

LEMMA SetUplink ==
  ASSUME NEW s, IsNodeState(s), NEW x \in SUBSET Nat, NEW t, t = [s EXCEPT !.uplink = x]
  PROVE  /\ IsNodeState(t) /\ t.uplink = x
         /\ t.pending = s.pending /\ t.recent = s.recent /\ t.txQueue = s.txQueue
         /\ t.fromRadio = s.fromRadio /\ t.toPhone = s.toPhone /\ t.nextId = s.nextId /\ t.failed = s.failed
  BY DEF IsNodeState

LEMMA SetNextId ==
  ASSUME NEW s, IsNodeState(s), NEW t, t = [s EXCEPT !.nextId = @ + 1]
  PROVE  /\ IsNodeState(t) /\ t.nextId = s.nextId + 1
         /\ t.pending = s.pending /\ t.recent = s.recent /\ t.txQueue = s.txQueue
         /\ t.fromRadio = s.fromRadio /\ t.toPhone = s.toPhone /\ t.uplink = s.uplink /\ t.failed = s.failed
<1>1. PICK k \in Nat : k = s.nextId + 1
  BY StateFields
<1>2. t = [s EXCEPT !.nextId = k]
  BY <1>1
<1>. QED
  BY <1>1, <1>2 DEF IsNodeState

LEMMA SetFailed ==
  ASSUME NEW s, IsNodeState(s), NEW t, t = [s EXCEPT !.failed = TRUE]
  PROVE  /\ IsNodeState(t) /\ t.failed
         /\ t.pending = s.pending /\ t.recent = s.recent /\ t.txQueue = s.txQueue
         /\ t.fromRadio = s.fromRadio /\ t.toPhone = s.toPhone /\ t.uplink = s.uplink /\ t.nextId = s.nextId
  BY DEF IsNodeState

---------------------------------------------------------------------------
(* Packets on their way out. *)

LEMMA PreparedFacts ==
  ASSUME NEW n, NEW p \in Packet, NEW q, q = Prepared(n, p)
  PROVE  /\ q \in Packet /\ q.from = p.from /\ q.to = p.to /\ q.id = p.id /\ q.hopLimit = p.hopLimit
         /\ q.hopStart = (IF p.from = n THEN p.hopLimit ELSE p.hopStart)
         /\ q.wantAck = (p.wantAck /\ ~ IsBroadcast(p.to))
         /\ q.crypt = p.crypt /\ q.plain = p.plain /\ q.port = p.port
         /\ q.reqId = p.reqId /\ q.err = p.err
<1>1. PICK r : r = [p EXCEPT !.wantAck = @ /\ ~ IsBroadcast(p.to),
                             !.hopStart = IF p.from = n THEN p.hopLimit ELSE @]
  OBVIOUS
<1>2. (p.wantAck /\ ~ IsBroadcast(p.to)) \in BOOLEAN /\ (IF p.from = n THEN p.hopLimit ELSE p.hopStart) \in Nat
  BY DEF Packet
<1>3. /\ r \in Packet /\ r.from = p.from /\ r.to = p.to /\ r.id = p.id /\ r.hopLimit = p.hopLimit
      /\ r.hopStart = (IF p.from = n THEN p.hopLimit ELSE p.hopStart)
      /\ r.wantAck = (p.wantAck /\ ~ IsBroadcast(p.to))
      /\ r.crypt = p.crypt /\ r.plain = p.plain /\ r.port = p.port
      /\ r.reqId = p.reqId /\ r.err = p.err
  BY <1>1, <1>2 DEF Packet
<1>4. q = FixPriority(r)
  BY <1>1 DEF Prepared
<1>5. q = r \/ \E x \in {DEFAULT, RELIABLE, RESPONSE, HIGH, ACK} : q = [r EXCEPT !.prio = x]
  BY <1>4 DEF FixPriority
<1>6. ASSUME NEW x \in {DEFAULT, RELIABLE, RESPONSE, HIGH, ACK}, q = [r EXCEPT !.prio = x]
      PROVE  /\ q \in Packet /\ q.from = r.from /\ q.to = r.to /\ q.id = r.id /\ q.hopLimit = r.hopLimit
             /\ q.hopStart = r.hopStart /\ q.wantAck = r.wantAck
             /\ q.crypt = r.crypt /\ q.plain = r.plain /\ q.port = r.port
             /\ q.reqId = r.reqId /\ q.err = r.err
  BY <1>3, <1>6 DEF Packet
<1>. QED
  BY <1>3, <1>5, <1>6

LEMMA EncodedFacts ==
  ASSUME NEW n, NEW p \in Packet, NEW q, q = Encoded(n, p)
  PROVE  /\ q \in Packet /\ q.from = p.from /\ q.to = p.to /\ q.id = p.id /\ q.hopLimit = p.hopLimit
         /\ q.hopStart = p.hopStart /\ q.wantAck = p.wantAck
         /\ q.crypt = (IF UsesPKI(n, p) THEN PKI ELSE p.crypt) /\ ~ q.plain /\ q.port = p.port
         /\ q.reqId = p.reqId /\ q.err = p.err
<1>1. (IF UsesPKI(n, p) THEN PKI ELSE p.crypt) \in Channel \cup {PKI, NoChannel}
  BY DEF Packet
<1>. QED
  BY <1>1 DEF Encoded, Packet

(* What a packet is when it reaches the transmit queue. *)
OnQueue(n, p) == IF p.plain THEN Encoded(n, Prepared(n, p)) ELSE Prepared(n, p)

LEMMA OnQueueFacts ==
  ASSUME NEW n, NEW p \in Packet, NEW q, q = OnQueue(n, p)
  PROVE  /\ q \in Packet /\ q.from = p.from /\ q.to = p.to /\ q.id = p.id /\ q.hopLimit = p.hopLimit
         /\ q.hopStart = (IF p.from = n THEN p.hopLimit ELSE p.hopStart)
         /\ q.wantAck = (p.wantAck /\ ~ IsBroadcast(p.to))
         /\ q.crypt = (IF p.plain /\ UsesPKI(n, p) THEN PKI ELSE p.crypt) /\ ~ q.plain /\ q.port = p.port
         /\ q.reqId = p.reqId /\ q.err = p.err
<1>1. PICK r : r = Prepared(n, p)
  OBVIOUS
<1>2. UsesPKI(n, r) <=> UsesPKI(n, p)
  BY <1>1, PreparedFacts DEF UsesPKI
<1>3. CASE p.plain
  <2>1. q = Encoded(n, r) /\ r \in Packet
    BY <1>1, <1>3, PreparedFacts DEF OnQueue
  <2>. QED
    BY <1>1, <1>2, <1>3, <2>1, PreparedFacts, EncodedFacts
<1>4. CASE ~ p.plain
  <2>1. q = r
    BY <1>1, <1>4 DEF OnQueue
  <2>. QED
    BY <1>1, <1>4, <2>1, PreparedFacts
<1>. QED
  BY <1>3, <1>4

---------------------------------------------------------------------------
(* How often a relay may still send on what its receive queue q holds of the *)
(* packet i of node k.  It relays a copy straight from k even if it has seen *)
(* another, any other only if it is the first that it sees.                  *)
IsOf(p, k, i) == p.from = k /\ p.id = i

DirectsOf(q, k, i) == {j \in 1 .. Len(q) : IsOf(q[j], k, i) /\ Direct(q[j])}

Directs(q, k, i) == Cardinality(DirectsOf(q, k, i))

(* The first copy in q comes straight from k. *)
Led(q, k, i) == \E j \in DirectsOf(q, k, i) : \A l \in 1 .. j - 1 : ~ IsOf(q[l], k, i)

(* What the node may send on if it has seen none. *)
Owed(q, k, i) == Directs(q, k, i) + (IF Led(q, k, i) THEN 0 ELSE 1)

(* Of other nodes' packets r has no more for n to send on than q. *)
Fades(n, q, r) ==
  \A k \in Node \ {n}, i \in Nat :
    Directs(r, k, i) <= Directs(q, k, i) /\ Owed(r, k, i) <= Owed(q, k, i)

(* r is q without its first packet p, as far as that goes ... *)
Drains(q, p, r) ==
  \A k, i :
    /\ Directs(r, k, i) + (IF IsOf(p, k, i) /\ Direct(p) THEN 1 ELSE 0) <= Directs(q, k, i)
    /\ Directs(r, k, i) + (IF IsOf(p, k, i) THEN 1 ELSE 0) <= Owed(q, k, i)
    /\ Owed(r, k, i) <= Owed(q, k, i)

(* ... and r is q with p at its end, or less. *)
Swells(q, p, r) ==
  \A k, i :
    /\ Directs(r, k, i) <= Directs(q, k, i) + (IF IsOf(p, k, i) /\ Direct(p) THEN 1 ELSE 0)
    /\ Owed(r, k, i) <= Owed(q, k, i) + (IF IsOf(p, k, i) /\ Direct(p) THEN 1 ELSE 0)
    /\ (\A x \in ToSet(q) : ~ IsOf(x, k, i)) => Owed(r, k, i) <= 1

LEMMA OwedType ==
  ASSUME NEW S, NEW q \in Seq(S), NEW k, NEW i
  PROVE  /\ IsFiniteSet(DirectsOf(q, k, i)) /\ Directs(q, k, i) \in Nat
         /\ Owed(q, k, i) \in Nat /\ Directs(q, k, i) <= Owed(q, k, i)
<1>1. IsFiniteSet(1 .. Len(q))
  BY LenProperties, FS_Interval, SMT
<1>2. DirectsOf(q, k, i) \in SUBSET (1 .. Len(q))
  BY DEF DirectsOf
<1>3. IsFiniteSet(DirectsOf(q, k, i)) /\ Directs(q, k, i) \in Nat
  BY <1>1, <1>2, FS_Subset, FS_CardinalityType DEF Directs
<1>. QED
  BY <1>3 DEF Owed

LEMMA OwedNone ==
  ASSUME NEW S, NEW q \in Seq(S), NEW k, NEW i, \A x \in ToSet(q) : ~ IsOf(x, k, i)
  PROVE  Directs(q, k, i) = 0 /\ Owed(q, k, i) = 1
<1>1. \A j \in 1 .. Len(q) : ~ IsOf(q[j], k, i)
  BY Places
<1>2. DirectsOf(q, k, i) = {}
  BY <1>1 DEF DirectsOf
<1>3. Directs(q, k, i) = 0 /\ ~ Led(q, k, i)
  BY <1>2, FS_EmptySet DEF Directs, Led
<1>. QED
  BY <1>3 DEF Owed

LEMMA FadesSame ==
  ASSUME NEW S, NEW q \in Seq(S), NEW n
  PROVE  Fades(n, q, q)
<1>1. \A k, i : Directs(q, k, i) \in Nat /\ Owed(q, k, i) \in Nat
  BY OwedType
<1>. QED
  BY <1>1 DEF Fades

LEMMA FadesThen ==
  ASSUME NEW S, NEW q \in Seq(S), NEW r \in Seq(S), NEW u \in Seq(S), NEW n,
         Fades(n, q, r), Fades(n, r, u)
  PROVE  Fades(n, q, u)
<1>1. SUFFICES ASSUME NEW k \in Node \ {n}, NEW i \in Nat
               PROVE  Directs(u, k, i) <= Directs(q, k, i) /\ Owed(u, k, i) <= Owed(q, k, i)
  BY DEF Fades
<1>2. /\ Directs(q, k, i) \in Nat /\ Directs(r, k, i) \in Nat /\ Directs(u, k, i) \in Nat
      /\ Owed(q, k, i) \in Nat /\ Owed(r, k, i) \in Nat /\ Owed(u, k, i) \in Nat
  BY OwedType
<1>3. /\ Directs(r, k, i) <= Directs(q, k, i) /\ Owed(r, k, i) <= Owed(q, k, i)
      /\ Directs(u, k, i) <= Directs(r, k, i) /\ Owed(u, k, i) <= Owed(r, k, i)
  BY <1>1 DEF Fades
<1>. QED
  BY <1>2, <1>3, SMT

LEMMA TailDrains ==
  ASSUME NEW S, NEW q \in Seq(S), q # <<>>, NEW r, r = Tail(q), NEW p, p = Head(q)
  PROVE  Drains(q, p, r)
<1>1. /\ r \in Seq(S) /\ Len(r) = Len(q) - 1 /\ Len(q) \in Nat \ {0} /\ p = q[1]
      /\ \A j \in 1 .. Len(r) : r[j] = q[j + 1]
  BY HeadTailProperties, LenProperties, EmptySeq
<1>2. SUFFICES ASSUME NEW k, NEW i
               PROVE  /\ Directs(r, k, i) + (IF IsOf(p, k, i) /\ Direct(p) THEN 1 ELSE 0) <= Directs(q, k, i)
                      /\ Directs(r, k, i) + (IF IsOf(p, k, i) THEN 1 ELSE 0) <= Owed(q, k, i)
                      /\ Owed(r, k, i) <= Owed(q, k, i)
  BY DEF Drains
<1>3. PICK A : A = DirectsOf(r, k, i)
  OBVIOUS
<1>4. PICK B : B = DirectsOf(q, k, i)
  OBVIOUS
<1>5. /\ IsFiniteSet(A) /\ IsFiniteSet(B) /\ Cardinality(A) \in Nat /\ Cardinality(B) \in Nat
      /\ Directs(r, k, i) = Cardinality(A) /\ Directs(q, k, i) = Cardinality(B)
  BY <1>1, <1>3, <1>4, OwedType DEF Directs
<1>6. A \subseteq 1 .. Len(r) /\ \A j \in A : j + 1 \in B \ {1}
  <2>1. \A j \in 1 .. Len(r) : j + 1 \in 1 .. Len(q) /\ j + 1 # 1
    BY <1>1, SMT
  <2>2. A \subseteq 1 .. Len(r)
    BY <1>3 DEF DirectsOf
  <2>3. ASSUME NEW j \in A
        PROVE  j + 1 \in B
    <3>1. j \in 1 .. Len(r) /\ IsOf(r[j], k, i) /\ Direct(r[j])
      BY <1>3, <2>3 DEF DirectsOf
    <3>2. r[j] = q[j + 1] /\ j + 1 \in 1 .. Len(q)
      BY <1>1, <2>1, <3>1
    <3>. QED
      BY <1>4, <3>1, <3>2 DEF DirectsOf
  <2>. QED
    BY <2>1, <2>2, <2>3
<1>7. 1 \in B <=> IsOf(p, k, i) /\ Direct(p)
  <2>1. 1 \in 1 .. Len(q)
    BY <1>1, SMT
  <2>. QED
    BY <1>1, <1>4, <2>1 DEF DirectsOf
<1>8. Cardinality(A) + (IF 1 \in B THEN 1 ELSE 0) <= Cardinality(B)
  <2>1. PICK f : f = [j \in A |-> j + 1]
    OBVIOUS
  <2>2. f \in [A -> B \ {1}]
    BY <1>6, <2>1
  <2>3. \A x, y \in A : f[x] = f[y] => x = y
    BY <1>6, <2>1, SMT
  <2>4. IsFiniteSet(B \ {1}) /\ Cardinality(B \ {1}) = IF 1 \in B THEN Cardinality(B) - 1 ELSE Cardinality(B)
    BY <1>5, FS_RemoveElement
  <2>5. Cardinality(A) <= Cardinality(B \ {1})
    BY <2>2, <2>3, <2>4, InjectionBounds
  <2>. QED
    BY <1>5, <2>4, <2>5, SMT
<1>9. 1 \in B => Led(q, k, i)
  <2>1. \A l \in 1 .. 1 - 1 : ~ IsOf(q[l], k, i)
    BY SMT
  <2>. QED
    BY <1>4, <2>1 DEF Led
<1>10. IsOf(p, k, i) /\ ~ (1 \in B) => ~ Led(q, k, i)
  <2>1. SUFFICES ASSUME IsOf(p, k, i), 1 \notin B, NEW j \in B, \A l \in 1 .. j - 1 : ~ IsOf(q[l], k, i)
                 PROVE  FALSE
    BY <1>4 DEF Led
  <2>2. j \in 1 .. Len(q) /\ j # 1
    BY <1>4, <2>1 DEF DirectsOf
  <2>3. 1 \in 1 .. j - 1
    BY <1>1, <2>2, SMT
  <2>. QED
    BY <1>1, <2>1, <2>3
<1>11. ~ IsOf(p, k, i) /\ Led(q, k, i) => Led(r, k, i)
  <2>1. SUFFICES ASSUME ~ IsOf(p, k, i), NEW j \in B, \A l \in 1 .. j - 1 : ~ IsOf(q[l], k, i)
                 PROVE  Led(r, k, i)
    BY <1>4 DEF Led
  <2>2. j \in 1 .. Len(q) /\ IsOf(q[j], k, i) /\ Direct(q[j]) /\ j # 1
    BY <1>1, <1>4, <2>1 DEF DirectsOf
  <2>3. PICK h \in 1 .. Len(r) : h = j - 1
    BY <1>1, <2>2, SMT
  <2>4. r[h] = q[j]
    BY <1>1, <2>2, <2>3
  <2>5. h \in DirectsOf(r, k, i)
    BY <2>2, <2>4 DEF DirectsOf
  <2>6. ASSUME NEW l \in 1 .. h - 1
        PROVE  ~ IsOf(r[l], k, i)
    <3>1. l \in 1 .. Len(r) /\ l + 1 \in 1 .. j - 1
      BY <1>1, <2>2, <2>3, <2>6, SMT
    <3>. QED
      BY <1>1, <2>1, <3>1
  <2>. QED
    BY <2>5, <2>6 DEF Led
<1>12. PICK a \in Nat : a = Directs(r, k, i)
  BY <1>5
<1>13. PICK c \in Nat : c = Directs(q, k, i)
  BY <1>5
<1>14. a + (IF IsOf(p, k, i) /\ Direct(p) THEN 1 ELSE 0) <= c
  BY <1>5, <1>7, <1>8, <1>12, <1>13
<1>15. /\ Owed(q, k, i) = c + (IF Led(q, k, i) THEN 0 ELSE 1)
       /\ Owed(r, k, i) = a + (IF Led(r, k, i) THEN 0 ELSE 1)
  BY <1>12, <1>13 DEF Owed
<1>16. CASE IsOf(p, k, i) /\ Direct(p)
  <2>1. Led(q, k, i) /\ a + 1 <= c
    BY <1>7, <1>9, <1>14, <1>16
  <2>. QED
    BY <1>12, <1>13, <1>15, <1>16, <2>1, SMT
<1>17. CASE IsOf(p, k, i) /\ ~ Direct(p)
  <2>1. ~ Led(q, k, i) /\ a <= c
    BY <1>7, <1>10, <1>14, <1>17
  <2>. QED
    BY <1>12, <1>13, <1>15, <1>17, <2>1, SMT
<1>18. CASE ~ IsOf(p, k, i)
  <2>1. (Led(q, k, i) => Led(r, k, i)) /\ a <= c
    BY <1>11, <1>14, <1>18
  <2>. QED
    BY <1>12, <1>13, <1>15, <1>18, <2>1, SMT
<1>. QED
  BY <1>16, <1>17, <1>18

LEMMA AppendSwells ==
  ASSUME NEW S, NEW q \in Seq(S), NEW p \in S, NEW r, r = Append(q, p)
  PROVE  Swells(q, p, r)
<1>1. /\ r \in Seq(S) /\ Len(r) = Len(q) + 1 /\ Len(q) \in Nat /\ r[Len(q) + 1] = p
      /\ \A j \in 1 .. Len(q) : r[j] = q[j]
  BY AppendProperties, LenProperties
<1>2. PICK e \in Nat : e = Len(q) + 1
  BY <1>1
<1>3. SUFFICES ASSUME NEW k, NEW i
               PROVE  /\ Directs(r, k, i) <= Directs(q, k, i) + (IF IsOf(p, k, i) /\ Direct(p) THEN 1 ELSE 0)
                      /\ Owed(r, k, i) <= Owed(q, k, i) + (IF IsOf(p, k, i) /\ Direct(p) THEN 1 ELSE 0)
                      /\ (\A x \in ToSet(q) : ~ IsOf(x, k, i)) => Owed(r, k, i) <= 1
  BY DEF Swells
<1>4. PICK B : B = DirectsOf(q, k, i)
  OBVIOUS
<1>5. IsFiniteSet(B) /\ B \subseteq 1 .. Len(q) /\ Cardinality(B) \in Nat /\ Directs(q, k, i) = Cardinality(B)
  BY <1>4, OwedType DEF Directs, DirectsOf
<1>6. \A j \in 1 .. Len(r) : j \in 1 .. Len(q) \/ j = e
  BY <1>1, <1>2, SMT
<1>7. 1 .. Len(q) \subseteq 1 .. Len(r) /\ e \in 1 .. Len(r) /\ e \notin 1 .. Len(q) /\ r[e] = p
  BY <1>1, <1>2, SMT
<1>8. DirectsOf(r, k, i) = IF IsOf(p, k, i) /\ Direct(p) THEN B \cup {e} ELSE B
  BY <1>1, <1>4, <1>6, <1>7 DEF DirectsOf
<1>9. IsFiniteSet(B \cup {e}) /\ Cardinality(B \cup {e}) = Cardinality(B) + 1
  BY <1>5, <1>7, FS_AddElement
<1>10. Directs(r, k, i) = Directs(q, k, i) + (IF IsOf(p, k, i) /\ Direct(p) THEN 1 ELSE 0)
  BY <1>5, <1>8, <1>9 DEF Directs
<1>11. Led(q, k, i) => Led(r, k, i)
  <2>1. SUFFICES ASSUME NEW j \in B, \A l \in 1 .. j - 1 : ~ IsOf(q[l], k, i)
                 PROVE  Led(r, k, i)
    BY <1>4 DEF Led
  <2>2. j \in DirectsOf(r, k, i) /\ j \in 1 .. Len(q)
    BY <1>5, <1>8
  <2>3. \A l \in 1 .. j - 1 : l \in 1 .. Len(q)
    BY <1>1, <2>2, SMT
  <2>4. \A l \in 1 .. j - 1 : ~ IsOf(r[l], k, i)
    BY <1>1, <2>1, <2>3
  <2>. QED
    BY <2>2, <2>4 DEF Led
<1>12. Owed(r, k, i) <= Owed(q, k, i) + (IF IsOf(p, k, i) /\ Direct(p) THEN 1 ELSE 0)
  <2>1. Directs(q, k, i) \in Nat
    BY <1>5
  <2>. QED
    BY <1>10, <1>11, <2>1, SMT DEF Owed
<1>13. ASSUME \A x \in ToSet(q) : ~ IsOf(x, k, i)
       PROVE  Owed(r, k, i) <= 1
  <2>1. Directs(q, k, i) = 0 /\ Owed(q, k, i) = 1
    BY <1>13, OwedNone
  <2>2. CASE IsOf(p, k, i) /\ Direct(p)
    <3>1. e \in DirectsOf(r, k, i)
      BY <1>8, <2>2
    <3>2. \A l \in 1 .. e - 1 : l \in 1 .. Len(q) /\ r[l] = q[l]
      BY <1>1, <1>2, SMT
    <3>3. \A l \in 1 .. Len(q) : q[l] \in ToSet(q)
      BY Places
    <3>4. Led(r, k, i)
      BY <1>13, <3>1, <3>2, <3>3 DEF Led
    <3>. QED
      BY <1>10, <2>1, <2>2, <3>4, SMT DEF Owed
  <2>3. CASE ~ (IsOf(p, k, i) /\ Direct(p))
    BY <1>12, <2>1, <2>3
  <2>. QED
    BY <2>2, <2>3
<1>14. Directs(r, k, i) <= Directs(q, k, i) + (IF IsOf(p, k, i) /\ Direct(p) THEN 1 ELSE 0)
  <2>1. Directs(q, k, i) \in Nat
    BY <1>5
  <2>. QED
    BY <1>10, <2>1, SMT
<1>. QED
  BY <1>12, <1>13, <1>14

(* A full queue loses its first packet before it grows. *)
LEMMA SwellsAfter ==
  ASSUME NEW S, NEW q \in Seq(S), NEW f \in Seq(S), NEW h, Drains(q, h, f), ToSet(f) \subseteq ToSet(q),
         NEW p, NEW r \in Seq(S), Swells(f, p, r)
  PROVE  Swells(q, p, r)
<1>1. SUFFICES ASSUME NEW k, NEW i
               PROVE  /\ Directs(r, k, i) <= Directs(q, k, i) + (IF IsOf(p, k, i) /\ Direct(p) THEN 1 ELSE 0)
                      /\ Owed(r, k, i) <= Owed(q, k, i) + (IF IsOf(p, k, i) /\ Direct(p) THEN 1 ELSE 0)
                      /\ (\A x \in ToSet(q) : ~ IsOf(x, k, i)) => Owed(r, k, i) <= 1
  BY DEF Swells
<1>2. /\ Directs(q, k, i) \in Nat /\ Directs(f, k, i) \in Nat /\ Directs(r, k, i) \in Nat
      /\ Owed(q, k, i) \in Nat /\ Owed(f, k, i) \in Nat /\ Owed(r, k, i) \in Nat
  BY OwedType
<1>3. /\ Directs(f, k, i) + (IF IsOf(h, k, i) /\ Direct(h) THEN 1 ELSE 0) <= Directs(q, k, i)
      /\ Owed(f, k, i) <= Owed(q, k, i)
  BY DEF Drains
<1>4. /\ Directs(r, k, i) <= Directs(f, k, i) + (IF IsOf(p, k, i) /\ Direct(p) THEN 1 ELSE 0)
      /\ Owed(r, k, i) <= Owed(f, k, i) + (IF IsOf(p, k, i) /\ Direct(p) THEN 1 ELSE 0)
      /\ (\A x \in ToSet(f) : ~ IsOf(x, k, i)) => Owed(r, k, i) <= 1
  BY DEF Swells
<1>5. /\ Directs(r, k, i) <= Directs(q, k, i) + (IF IsOf(p, k, i) /\ Direct(p) THEN 1 ELSE 0)
      /\ Owed(r, k, i) <= Owed(q, k, i) + (IF IsOf(p, k, i) /\ Direct(p) THEN 1 ELSE 0)
  BY <1>2, <1>3, <1>4, SMT
<1>. QED
  BY <1>4, <1>5

LEMMA SwellsFades ==
  ASSUME NEW S, NEW q \in Seq(S), NEW p, NEW r, Swells(q, p, r), NEW n, p.from = n
  PROVE  Fades(n, q, r)
<1>1. SUFFICES ASSUME NEW k \in Node \ {n}, NEW i \in Nat
               PROVE  Directs(r, k, i) <= Directs(q, k, i) /\ Owed(r, k, i) <= Owed(q, k, i)
  BY DEF Fades
<1>2. ~ IsOf(p, k, i)
  BY <1>1 DEF IsOf
<1>3. Directs(q, k, i) \in Nat /\ Owed(q, k, i) \in Nat
  BY OwedType
<1>4. /\ Directs(r, k, i) <= Directs(q, k, i) + (IF IsOf(p, k, i) /\ Direct(p) THEN 1 ELSE 0)
      /\ Owed(r, k, i) <= Owed(q, k, i) + (IF IsOf(p, k, i) /\ Direct(p) THEN 1 ELSE 0)
  BY DEF Swells
<1>. QED
  BY <1>2, <1>3, <1>4

---------------------------------------------------------------------------
(* What a handler may add.  b is the node's next packet id when it began, T *)
(* what it may say in packets of its own, to whom, as what, with what error *)
(* and about what id; L the packets it may send on or send again, each once. *)

(* Every hash, taken for an index, is some channel's. *)
Indexed == \A c \in Channel : HashAsIndex[c] # NoChannel

Refusals == {"DUTY_CYCLE_LIMIT", "PKI_FAILED", "NO_CHANNEL", "NO_RESPONSE"}

Saying(q) == <<q.to, q.port, q.err, q.reqId>>

Own(n, b, T) ==
  {q \in Packet : /\ q.from = n /\ q.id >= b /\ Saying(q) \in T /\ q.hopLimit <= HOP_MAX
                  /\ q.port \in {"routing", "response"}
                  /\ q.port = "routing" => ~ q.wantAck
                  /\ q.plain => q.hopStart = 0
                  /\ Indexed => q.crypt # NoChannel}

Told(n, b, T) == {q \in Own(n, b, T) : q.to = n /\ q.plain}

(* What may be on its way: encrypted, and with a key. *)
Sealed == {q \in Packet : ~ q.plain /\ q.crypt # NoChannel}

Queued(n, b, T) == {q \in Own(n, b, T) \cap Sealed : q.hopStart = q.hopLimit}

Fresh(n, b) == {x \in Node \X Nat : x[1] = n /\ x[2] >= b}

PairsOf(L) == {<<q.from, q.id>> : q \in L}

(* r has elements of q and of S. *)
Adds(q, r, S) == ToSet(r) \subseteq ToSet(q) \cup S

LEMMA AddsFrom ==
  ASSUME NEW q \in Seq(Packet), NEW r \in Seq(Packet), NEW S,
         \A i \in 1 .. Len(r) : r[i] \in S \/ \E k \in 1 .. Len(q) : r[i] = q[k]
  PROVE  Adds(q, r, S)
<1>1. SUFFICES ASSUME NEW p \in ToSet(r), p \notin S
               PROVE  p \in ToSet(q)
  BY DEF Adds
<1>2. PICK i \in 1 .. Len(r) : p = r[i]
  BY Places
<1>3. PICK k \in 1 .. Len(q) : p = q[k]
  BY <1>1, <1>2
<1>. QED
  BY <1>3, Places

LEMMA AddsThen ==
  ASSUME NEW q, NEW r, NEW u, NEW S, NEW R, Adds(q, r, S), Adds(r, u, R)
  PROVE  Adds(q, u, S \cup R)
  BY Zenon DEF Adds

LEMMA AddsMore ==
  ASSUME NEW q, NEW r, NEW S, NEW R, S \subseteq R, Adds(q, r, S)
  PROVE  Adds(q, r, R)
  BY Zenon DEF Adds

LEMMA AddsNothing ==
  ASSUME NEW q, NEW S
  PROVE  Adds(q, q, S)
  BY Zenon DEF Adds

Number(s, from, id) == Cardinality(PlacesOf(s.txQueue, from, id))

Allowed(n, s, t, b, T, L) ==
  /\ IsNodeState(t) /\ s.nextId <= t.nextId /\ t.toPhone = s.toPhone
  /\ t.failed => s.failed \/ ~ Indexed
  /\ s.recent \subseteq t.recent /\ t.recent \subseteq s.recent \cup Fresh(n, b) \cup PairsOf(L)
  /\ Adds(s.fromRadio, t.fromRadio, Told(n, b, T))
  /\ Adds(s.txQueue, t.txQueue, Queued(n, b, T) \cup L)
  /\ \A i \in t.uplink : i \in s.uplink \/ (n \in MqttNodes /\ <<n, i>> \in Fresh(n, b) \cup PairsOf(L))
  /\ \A i \in DOMAIN t.pending :
       \/ i \in DOMAIN s.pending /\ t.pending[i] = s.pending[i]
       \/ /\ i >= b /\ i < t.nextId /\ t.pending[i].packet.id = i
          /\ t.pending[i].packet \in Own(n, b, T) /\ t.pending[i].packet.wantAck
          /\ t.pending[i].packet.plain
  /\ \A x \in (Node \X Nat) \ Fresh(n, b) :
       Number(t, x[1], x[2]) <= Number(s, x[1], x[2]) + (IF x \in PairsOf(L) THEN 1 ELSE 0)
  /\ Fades(n, s.fromRadio, t.fromRadio)

LEMMA NumberType ==
  ASSUME NEW s, IsNodeState(s), NEW from, NEW id
  PROVE  Number(s, from, id) \in Nat
  BY StateFields, CopiesFinite DEF Number

LEMMA AllowedSame ==
  ASSUME NEW n, NEW s, NEW t, NEW b, NEW T, NEW L, IsNodeState(s), IsNodeState(t),
         t.nextId >= s.nextId, t.toPhone = s.toPhone, t.failed = s.failed, t.recent = s.recent,
         t.fromRadio = s.fromRadio, t.txQueue = s.txQueue, t.uplink = s.uplink, t.pending = s.pending
  PROVE  Allowed(n, s, t, b, T, L)
<1>1. s.nextId \in Nat /\ t.nextId \in Nat
  BY StateFields
<1>2. \A x \in (Node \X Nat) \ Fresh(n, b) :
        Number(s, x[1], x[2]) \in Nat /\ Number(t, x[1], x[2]) = Number(s, x[1], x[2])
  BY NumberType DEF Number
<1>3. \A x \in (Node \X Nat) \ Fresh(n, b) :
        Number(t, x[1], x[2]) <= Number(s, x[1], x[2]) + (IF x \in PairsOf(L) THEN 1 ELSE 0)
  BY <1>2, SMT
<1>4. Adds(s.fromRadio, t.fromRadio, Told(n, b, T)) /\ Adds(s.txQueue, t.txQueue, Queued(n, b, T) \cup L)
  BY AddsNothing
<1>5. Fades(n, s.fromRadio, t.fromRadio)
  BY FadesSame, StateFields
<1>. QED
  BY <1>1, <1>3, <1>4, <1>5 DEF Allowed

(* One handler after another, of which one at most sends on. *)
LEMMA AllowedThen ==
  ASSUME NEW n, NEW s, NEW t, NEW u, NEW b \in Nat, NEW T, NEW L, NEW M, IsNodeState(s),
         L = {} \/ M = {}, Allowed(n, s, t, b, T, L), Allowed(n, t, u, b, T, M)
  PROVE  Allowed(n, s, u, b, T, L \cup M)
<1>1. /\ IsNodeState(t) /\ IsNodeState(u)
      /\ s.nextId \in Nat /\ t.nextId \in Nat /\ u.nextId \in Nat
      /\ s.nextId <= t.nextId /\ t.nextId <= u.nextId
  BY StateFields DEF Allowed
<1>2. s.nextId <= u.nextId /\ u.toPhone = s.toPhone /\ (u.failed => s.failed \/ ~ Indexed)
  BY <1>1, SMT DEF Allowed
<1>p. PairsOf(L \cup M) = PairsOf(L) \cup PairsOf(M) /\ (PairsOf(L) = {} \/ PairsOf(M) = {})
  BY DEF PairsOf
<1>3. s.recent \subseteq u.recent /\ u.recent \subseteq s.recent \cup Fresh(n, b) \cup PairsOf(L \cup M)
  <2>1. /\ s.recent \subseteq t.recent /\ t.recent \subseteq s.recent \cup Fresh(n, b) \cup PairsOf(L)
        /\ t.recent \subseteq u.recent /\ u.recent \subseteq t.recent \cup Fresh(n, b) \cup PairsOf(M)
    BY Zenon DEF Allowed
  <2>. QED
    BY <1>p, <2>1
<1>4. Adds(s.fromRadio, u.fromRadio, Told(n, b, T))
  <2>1. Adds(s.fromRadio, u.fromRadio, Told(n, b, T) \cup Told(n, b, T))
    BY AddsThen, Zenon DEF Allowed
  <2>. QED
    BY <2>1, AddsMore
<1>5. Adds(s.txQueue, u.txQueue, Queued(n, b, T) \cup (L \cup M))
  <2>1. Adds(s.txQueue, u.txQueue, (Queued(n, b, T) \cup L) \cup (Queued(n, b, T) \cup M))
    BY AddsThen, Zenon DEF Allowed
  <2>. QED
    BY <2>1, AddsMore
<1>6. \A i \in u.uplink : i \in s.uplink \/ (n \in MqttNodes /\ <<n, i>> \in Fresh(n, b) \cup PairsOf(L \cup M))
  <2>1. /\ \A i \in t.uplink : i \in s.uplink \/ (n \in MqttNodes /\ <<n, i>> \in Fresh(n, b) \cup PairsOf(L))
        /\ \A i \in u.uplink : i \in t.uplink \/ (n \in MqttNodes /\ <<n, i>> \in Fresh(n, b) \cup PairsOf(M))
    BY Zenon DEF Allowed
  <2>. QED
    BY <1>p, <2>1
<1>7. ASSUME NEW i \in DOMAIN u.pending
      PROVE  \/ i \in DOMAIN s.pending /\ u.pending[i] = s.pending[i]
             \/ /\ i >= b /\ i < u.nextId /\ u.pending[i].packet.id = i
                /\ u.pending[i].packet \in Own(n, b, T) /\ u.pending[i].packet.wantAck
                /\ u.pending[i].packet.plain
  <2>1. i \in Nat
    BY <1>1, StateFields
  <2>2. CASE ~ (i \in DOMAIN t.pending /\ u.pending[i] = t.pending[i])
    BY <2>2, Zenon DEF Allowed
  <2>3. CASE /\ i \in DOMAIN t.pending /\ u.pending[i] = t.pending[i]
             /\ i >= b /\ i < t.nextId /\ t.pending[i].packet.id = i
             /\ t.pending[i].packet \in Own(n, b, T) /\ t.pending[i].packet.wantAck
             /\ t.pending[i].packet.plain
    <3>1. i < u.nextId
      BY <1>1, <2>1, <2>3, SMT
    <3>. QED
      BY <2>3, <3>1
  <2>. QED
    BY <2>2, <2>3, Zenon DEF Allowed
<1>8. ASSUME NEW x \in (Node \X Nat) \ Fresh(n, b)
      PROVE  Number(u, x[1], x[2]) <= Number(s, x[1], x[2]) + (IF x \in PairsOf(L \cup M) THEN 1 ELSE 0)
  <2>1. /\ Number(u, x[1], x[2]) <= Number(t, x[1], x[2]) + (IF x \in PairsOf(M) THEN 1 ELSE 0)
        /\ Number(t, x[1], x[2]) <= Number(s, x[1], x[2]) + (IF x \in PairsOf(L) THEN 1 ELSE 0)
    BY Zenon DEF Allowed
  <2>2. Number(u, x[1], x[2]) \in Nat /\ Number(t, x[1], x[2]) \in Nat /\ Number(s, x[1], x[2]) \in Nat
    BY <1>1, NumberType
  <2>3. /\ x \in PairsOf(L \cup M) <=> x \in PairsOf(L) \/ x \in PairsOf(M)
        /\ ~ (x \in PairsOf(L) /\ x \in PairsOf(M))
    BY <1>p
  <2>. QED
    BY <2>1, <2>2, <2>3, SMT
<1>9. Fades(n, s.fromRadio, u.fromRadio)
  <2>1. s.fromRadio \in Seq(Packet) /\ t.fromRadio \in Seq(Packet) /\ u.fromRadio \in Seq(Packet)
    BY <1>1, StateFields
  <2>2. Fades(n, s.fromRadio, t.fromRadio) /\ Fades(n, t.fromRadio, u.fromRadio)
    BY Zenon DEF Allowed
  <2>. QED
    BY <2>1, <2>2, FadesThen
<1>. QED
  BY <1>1, <1>2, <1>3, <1>4, <1>5, <1>6, <1>7, <1>8, <1>9, Zenon DEF Allowed

LEMMA AllowedBoth ==
  ASSUME NEW n, NEW s, NEW t, NEW u, NEW b \in Nat, NEW T, NEW L, IsNodeState(s),
         \/ Allowed(n, s, t, b, T, {}) /\ Allowed(n, t, u, b, T, L)
         \/ Allowed(n, s, t, b, T, L) /\ Allowed(n, t, u, b, T, {})
  PROVE  Allowed(n, s, u, b, T, L)
<1>1. CASE Allowed(n, s, t, b, T, {}) /\ Allowed(n, t, u, b, T, L)
  <2>1. Allowed(n, s, u, b, T, {} \cup L) /\ {} \cup L = L
    BY <1>1, AllowedThen
  <2>. QED
    BY <2>1
<1>2. CASE Allowed(n, s, t, b, T, L) /\ Allowed(n, t, u, b, T, {})
  <2>1. Allowed(n, s, u, b, T, L \cup {}) /\ L \cup {} = L
    BY <1>2, AllowedThen
  <2>. QED
    BY <2>1
<1>. QED
  BY <1>1, <1>2

---------------------------------------------------------------------------
(* The queues. *)

(* t is s but for the receive queue, to which p has been added. *)
Received(s, p, t) ==
  /\ IsNodeState(t) /\ Adds(s.fromRadio, t.fromRadio, {p})
  /\ \E i \in 1 .. Len(t.fromRadio) : t.fromRadio[i] = p
  /\ Swells(s.fromRadio, p, t.fromRadio)
  /\ t.pending = s.pending /\ t.recent = s.recent /\ t.txQueue = s.txQueue
  /\ t.toPhone = s.toPhone /\ t.uplink = s.uplink /\ t.nextId = s.nextId /\ t.failed = s.failed

LEMMA ReceivedFacts ==
  ASSUME NEW s, IsNodeState(s), NEW p \in Packet, NEW t, t = EnqueueReceivedMessage(s, p)
  PROVE  Received(s, p, t)
<1>0. /\ s.fromRadio \in Seq(Packet) /\ Len(s.fromRadio) <= MAX_RX_FROMRADIO /\ Len(s.fromRadio) \in Nat
      /\ MAX_RX_FROMRADIO \in Nat \ {0}
  BY StateFields, RouterAssumption, LenProperties
<1>1. PICK f : f = IF Len(s.fromRadio) < MAX_RX_FROMRADIO THEN s.fromRadio ELSE Tail(s.fromRadio)
  OBVIOUS
<1>2. /\ f \in Seq(Packet) /\ Len(f) \in Nat /\ Len(f) < MAX_RX_FROMRADIO
      /\ \A i \in 1 .. Len(f) : \E k \in 1 .. Len(s.fromRadio) : f[i] = s.fromRadio[k]
  <2>1. CASE Len(s.fromRadio) < MAX_RX_FROMRADIO
    BY <1>0, <1>1, <2>1
  <2>2. CASE ~ (Len(s.fromRadio) < MAX_RX_FROMRADIO)
    <3>1. s.fromRadio # <<>> /\ Len(s.fromRadio) = MAX_RX_FROMRADIO
      BY <1>0, <2>2, EmptySeq, SMT
    <3>2. f = Tail(s.fromRadio)
      BY <1>1, <2>2
    <3>3. f \in Seq(Packet) /\ Len(f) = Len(s.fromRadio) - 1 /\ \A i \in 1 .. Len(f) : f[i] = s.fromRadio[i + 1]
      BY <1>0, <3>1, <3>2, HeadTailProperties
    <3>4. \A i \in 1 .. Len(f) : i + 1 \in 1 .. Len(s.fromRadio)
      BY <1>0, <3>3, SMT
    <3>5. Len(f) \in Nat /\ Len(f) < MAX_RX_FROMRADIO
      BY <1>0, <3>1, <3>3, SMT
    <3>. QED
      BY <3>3, <3>4, <3>5
  <2>. QED
    BY <2>1, <2>2
<1>3. PICK x \in Seq(Packet) : x = Append(f, p)
  BY <1>2, AppendProperties
<1>4. Len(x) = Len(f) + 1 /\ x[Len(f) + 1] = p /\ \A i \in 1 .. Len(f) : x[i] = f[i]
  BY <1>2, <1>3, AppendProperties
<1>5. t = [s EXCEPT !.fromRadio = x]
  BY <1>1, <1>3 DEF EnqueueReceivedMessage
<1>6. Len(x) <= MAX_RX_FROMRADIO
  BY <1>0, <1>2, <1>4, SMT
<1>7. Adds(s.fromRadio, x, {p})
  <2>1. \A i \in 1 .. Len(x) : i \in 1 .. Len(f) \/ i = Len(f) + 1
    BY <1>2, <1>4, SMT
  <2>2. \A i \in 1 .. Len(x) : x[i] \in {p} \/ \E k \in 1 .. Len(s.fromRadio) : x[i] = s.fromRadio[k]
    BY <1>2, <1>4, <2>1
  <2>. QED
    BY <1>0, <2>2, AddsFrom
<1>8. \E i \in 1 .. Len(x) : x[i] = p
  <2>1. Len(f) + 1 \in 1 .. Len(x)
    BY <1>2, <1>4, SMT
  <2>. QED
    BY <1>4, <2>1
<1>9. Swells(s.fromRadio, p, x)
  <2>1. Swells(f, p, x)
    BY <1>2, <1>3, AppendSwells
  <2>2. CASE f = s.fromRadio
    BY <2>1, <2>2
  <2>3. CASE f # s.fromRadio
    <3>1. s.fromRadio # <<>> /\ f = Tail(s.fromRadio)
      <4>1. f = Tail(s.fromRadio) /\ Len(s.fromRadio) = MAX_RX_FROMRADIO
        BY <1>0, <1>1, <2>3, SMT
      <4>. QED
        BY <1>0, <4>1, EmptySeq
    <3>2. Drains(s.fromRadio, Head(s.fromRadio), f)
      BY <1>0, <3>1, TailDrains
    <3>3. ToSet(f) \subseteq ToSet(s.fromRadio)
      BY <1>0, <1>2, Places
    <3>. QED
      BY <1>0, <1>2, <1>3, <2>1, <3>2, <3>3, SwellsAfter
  <2>. QED
    BY <2>2, <2>3
<1>. QED
  BY <1>5, <1>6, <1>7, <1>8, <1>9, SetFromRadio DEF Received

(* t is s but for the transmit queue, which has lost packets. *)
Cancelled(s, t) ==
  /\ IsNodeState(t) /\ Adds(s.txQueue, t.txQueue, {})
  /\ \A k, i : Number(t, k, i) <= Number(s, k, i)
  /\ t.pending = s.pending /\ t.recent = s.recent /\ t.fromRadio = s.fromRadio
  /\ t.toPhone = s.toPhone /\ t.uplink = s.uplink /\ t.nextId = s.nextId /\ t.failed = s.failed

LEMMA CancelFacts ==
  ASSUME NEW s, IsNodeState(s), NEW from, NEW id, NEW t, t = CancelSending(s, from, id)
  PROVE  Cancelled(s, t)
<1>0. s.txQueue \in Seq(Packet) /\ Len(s.txQueue) <= MAX_TX_QUEUE /\ MAX_TX_QUEUE \in Nat /\ Len(s.txQueue) \in Nat
  BY StateFields, RouterAssumption, LenProperties
<1>1. PICK x \in Seq(Packet) : x = RemovePacket(s.txQueue, from, id)
  BY <1>0, RemovePacketEmbeds
<1>2. Len(x) <= Len(s.txQueue) /\ \A i \in 1 .. Len(x) : \E m \in 1 .. Len(s.txQueue) : x[i] = s.txQueue[m]
  BY <1>0, <1>1, RemovePacketEmbeds DEF Embeds
<1>3. Len(x) <= MAX_TX_QUEUE
  BY <1>0, <1>2, LenProperties, SMT
<1>4. t = [s EXCEPT !.txQueue = x]
  BY <1>1 DEF CancelSending
<1>5. \A k, i : Cardinality(PlacesOf(x, k, i)) <= Cardinality(PlacesOf(s.txQueue, k, i))
  BY <1>0, <1>1, RemovePacketCopies
<1>6. Adds(s.txQueue, x, {})
  BY <1>0, <1>2, AddsFrom
<1>. QED
  BY <1>3, <1>4, <1>5, <1>6, SetTxQueue DEF Number, Cancelled

(* t is s but for the transmit queue, to which p may have been added. *)
MaySend(s, p, t) ==
  /\ IsNodeState(t) /\ Adds(s.txQueue, t.txQueue, {p})
  /\ \A k, i : Number(t, k, i) <= Number(s, k, i) + (IF p.from = k /\ p.id = i THEN 1 ELSE 0)
  /\ t.pending = s.pending /\ t.recent = s.recent /\ t.fromRadio = s.fromRadio
  /\ t.toPhone = s.toPhone /\ t.uplink = s.uplink /\ t.nextId = s.nextId /\ t.failed = s.failed

LEMMA RadioSendFacts ==
  ASSUME NEW n \in Node, NEW s, IsNodeState(s), NEW p \in Packet, NEW t, t = RadioSend(n, s, p)
  PROVE  MaySend(s, p, t)
<1>0. s.txQueue \in Seq(Packet) /\ Len(s.txQueue) <= MAX_TX_QUEUE /\ MAX_TX_QUEUE \in Nat
  BY StateFields, RouterAssumption
<1>1. CASE t = s
  <2>1. \A k, i : Number(s, k, i) \in Nat
    BY NumberType
  <2>2. \A k, i : Number(t, k, i) <= Number(s, k, i) + (IF p.from = k /\ p.id = i THEN 1 ELSE 0)
    BY <1>1, <2>1, SMT
  <2>. QED
    BY <1>1, <2>2, AddsNothing DEF MaySend
<1>2. CASE t = [s EXCEPT !.txQueue = Enqueue(n, @, p, MAX_TX_QUEUE)]
  <2>1. PICK x : x = Enqueue(n, s.txQueue, p, MAX_TX_QUEUE)
    OBVIOUS
  <2>2. AddsAtMost(Packet, s.txQueue, p, MAX_TX_QUEUE, x)
    BY <1>0, <2>1, EnqueueCopies
  <2>3. t = [s EXCEPT !.txQueue = x]
    BY <1>2, <2>1
  <2>4. Adds(s.txQueue, x, {p})
    <3>1. x \in Seq(Packet) /\ \A i \in 1 .. Len(x) : x[i] \in {p} \/ \E k \in 1 .. Len(s.txQueue) : x[i] = s.txQueue[k]
      BY <2>2 DEF AddsAtMost
    <3>. QED
      BY <1>0, <3>1, AddsFrom
  <2>5. x \in Seq(Packet) /\ Len(x) <= MAX_TX_QUEUE
    BY <2>2 DEF AddsAtMost
  <2>6. \A k, i : Cardinality(PlacesOf(x, k, i))
               <= Cardinality(PlacesOf(s.txQueue, k, i)) + (IF p.from = k /\ p.id = i THEN 1 ELSE 0)
    BY <2>2 DEF AddsAtMost
  <2>7. /\ IsNodeState(t) /\ t.txQueue = x
        /\ t.pending = s.pending /\ t.recent = s.recent /\ t.fromRadio = s.fromRadio
        /\ t.toPhone = s.toPhone /\ t.uplink = s.uplink /\ t.nextId = s.nextId /\ t.failed = s.failed
    BY <2>3, <2>5, SetTxQueue
  <2>. QED
    BY <2>4, <2>6, <2>7 DEF Number, MaySend
<1>. QED
  BY <1>1, <1>2 DEF RadioSend

---------------------------------------------------------------------------
(* What the handlers are made of stays within what they may add. *)

LEMMA AllowedTell ==
  ASSUME NEW n, NEW s, IsNodeState(s), NEW b, NEW T,
         NEW q \in Told(n, b, T), NEW t, t = EnqueueReceivedMessage(s, q)
  PROVE  Allowed(n, s, t, b, T, {})
<1>1. q \in Packet
  BY DEF Told, Own
<1>2. Received(s, q, t)
  BY <1>1, ReceivedFacts
<1>3. /\ IsNodeState(t) /\ Adds(s.fromRadio, t.fromRadio, {q})
      /\ t.pending = s.pending /\ t.recent = s.recent /\ t.txQueue = s.txQueue
      /\ t.toPhone = s.toPhone /\ t.uplink = s.uplink /\ t.nextId = s.nextId /\ t.failed = s.failed
  BY <1>2 DEF Received
<1>8. Fades(n, s.fromRadio, t.fromRadio)
  <2>1. Swells(s.fromRadio, q, t.fromRadio) /\ q.from = n /\ s.fromRadio \in Seq(Packet)
    BY <1>2, StateFields DEF Received, Told, Own
  <2>. QED
    BY <2>1, SwellsFades
<1>4. Adds(s.fromRadio, t.fromRadio, Told(n, b, T)) /\ Adds(s.txQueue, t.txQueue, Queued(n, b, T) \cup {})
  BY <1>3, AddsMore, AddsNothing
<1>5. \A k, i : Number(s, k, i) \in Nat /\ Number(t, k, i) = Number(s, k, i)
  BY <1>3, NumberType DEF Number
<1>6. \A x \in (Node \X Nat) \ Fresh(n, b) :
        Number(t, x[1], x[2]) <= Number(s, x[1], x[2]) + (IF x \in PairsOf({}) THEN 1 ELSE 0)
  BY <1>5, SMT
<1>7. s.nextId <= t.nextId
  BY <1>3, StateFields
<1>. QED
  BY <1>3, <1>4, <1>6, <1>7, <1>8 DEF Allowed

LEMMA AckNakFacts ==
  ASSUME NEW n \in Node, NEW s, IsNodeState(s), NEW err \in Errors,
         NEW to \in Node \cup {BROADCAST, BROADCAST_NO_LORA}, NEW id \in Nat,
         NEW crypt \in Channel \cup {NoChannel}, Indexed => crypt # NoChannel, NEW hops \in 0 .. HOP_MAX,
         NEW b \in Nat, b <= s.nextId, NEW T, <<to, "routing", err, id>> \in T,
         NEW q, q = AllocAckNak(n, s, err, to, id, crypt, hops)
  PROVE  q \in Own(n, b, T) /\ q.plain /\ q.id = s.nextId /\ q.to = to /\ ~ q.wantAck
<1>1. s.nextId \in Nat /\ hops \in Nat /\ hops <= HOP_MAX
  BY StateFields DEF HOP_MAX
<1>2. /\ q.from = n /\ q.to = to /\ q.id = s.nextId /\ q.hopLimit = hops /\ q.hopStart = 0
      /\ q.wantAck = FALSE /\ q.prio = ACK /\ q.crypt = crypt /\ q.plain = TRUE
      /\ q.port = "routing" /\ q.reqId = id /\ q.err = err
  BY DEF AllocAckNak
<1>3. q \in Packet
  BY <1>1 DEF AllocAckNak, Packet, Ports
<1>4. q.id >= b
  BY <1>1, <1>2
<1>. QED
  BY <1>1, <1>2, <1>3, <1>4 DEF Own, Saying

LEMMA AllowedNak ==
  ASSUME NEW n \in Node, NEW s, IsNodeState(s), NEW b \in Nat, b <= s.nextId, NEW T,
         NEW err \in Errors, NEW id \in Nat, <<n, "routing", err, id>> \in T,
         NEW t, t = NakToSelf(n, s, err, id)
  PROVE  /\ Allowed(n, s, t, b, T, {}) /\ t.pending = s.pending
         /\ t.recent = s.recent /\ t.txQueue = s.txQueue /\ t.nextId = s.nextId + 1
<1>1. PICK u : u = [s EXCEPT !.nextId = @ + 1]
  OBVIOUS
<1>2. /\ IsNodeState(u) /\ u.nextId = s.nextId + 1
      /\ u.pending = s.pending /\ u.recent = s.recent /\ u.txQueue = s.txQueue
      /\ u.fromRadio = s.fromRadio /\ u.toPhone = s.toPhone /\ u.uplink = s.uplink /\ u.failed = s.failed
  BY <1>1, SetNextId
<1>3. PICK q : q = AllocAckNak(n, s, err, n, id, PRIMARY, 0)
  OBVIOUS
<1>4. PRIMARY \in Channel \cup {NoChannel} /\ PRIMARY # NoChannel /\ 0 \in 0 .. HOP_MAX
  BY RouterAssumption DEF HOP_MAX
<1>5. q \in Own(n, b, T) /\ q.plain /\ q.to = n
  BY <1>3, <1>4, AckNakFacts
<1>6. q \in Told(n, b, T) /\ q \in Packet
  BY <1>5 DEF Told, Own
<1>7. t = EnqueueReceivedMessage(u, q)
  BY <1>1, <1>3 DEF NakToSelf
<1>8. u.nextId >= s.nextId
  BY <1>2, StateFields, SMT
<1>9. Allowed(n, s, u, b, T, {})
  BY <1>2, <1>8, AllowedSame
<1>10. Allowed(n, u, t, b, T, {})
  BY <1>2, <1>6, <1>7, AllowedTell
<1>11. Received(u, q, t)
  BY <1>2, <1>6, <1>7, ReceivedFacts
<1>12. t.nextId = u.nextId /\ t.pending = u.pending /\ t.recent = u.recent /\ t.txQueue = u.txQueue
  BY <1>11 DEF Received
<1>. QED
  BY <1>2, <1>9, <1>10, <1>12, AllowedBoth

LEMMA AllowedCancel ==
  ASSUME NEW n, NEW s, IsNodeState(s), NEW b, NEW T, NEW from, NEW id,
         NEW t, t = CancelSending(s, from, id)
  PROVE  Allowed(n, s, t, b, T, {}) /\ t.pending = s.pending /\ t.recent = s.recent /\ t.nextId = s.nextId
<1>1. Cancelled(s, t)
  BY CancelFacts
<1>2. /\ IsNodeState(t) /\ Adds(s.txQueue, t.txQueue, {})
      /\ \A k, i : Number(t, k, i) <= Number(s, k, i)
      /\ t.pending = s.pending /\ t.recent = s.recent /\ t.fromRadio = s.fromRadio
      /\ t.toPhone = s.toPhone /\ t.uplink = s.uplink /\ t.nextId = s.nextId /\ t.failed = s.failed
  BY <1>1 DEF Cancelled
<1>3. Adds(s.fromRadio, t.fromRadio, Told(n, b, T)) /\ Adds(s.txQueue, t.txQueue, Queued(n, b, T) \cup {})
  BY <1>2, AddsNothing, AddsMore
<1>4. s.nextId <= t.nextId
  BY <1>2, StateFields
<1>5. \A k, i : Number(s, k, i) \in Nat /\ Number(t, k, i) \in Nat
  BY <1>2, NumberType
<1>6. \A x \in (Node \X Nat) \ Fresh(n, b) :
        Number(t, x[1], x[2]) <= Number(s, x[1], x[2]) + (IF x \in PairsOf({}) THEN 1 ELSE 0)
  BY <1>2, <1>5, SMT
<1>7. Fades(n, s.fromRadio, t.fromRadio)
  BY <1>2, FadesSame, StateFields
<1>. QED
  BY <1>2, <1>3, <1>4, <1>6, <1>7 DEF Allowed

(* t is s without a pending record of id. *)
Stopped(s, id, t) ==
  /\ IsNodeState(t) /\ t.recent = s.recent /\ t.nextId = s.nextId
  /\ DOMAIN t.pending = DOMAIN s.pending \ {id}
  /\ \A i \in DOMAIN t.pending : t.pending[i] = s.pending[i]

LEMMA AllowedStop ==
  ASSUME NEW n, NEW s, IsNodeState(s), NEW b, NEW T, NEW id, NEW t, t = StopRetransmission(n, s, id)
  PROVE  Allowed(n, s, t, b, T, {}) /\ Stopped(s, id, t)
<1>1. CASE id \notin DOMAIN s.pending
  <2>1. t = s
    BY <1>1 DEF StopRetransmission
  <2>. QED
    BY <1>1, <2>1, AllowedSame, StateFields DEF Stopped
<1>2. CASE id \in DOMAIN s.pending
  <2>1. PICK u : u = IF s.pending[id].left < NUM_RETRANSMISSIONS - 1 THEN CancelSending(s, n, id) ELSE s
    OBVIOUS
  <2>2. Allowed(n, s, u, b, T, {}) /\ u.pending = s.pending /\ u.recent = s.recent /\ u.nextId = s.nextId
    <3>1. CASE u = s
      BY <3>1, AllowedSame, StateFields
    <3>2. CASE u = CancelSending(s, n, id)
      BY <3>2, AllowedCancel
    <3>. QED
      BY <2>1, <3>1, <3>2
  <2>3. PICK D : D = DOMAIN s.pending \ {id}
    OBVIOUS
  <2>4. PICK x : x = [i \in D |-> s.pending[i]]
    OBVIOUS
  <2>5. IsRecords(x) /\ DOMAIN x = D /\ \A i \in D : x[i] = s.pending[i]
    BY <2>3, <2>4, StateFields DEF IsRecords
  <2>6. t = [u EXCEPT !.pending = x]
    BY <1>2, <2>1, <2>2, <2>3, <2>4 DEF StopRetransmission
  <2>7. IsNodeState(u)
    BY <2>2 DEF Allowed
  <2>8. /\ IsNodeState(t) /\ t.pending = x
        /\ t.recent = u.recent /\ t.txQueue = u.txQueue /\ t.fromRadio = u.fromRadio
        /\ t.toPhone = u.toPhone /\ t.uplink = u.uplink /\ t.nextId = u.nextId /\ t.failed = u.failed
    BY <2>5, <2>6, <2>7, SetPending
  <2>9. Allowed(n, s, t, b, T, {})
    <3>1. \A k, i : Number(t, k, i) = Number(u, k, i)
      BY <2>8 DEF Number
    <3>2. \A i \in DOMAIN t.pending : i \in DOMAIN s.pending /\ t.pending[i] = s.pending[i]
      BY <2>3, <2>5, <2>8
    <3>. QED
      BY <2>2, <2>8, <3>1, <3>2 DEF Allowed
  <2>. QED
    BY <2>2, <2>3, <2>5, <2>8, <2>9 DEF Stopped
<1>. QED
  BY <1>1, <1>2

LEMMA AllowedRadioSend ==
  ASSUME NEW n \in Node, NEW s, IsNodeState(s), NEW b \in Nat, NEW T, NEW L \in SUBSET Packet,
         NEW q \in Queued(n, b, T) \cup L, NEW t, t = RadioSend(n, s, q)
  PROVE  /\ Allowed(n, s, t, b, T, L) /\ t.pending = s.pending /\ t.recent = s.recent /\ t.nextId = s.nextId
<1>1. q \in Packet
  BY DEF Queued, Own
<1>2. MaySend(s, q, t)
  BY <1>1, RadioSendFacts
<1>3. /\ IsNodeState(t) /\ Adds(s.txQueue, t.txQueue, {q})
      /\ \A k, i : Number(t, k, i) <= Number(s, k, i) + (IF q.from = k /\ q.id = i THEN 1 ELSE 0)
      /\ t.pending = s.pending /\ t.recent = s.recent /\ t.fromRadio = s.fromRadio
      /\ t.toPhone = s.toPhone /\ t.uplink = s.uplink /\ t.nextId = s.nextId /\ t.failed = s.failed
  BY <1>2 DEF MaySend
<1>4. Adds(s.fromRadio, t.fromRadio, Told(n, b, T)) /\ Adds(s.txQueue, t.txQueue, Queued(n, b, T) \cup L)
  BY <1>3, AddsNothing, AddsMore
<1>5. <<q.from, q.id>> \in Fresh(n, b) \cup PairsOf(L)
  <2>1. q.from \in Node /\ q.id \in Nat
    BY <1>1 DEF Packet
  <2>2. (q.from = n /\ q.id >= b) \/ q \in L
    BY DEF Queued, Own
  <2>. QED
    BY <2>1, <2>2 DEF Fresh, PairsOf
<1>6. ASSUME NEW x \in (Node \X Nat) \ Fresh(n, b)
      PROVE  Number(t, x[1], x[2]) <= Number(s, x[1], x[2]) + (IF x \in PairsOf(L) THEN 1 ELSE 0)
  <2>1. (q.from = x[1] /\ q.id = x[2]) => x \in PairsOf(L)
    BY <1>5, <1>6
  <2>2. Number(t, x[1], x[2]) <= Number(s, x[1], x[2]) + (IF q.from = x[1] /\ q.id = x[2] THEN 1 ELSE 0)
    BY <1>3, Zenon
  <2>3. Number(s, x[1], x[2]) \in Nat /\ Number(t, x[1], x[2]) \in Nat
    BY <1>3, NumberType
  <2>. QED
    BY <2>1, <2>2, <2>3, SMT
<1>7. s.nextId <= t.nextId
  BY <1>3, StateFields
<1>8. Fades(n, s.fromRadio, t.fromRadio)
  BY <1>3, FadesSame, StateFields
<1>. QED
  BY <1>3, <1>4, <1>6, <1>7, <1>8 DEF Allowed

---------------------------------------------------------------------------
(* Sending. *)

(* The node may tell itself that a packet of its own with id k was refused. *)
Refused(n, T, k) == \A e \in Refusals : <<n, "routing", e, k>> \in T

(* What is remembered, and published, before a handler goes on. *)
LEMMA AllowedAfter ==
  ASSUME NEW n, NEW s, NEW u, NEW t, NEW b, NEW T, NEW L, IsNodeState(s), IsNodeState(u),
         u.pending = s.pending, u.txQueue = s.txQueue, u.fromRadio = s.fromRadio,
         u.toPhone = s.toPhone, u.nextId = s.nextId, u.failed = s.failed,
         s.recent \subseteq u.recent, u.recent \subseteq s.recent \cup Fresh(n, b) \cup PairsOf(L),
         \A i \in u.uplink : i \in s.uplink \/ (n \in MqttNodes /\ <<n, i>> \in Fresh(n, b) \cup PairsOf(L)),
         Allowed(n, u, t, b, T, L)
  PROVE  Allowed(n, s, t, b, T, L)
<1>1. \A k, i : Number(u, k, i) = Number(s, k, i)
  BY DEF Number
<1>2. s.recent \subseteq t.recent /\ t.recent \subseteq s.recent \cup Fresh(n, b) \cup PairsOf(L)
  <2>1. u.recent \subseteq t.recent /\ t.recent \subseteq u.recent \cup Fresh(n, b) \cup PairsOf(L)
    BY Zenon DEF Allowed
  <2>. QED
    BY <2>1
<1>3. \A i \in t.uplink : i \in s.uplink \/ (n \in MqttNodes /\ <<n, i>> \in Fresh(n, b) \cup PairsOf(L))
  <2>1. \A i \in t.uplink : i \in u.uplink \/ (n \in MqttNodes /\ <<n, i>> \in Fresh(n, b) \cup PairsOf(L))
    BY Zenon DEF Allowed
  <2>. QED
    BY <2>1
<1>4. \A x \in (Node \X Nat) \ Fresh(n, b) :
        Number(t, x[1], x[2]) <= Number(s, x[1], x[2]) + (IF x \in PairsOf(L) THEN 1 ELSE 0)
  <2>1. \A x \in (Node \X Nat) \ Fresh(n, b) :
          Number(t, x[1], x[2]) <= Number(u, x[1], x[2]) + (IF x \in PairsOf(L) THEN 1 ELSE 0)
    BY Zenon DEF Allowed
  <2>. QED
    BY <1>1, <2>1
<1>5. /\ IsNodeState(t) /\ s.nextId <= t.nextId /\ t.toPhone = s.toPhone
      /\ t.failed => s.failed \/ ~ Indexed
      /\ Adds(s.fromRadio, t.fromRadio, Told(n, b, T)) /\ Fades(n, s.fromRadio, t.fromRadio)
      /\ Adds(s.txQueue, t.txQueue, Queued(n, b, T) \cup L)
      /\ \A i \in DOMAIN t.pending :
           \/ i \in DOMAIN s.pending /\ t.pending[i] = s.pending[i]
           \/ /\ i >= b /\ i < t.nextId /\ t.pending[i].packet.id = i
              /\ t.pending[i].packet \in Own(n, b, T) /\ t.pending[i].packet.wantAck
              /\ t.pending[i].packet.plain
  BY DEF Allowed
<1>. QED
  BY <1>2, <1>3, <1>4, <1>5 DEF Allowed

LEMMA EncodeErrors ==
  ASSUME NEW n, NEW p
  PROVE  EncodeError(n, p) = "NONE" \/ EncodeError(n, p) \in {"PKI_FAILED", "NO_CHANNEL"}
  BY DEF EncodeError

(* Router::send puts at most the packet itself on the queue, once. *)
LEMMA AllowedRouterSend ==
  ASSUME NEW n \in Node, NEW s, IsNodeState(s), NEW b \in Nat, b <= s.nextId, NEW T,
         NEW L \in SUBSET Sealed, NEW p \in Packet, NEW over,
         p.crypt # NoChannel => OnQueue(n, p) \in Queued(n, b, T) \cup L,
         p.crypt = NoChannel => p.plain /\ ~ Indexed,
         Refused(n, T, p.id), NEW t, t = RouterSend(n, s, p, over)
  PROVE  Allowed(n, s, t, b, T, L) /\ t.pending = s.pending /\ t.recent = s.recent
<1>0. L \in SUBSET Packet
  BY DEF Sealed
<1>n. ASSUME NEW e \in Refusals, t = AbortSendAndNak(n, s, e, p)
      PROVE  Allowed(n, s, t, b, T, L) /\ t.pending = s.pending /\ t.recent = s.recent
  <2>1. e \in Errors /\ p.id \in Nat /\ <<n, "routing", e, p.id>> \in T
    BY <1>n DEF Refusals, Errors, Packet, Refused
  <2>2. t = NakToSelf(n, s, e, p.id)
    BY <1>n DEF AbortSendAndNak
  <2>3. Allowed(n, s, t, b, T, {}) /\ t.pending = s.pending /\ t.recent = s.recent
    BY <2>1, <2>2, AllowedNak
  <2>4. Allowed(n, t, t, b, T, L)
    <3>1. IsNodeState(t)
      BY <2>3 DEF Allowed
    <3>2. t.nextId >= t.nextId
      BY <3>1, StateFields
    <3>. QED
      BY <3>1, <3>2, AllowedSame
  <2>. QED
    BY <2>3, <2>4, AllowedBoth
<1>1. CASE t = s
  BY <1>1, AllowedSame, StateFields
<1>2. CASE t = AbortSendAndNak(n, s, "DUTY_CYCLE_LIMIT", p)
  BY <1>2, <1>n DEF Refusals
<1>3. CASE ~ p.plain /\ t = RadioSend(n, s, Prepared(n, p))
  <2>1. OnQueue(n, p) = Prepared(n, p) /\ OnQueue(n, p) \in Queued(n, b, T) \cup L
    BY <1>3 DEF OnQueue
  <2>2. PICK q \in Queued(n, b, T) \cup L : q = Prepared(n, p)
    BY <2>1
  <2>3. t = RadioSend(n, s, q)
    BY <1>3, <2>2
  <2>. QED
    BY <1>0, <2>2, <2>3, AllowedRadioSend
<1>4. CASE p.plain /\ p.crypt = NoChannel /\ t = [s EXCEPT !.failed = TRUE]
  <2>1. /\ IsNodeState(t) /\ ~ Indexed
        /\ t.pending = s.pending /\ t.recent = s.recent /\ t.txQueue = s.txQueue
        /\ t.fromRadio = s.fromRadio /\ t.toPhone = s.toPhone /\ t.uplink = s.uplink /\ t.nextId = s.nextId
    BY <1>4, SetFailed
  <2>2. Allowed(n, s, s, b, T, L)
    BY AllowedSame, StateFields
  <2>3. \A k, i : Number(t, k, i) = Number(s, k, i)
    BY <2>1 DEF Number
  <2>. QED
    BY <2>1, <2>2, <2>3 DEF Allowed
<1>5. CASE EncodeError(n, p) # "NONE" /\ t = AbortSendAndNak(n, s, EncodeError(n, p), p)
  <2>1. EncodeError(n, p) \in Refusals
    BY <1>5, EncodeErrors DEF Refusals
  <2>. QED
    BY <1>5, <2>1, <1>n
<1>6. CASE /\ p.plain /\ p.crypt # NoChannel
           /\ t = LET published == n \in MqttNodes /\ p.from = n
                  IN RadioSend(n,
                       [s EXCEPT !.uplink = IF published THEN @ \cup {p.id} ELSE @],
                       Encoded(n, Prepared(n, p)))
  <2>1. PICK x : x = IF n \in MqttNodes /\ p.from = n THEN s.uplink \cup {p.id} ELSE s.uplink
    OBVIOUS
  <2>2. PICK u : u = [s EXCEPT !.uplink = x]
    OBVIOUS
  <2>3. s.uplink \subseteq Nat /\ p.id \in Nat
    BY StateFields DEF Packet
  <2>4. x \in SUBSET Nat
    BY <2>1, <2>3
  <2>5. /\ IsNodeState(u) /\ u.uplink = x
        /\ u.pending = s.pending /\ u.recent = s.recent /\ u.txQueue = s.txQueue
        /\ u.fromRadio = s.fromRadio /\ u.toPhone = s.toPhone /\ u.nextId = s.nextId /\ u.failed = s.failed
    BY <2>2, <2>4, SetUplink
  <2>6. PICK q \in Queued(n, b, T) \cup L : q = OnQueue(n, p)
    BY <1>6
  <2>7. t = RadioSend(n, u, q)
    BY <1>6, <2>1, <2>2, <2>6, Zenon DEF OnQueue
  <2>8. Allowed(n, u, t, b, T, L) /\ t.pending = u.pending /\ t.recent = u.recent
    BY <1>0, <2>5, <2>6, <2>7, AllowedRadioSend
  <2>9. <<p.from, p.id>> \in Fresh(n, b) \cup PairsOf(L)
    <3>1. q.from = p.from /\ q.id = p.id /\ q.from \in Node /\ q.id \in Nat
      BY <2>6, OnQueueFacts DEF Packet
    <3>. QED
      BY <2>6, <3>1 DEF Queued, Own, Fresh, PairsOf
  <2>10. \A i \in u.uplink : i \in s.uplink \/ (n \in MqttNodes /\ <<n, i>> \in Fresh(n, b) \cup PairsOf(L))
    BY <2>1, <2>5, <2>9
  <2>. QED
    BY <2>5, <2>8, <2>10, AllowedAfter
<1>. QED
  BY <1>1, <1>2, <1>3, <1>4, <1>5, <1>6, Zenon DEF RouterSend

(* A packet of the node's own goes out as one. *)
LEMMA OwnOnQueue ==
  ASSUME NEW n \in Node, NEW b \in Nat, NEW T, NEW p \in Own(n, b, T), p.plain, p.crypt # NoChannel
  PROVE  OnQueue(n, p) \in Queued(n, b, T)
<1>1. PICK q : q = OnQueue(n, p)
  OBVIOUS
<1>2. /\ p \in Packet /\ p.from = n /\ p.id >= b /\ Saying(p) \in T /\ p.hopLimit <= HOP_MAX
      /\ p.port \in {"routing", "response"} /\ (p.port = "routing" => ~ p.wantAck)
  BY DEF Own
<1>3. /\ q \in Packet /\ q.from = p.from /\ q.to = p.to /\ q.id = p.id /\ q.hopLimit = p.hopLimit
      /\ q.hopStart = (IF p.from = n THEN p.hopLimit ELSE p.hopStart)
      /\ q.wantAck = (p.wantAck /\ ~ IsBroadcast(p.to))
      /\ q.crypt = (IF p.plain /\ UsesPKI(n, p) THEN PKI ELSE p.crypt) /\ ~ q.plain /\ q.port = p.port
      /\ q.reqId = p.reqId /\ q.err = p.err
  BY <1>1, <1>2, OnQueueFacts
<1>4. q.crypt # NoChannel
  BY <1>3, RouterAssumption DEF UsesPKI
<1>5. Saying(q) = Saying(p)
  BY <1>3 DEF Saying
<1>6. q \in Own(n, b, T)
  BY <1>2, <1>3, <1>4, <1>5 DEF Own
<1>7. q \in Sealed /\ q.hopStart = q.hopLimit
  BY <1>2, <1>3, <1>4 DEF Sealed
<1>. QED
  BY <1>1, <1>6, <1>7 DEF Queued

(* t is s with a pending record of p. *)
Starts(s, p, t) ==
  /\ IsNodeState(t) /\ t.recent = s.recent /\ t.txQueue = s.txQueue /\ t.fromRadio = s.fromRadio
  /\ t.toPhone = s.toPhone /\ t.uplink = s.uplink /\ t.nextId = s.nextId /\ t.failed = s.failed
  /\ DOMAIN t.pending = DOMAIN s.pending \cup {p.id}
  /\ t.pending[p.id] = [packet |-> p, left |-> NUM_RETRANSMISSIONS - 1]
  /\ \A i \in DOMAIN s.pending : i # p.id => t.pending[i] = s.pending[i]

LEMMA StartFacts ==
  ASSUME NEW n, NEW s, IsNodeState(s), NEW p \in Packet, NEW t, t = StartRetransmission(n, s, p)
  PROVE  \E u : u = StopRetransmission(n, s, p.id) /\ Starts(u, p, t)
<1>1. PICK u : u = StopRetransmission(n, s, p.id)
  OBVIOUS
<1>2. IsNodeState(u)
  <2>1. Stopped(s, p.id, u)
    BY <1>1, AllowedStop
  <2>. QED
    BY <2>1 DEF Stopped
<1>3. PICK D : D = DOMAIN u.pending \cup {p.id}
  OBVIOUS
<1>4. PICK e : e = [packet |-> p, left |-> NUM_RETRANSMISSIONS - 1]
  OBVIOUS
<1>5. e \in Pending
  <2>1. NUM_RETRANSMISSIONS - 1 \in Nat
    BY RouterAssumption
  <2>. QED
    BY <1>4, <2>1 DEF Pending
<1>6. PICK x : x = [i \in D |-> IF i = p.id THEN e ELSE u.pending[i]]
  OBVIOUS
<1>7. D \in SUBSET Nat
  <2>1. p.id \in Nat /\ DOMAIN u.pending \subseteq Nat
    BY <1>2, StateFields DEF Packet
  <2>. QED
    BY <1>3, <2>1
<1>8. x \in [D -> Pending] /\ x[p.id] = e /\ \A i \in DOMAIN u.pending : i # p.id => x[i] = u.pending[i]
  BY <1>2, <1>3, <1>5, <1>6, StateFields
<1>9. t = [u EXCEPT !.pending = x]
  BY <1>1, <1>3, <1>4, <1>6 DEF StartRetransmission
<1>10. /\ IsNodeState(t) /\ t.pending = x
       /\ t.recent = u.recent /\ t.txQueue = u.txQueue /\ t.fromRadio = u.fromRadio
       /\ t.toPhone = u.toPhone /\ t.uplink = u.uplink /\ t.nextId = u.nextId /\ t.failed = u.failed
  <2>1. IsRecords(x)
    BY <1>7, <1>8 DEF IsRecords
  <2>. QED
    BY <1>2, <1>9, <2>1, SetPending
<1>11. Starts(u, p, t)
  BY <1>3, <1>4, <1>8, <1>10 DEF Starts
<1>. QED
  BY <1>1, <1>11

(* A new packet of the node's own, sent with whatever it wants. *)
LEMMA AllowedSendOwn ==
  ASSUME NEW n \in Node, NEW s, IsNodeState(s), NEW b \in Nat, b <= s.nextId, NEW T,
         NEW p \in Own(n, b, T), p.plain, p.id < s.nextId, \A k \in Nat : k >= b => Refused(n, T, k),
         NEW over, NEW t, t = SendLocal(n, s, p, over)
  PROVE  Allowed(n, s, t, b, T, {})
<1>0. /\ p \in Packet /\ p.from = n /\ p.id >= b /\ p.id \in Nat /\ p.hopLimit \in Nat /\ s.nextId \in Nat
      /\ Refused(n, T, p.id)
  BY StateFields DEF Own, Packet
<1>1. CASE p.to = n
  <2>1. p \in Told(n, b, T) /\ t = EnqueueReceivedMessage(s, p)
    BY <1>1 DEF Told, SendLocal
  <2>. QED
    BY <2>1, AllowedTell
<1>f. ASSUME NEW q \in Own(n, b, T), q.plain, q.id = p.id, NEW v, Allowed(n, s, v, b, T, {}), b <= v.nextId,
             t = FloodingSend(n, v, q, over)
      PROVE  Allowed(n, s, t, b, T, {})
  <2>1. q \in Packet /\ <<q.from, q.id>> \in Node \X Nat /\ <<q.from, q.id>> \in Fresh(n, b) /\ q.from = n
    BY <1>0, <1>f DEF Own, Fresh
  <2>2. PICK x : x = v.recent \cup {<<q.from, q.id>>}
    OBVIOUS
  <2>3. PICK u : u = [v EXCEPT !.recent = x]
    OBVIOUS
  <2>4. IsNodeState(v)
    BY <1>f DEF Allowed
  <2>5. x \in Recents
    BY <2>1, <2>2, <2>4, StateFields DEF Recents
  <2>6. /\ IsNodeState(u) /\ u.recent = x
        /\ u.pending = v.pending /\ u.txQueue = v.txQueue /\ u.fromRadio = v.fromRadio
        /\ u.toPhone = v.toPhone /\ u.uplink = v.uplink /\ u.nextId = v.nextId /\ u.failed = v.failed
    BY <2>3, <2>4, <2>5, SetRecent
  <2>7. t = RouterSend(n, u, q, over)
    BY <1>f, <2>2, <2>3 DEF FloodingSend
  <2>8. q.crypt # NoChannel => OnQueue(n, q) \in Queued(n, b, T) \cup {}
    BY <1>f, OwnOnQueue
  <2>9. q.crypt = NoChannel => q.plain /\ ~ Indexed
    BY <1>f DEF Own
  <2>10. Refused(n, T, q.id) /\ b <= u.nextId /\ {} \in SUBSET Sealed
    BY <1>0, <1>f, <2>6
  <2>11. Allowed(n, u, t, b, T, {})
    BY <2>1, <2>6, <2>7, <2>8, <2>9, <2>10, AllowedRouterSend
  <2>12. v.recent \subseteq u.recent /\ u.recent \subseteq v.recent \cup Fresh(n, b) \cup PairsOf({})
    BY <2>1, <2>2, <2>6
  <2>13. Allowed(n, v, t, b, T, {})
    BY <2>4, <2>6, <2>11, <2>12, AllowedAfter
  <2>. QED
    BY <1>f, <2>13, AllowedBoth
<1>2. CASE p.to # n /\ ~ p.wantAck
  <2>1. t = FloodingSend(n, s, p, over)
    BY <1>2 DEF SendLocal, ReliableSend
  <2>2. Allowed(n, s, s, b, T, {})
    BY <1>0, AllowedSame, StateFields
  <2>. QED
    BY <2>1, <2>2, <1>f
<1>3. CASE p.to # n /\ p.wantAck
  <2>1. PICK h : h = IF p.hopLimit = 0 THEN LoraHopLimit ELSE p.hopLimit
    OBVIOUS
  <2>2. h \in Nat /\ h <= HOP_MAX
    BY <1>0, <2>1, RouterAssumption DEF Own, HOP_MAX
  <2>3. PICK q : q = [p EXCEPT !.hopLimit = h]
    OBVIOUS
  <2>4. /\ q \in Packet /\ q.from = p.from /\ q.to = p.to /\ q.id = p.id /\ q.hopLimit = h
        /\ q.hopStart = p.hopStart /\ q.wantAck = p.wantAck /\ q.crypt = p.crypt /\ q.plain = p.plain
        /\ q.port = p.port /\ q.reqId = p.reqId /\ q.err = p.err
    BY <1>0, <2>2, <2>3 DEF Packet
  <2>5. Saying(q) = Saying(p)
    BY <2>4 DEF Saying
  <2>6. q \in Own(n, b, T)
    BY <1>0, <2>2, <2>4, <2>5 DEF Own
  <2>7. PICK v : v = StartRetransmission(n, s, q)
    OBVIOUS
  <2>8. t = FloodingSend(n, v, q, over)
    BY <1>3, <2>1, <2>3, <2>7 DEF SendLocal, ReliableSend
  <2>9. PICK w : w = StopRetransmission(n, s, q.id) /\ Starts(w, q, v)
    BY <2>4, <2>7, StartFacts
  <2>10. Allowed(n, s, w, b, T, {}) /\ w.nextId = s.nextId
    BY <2>9, AllowedStop DEF Stopped
  <2>11. Allowed(n, s, v, b, T, {})
    <3>1. \A k, i : Number(v, k, i) = Number(w, k, i)
      BY <2>9 DEF Number, Starts
    <3>2. ASSUME NEW i \in DOMAIN v.pending
          PROVE  \/ i \in DOMAIN s.pending /\ v.pending[i] = s.pending[i]
                 \/ /\ i >= b /\ i < v.nextId /\ v.pending[i].packet.id = i
                    /\ v.pending[i].packet \in Own(n, b, T) /\ v.pending[i].packet.wantAck
                    /\ v.pending[i].packet.plain
      <4>1. CASE i = q.id
        <5>1. v.pending[i].packet = q /\ v.nextId = s.nextId
          BY <2>9, <2>10, <4>1 DEF Starts
        <5>. QED
          BY <1>0, <1>3, <2>4, <2>6, <4>1, <5>1
      <4>2. CASE i # q.id
        <5>1. i \in DOMAIN w.pending /\ v.pending[i] = w.pending[i] /\ v.nextId = w.nextId
          BY <3>2, <2>9, <4>2 DEF Starts
        <5>. QED
          BY <2>10, <5>1 DEF Allowed
      <4>. QED
        BY <4>1, <4>2
    <3>3. /\ IsNodeState(v) /\ v.recent = w.recent /\ v.txQueue = w.txQueue /\ v.fromRadio = w.fromRadio
          /\ v.toPhone = w.toPhone /\ v.uplink = w.uplink /\ v.nextId = w.nextId /\ v.failed = w.failed
      BY <2>9 DEF Starts
    <3>. QED
      BY <2>10, <3>1, <3>2, <3>3 DEF Allowed
  <2>12. b <= v.nextId
    BY <2>9, <2>10 DEF Starts
  <2>. QED
    BY <1>3, <2>4, <2>6, <2>8, <2>11, <2>12, <1>f
<1>. QED
  BY <1>1, <1>2, <1>3

LEMMA AllowedSendAckNak ==
  ASSUME NEW n \in Node, NEW s, IsNodeState(s), NEW b \in Nat, b <= s.nextId, NEW T,
         NEW err \in Errors, NEW to \in Node, NEW id \in Nat, NEW crypt \in Channel \cup {NoChannel},
         Indexed => crypt # NoChannel, NEW hops \in 0 .. HOP_MAX, <<to, "routing", err, id>> \in T,
         \A k \in Nat : k >= b => Refused(n, T, k),
         NEW over, NEW t, t = SendAckNak(n, s, err, to, id, crypt, hops, over)
  PROVE  Allowed(n, s, t, b, T, {})
<1>1. PICK u : u = [s EXCEPT !.nextId = @ + 1]
  OBVIOUS
<1>2. /\ IsNodeState(u) /\ u.nextId = s.nextId + 1
      /\ u.pending = s.pending /\ u.recent = s.recent /\ u.txQueue = s.txQueue
      /\ u.fromRadio = s.fromRadio /\ u.toPhone = s.toPhone /\ u.uplink = s.uplink /\ u.failed = s.failed
  BY <1>1, SetNextId
<1>3. PICK q : q = AllocAckNak(n, s, err, to, id, crypt, hops)
  OBVIOUS
<1>4. q \in Own(n, b, T) /\ q.plain /\ q.id = s.nextId
  BY <1>3, AckNakFacts
<1>5. t = SendLocal(n, u, q, over)
  BY <1>1, <1>3 DEF SendAckNak
<1>6. q.id < u.nextId /\ u.nextId >= s.nextId /\ b <= u.nextId
  BY <1>2, <1>4, StateFields, SMT
<1>7. Allowed(n, s, u, b, T, {})
  BY <1>2, <1>6, AllowedSame
<1>8. Allowed(n, u, t, b, T, {})
  BY <1>2, <1>4, <1>5, <1>6, AllowedSendOwn
<1>. QED
  BY <1>7, <1>8, AllowedBoth

---------------------------------------------------------------------------
(* Receiving. *)

(* What node n, when it handles p, may say: an answer to p, or to itself    *)
(* that p or a packet of its own was refused, or an implicit ack.           *)
Answers(n, b, p, heard, told) ==
  {x \in (Node \cup {BROADCAST, BROADCAST_NO_LORA}) \X Ports \X Errors \X Nat :
     \/ /\ x[1] = p.from /\ x[2] = "routing" /\ x[4] = p.id
        /\ x[3] # "MAX_RETRANSMIT" /\ (x[3] = "NONE" => heard)
     \/ x[1] = p.from /\ x[2] = "response" /\ x[3] = "NONE" /\ x[4] = p.id
     \/ x[1] = n /\ x[2] = "routing" /\ x[3] \in Refusals /\ (x[4] = p.id \/ x[4] >= b)
     \/ x[1] = n /\ x[2] = "routing" /\ x[3] = "NONE" /\ x[4] = p.id /\ told}

LEMMA AnswersRefuse ==
  ASSUME NEW n \in Node, NEW b \in Nat, NEW p \in Packet, NEW heard, NEW told
  PROVE  /\ Refused(n, Answers(n, b, p, heard, told), p.id)
         /\ \A k \in Nat : k >= b => Refused(n, Answers(n, b, p, heard, told), k)
<1>1. SUFFICES ASSUME NEW e \in Refusals, NEW k \in Nat, k = p.id \/ k >= b
               PROVE  <<n, "routing", e, k>> \in Answers(n, b, p, heard, told)
  BY DEF Refused, Packet
<1>2. e \in Errors /\ "routing" \in Ports
  BY DEF Refusals, Errors, Ports
<1>. QED
  BY <1>1, <1>2 DEF Answers

LEMMA AnswersAck ==
  ASSUME NEW n \in Node, NEW b \in Nat, NEW p \in Packet, NEW heard, NEW told,
         NEW err \in Errors, err # "MAX_RETRANSMIT", err = "NONE" => heard
  PROVE  <<p.from, "routing", err, p.id>> \in Answers(n, b, p, heard, told)
<1>1. p.from \in Node /\ p.id \in Nat /\ "routing" \in Ports
  BY DEF Packet, Ports
<1>. QED
  BY <1>1 DEF Answers

(* What a handler may be given. *)
Readable(p) ==
  /\ p \in Packet /\ p.hopStart <= HOP_MAX
  /\ p.crypt = NoChannel => p.plain /\ ~ Indexed

LEMMA ResponseHops ==
  ASSUME NEW p, Readable(p)
  PROVE  HopLimitForResponse(p) \in 0 .. HOP_MAX
<1>1. p.hopStart \in Nat /\ p.hopLimit \in Nat /\ p.hopStart <= HOP_MAX /\ LoraHopLimit \in 0 .. HOP_MAX
  BY RouterAssumption DEF Readable, Packet
<1>. QED
  BY <1>1, SMT DEF HopLimitForResponse, HOP_MAX

LEMMA ReplyChannels ==
  ASSUME NEW p, Readable(p)
  PROVE  ReplyChannel(p) \in Channel \cup {NoChannel} /\ (Indexed => ReplyChannel(p) # NoChannel)
<1>1. p.crypt \in Channel \cup {PKI, NoChannel} /\ (p.crypt = NoChannel => ~ Indexed)
  BY DEF Readable, Packet
<1>. QED
  BY <1>1, RouterAssumption DEF ReplyChannel

(* The packet as its relay sends it on. *)
Relayed(n, p) ==
  IF WillRebroadcast(n, p) /\ p.crypt # NoChannel
  THEN {OnQueue(n, [p EXCEPT !.hopLimit = @ - 1])} ELSE {}

LEMMA RelayedFacts ==
  ASSUME NEW n \in Node, NEW p, Readable(p), WillRebroadcast(n, p),
         NEW r, r = [p EXCEPT !.hopLimit = @ - 1]
  PROVE  /\ r \in Packet /\ r.from = p.from /\ r.to = p.to /\ r.id = p.id /\ r.hopLimit = p.hopLimit - 1
         /\ r.hopStart = p.hopStart /\ r.wantAck = p.wantAck /\ r.crypt = p.crypt /\ r.plain = p.plain
         /\ r.port = p.port /\ r.reqId = p.reqId /\ r.err = p.err
<1>1. p \in Packet /\ p.hopLimit \in Nat /\ p.hopLimit > 0
  BY DEF Readable, Packet, WillRebroadcast
<1>2. PICK h \in Nat : h = p.hopLimit - 1
  BY <1>1
<1>3. r = [p EXCEPT !.hopLimit = h]
  BY <1>2
<1>. QED
  BY <1>1, <1>2, <1>3 DEF Packet

LEMMA RelayedSealed ==
  ASSUME NEW n \in Node, NEW p, Readable(p)
  PROVE  Relayed(n, p) \in SUBSET Sealed
<1>1. SUFFICES ASSUME WillRebroadcast(n, p), p.crypt # NoChannel
               PROVE  OnQueue(n, [p EXCEPT !.hopLimit = @ - 1]) \in Sealed
  BY DEF Relayed
<1>2. PICK r : r = [p EXCEPT !.hopLimit = @ - 1]
  OBVIOUS
<1>3. r \in Packet /\ r.crypt # NoChannel
  BY <1>1, <1>2, RelayedFacts
<1>4. PICK q : q = OnQueue(n, r)
  OBVIOUS
<1>5. q \in Packet /\ q.crypt = (IF r.plain /\ UsesPKI(n, r) THEN PKI ELSE r.crypt) /\ ~ q.plain
  BY <1>3, <1>4, OnQueueFacts
<1>. QED
  BY <1>2, <1>3, <1>4, <1>5, RouterAssumption DEF Sealed

LEMMA AllowedRelay ==
  ASSUME NEW n \in Node, NEW s, IsNodeState(s), NEW b \in Nat, b <= s.nextId, NEW T,
         NEW p, Readable(p), Refused(n, T, p.id), NEW over, NEW t, t = PerhapsRebroadcast(n, s, p, over)
  PROVE  Allowed(n, s, t, b, T, Relayed(n, p)) /\ t.pending = s.pending
<1>1. CASE ~ WillRebroadcast(n, p)
  <2>1. t = s
    BY <1>1 DEF PerhapsRebroadcast
  <2>. QED
    BY <2>1, AllowedSame, StateFields
<1>2. CASE WillRebroadcast(n, p)
  <2>1. PICK r : r = [p EXCEPT !.hopLimit = @ - 1]
    OBVIOUS
  <2>2. r \in Packet /\ r.id = p.id /\ r.crypt = p.crypt /\ r.plain = p.plain
    BY <1>2, <2>1, RelayedFacts
  <2>3. r.crypt # NoChannel => OnQueue(n, r) \in Queued(n, b, T) \cup Relayed(n, p)
    BY <1>2, <2>1, <2>2 DEF Relayed
  <2>4. Relayed(n, p) \in SUBSET Sealed /\ Refused(n, T, r.id)
    BY <2>2, RelayedSealed
  <2>5. r.crypt = NoChannel => r.plain /\ ~ Indexed
    BY <2>2 DEF Readable
  <2>6. t = RouterSend(n, s, r, over)
    BY <1>2, <2>1 DEF PerhapsRebroadcast
  <2>7. PICK L \in SUBSET Sealed : L = Relayed(n, p)
    BY <2>4
  <2>8. r.crypt # NoChannel => OnQueue(n, r) \in Queued(n, b, T) \cup L
    BY <2>3, <2>7
  <2>9. Allowed(n, s, t, b, T, L) /\ t.pending = s.pending
    BY <2>2, <2>4, <2>5, <2>6, <2>8, AllowedRouterSend
  <2>. QED
    BY <2>7, <2>9
<1>. QED
  BY <1>1, <1>2

LEMMA AllowedFloodingSniff ==
  ASSUME NEW n \in Node, NEW s, IsNodeState(s), NEW b \in Nat, b <= s.nextId, NEW T,
         NEW p, Readable(p), Refused(n, T, p.id), NEW over, NEW t, t = FloodingSniffReceived(n, s, p, over)
  PROVE  Allowed(n, s, t, b, T, Relayed(n, p))
<1>1. PICK u : /\ u = s \/ u = CancelSending(s, p.to, p.reqId)
               /\ t = PerhapsRebroadcast(n, u, p, over)
  BY DEF FloodingSniffReceived
<1>2. Allowed(n, s, u, b, T, {}) /\ u.nextId = s.nextId
  <2>1. CASE u = s
    BY <2>1, AllowedSame, StateFields
  <2>2. CASE u = CancelSending(s, p.to, p.reqId)
    BY <2>2, AllowedCancel
  <2>. QED
    BY <1>1, <2>1, <2>2
<1>3. IsNodeState(u) /\ b <= u.nextId
  BY <1>2 DEF Allowed
<1>4. Allowed(n, u, t, b, T, Relayed(n, p))
  BY <1>1, <1>3, AllowedRelay
<1>. QED
  BY <1>2, <1>4, AllowedBoth

(* An ack says the packet was decoded, and read by a module. *)
Heard(n, p) == p.plain /\ p.to = n /\ p.wantAck /\ p.port # "unreadable"

LEMMA AllowedAcknowledge ==
  ASSUME NEW n \in Node, NEW s, IsNodeState(s), NEW b \in Nat, b <= s.nextId,
         NEW p, Readable(p), ~ Stopping(n, p), NEW told, NEW T, T = Answers(n, b, p, Heard(n, p), told),
         NEW replying, NEW over, NEW t, t = Acknowledge(n, s, p, replying, over)
  PROVE  Allowed(n, s, t, b, T, {})
<1>0. /\ p \in Packet /\ p.from \in Node /\ p.id \in Nat
      /\ PRIMARY \in Channel \cup {NoChannel} /\ (Indexed => PRIMARY # NoChannel) /\ 0 \in 0 .. HOP_MAX
  BY RouterAssumption DEF Readable, Packet, HOP_MAX
<1>1. \A k \in Nat : k >= b => Refused(n, T, k)
  BY <1>0, AnswersRefuse
<1>2. /\ HopLimitForResponse(p) \in 0 .. HOP_MAX
      /\ ReplyChannel(p) \in Channel \cup {NoChannel} /\ (Indexed => ReplyChannel(p) # NoChannel)
  BY ResponseHops, ReplyChannels
<1>3. CASE t = s
  BY <1>3, AllowedSame, StateFields
<1>4. ASSUME Heard(n, p), NEW h \in 0 .. HOP_MAX,
             t = SendAckNak(n, s, "NONE", p.from, p.id, ReplyChannel(p), h, over)
      PROVE  Allowed(n, s, t, b, T, {})
  <2>1. "NONE" \in Errors /\ "NONE" # "MAX_RETRANSMIT"
    BY DEF Errors
  <2>2. <<p.from, "routing", "NONE", p.id>> \in T
    BY <1>0, <1>4, <2>1, AnswersAck
  <2>. QED
    BY <1>0, <1>1, <1>2, <1>4, <2>1, <2>2, AllowedSendAckNak
<1>5. ASSUME NEW e \in {"PKI_UNKNOWN_PUBKEY", "NO_CHANNEL"},
             t = SendAckNak(n, s, e, p.from, p.id, PRIMARY, HopLimitForResponse(p), over)
      PROVE  Allowed(n, s, t, b, T, {})
  <2>1. e \in Errors /\ e # "MAX_RETRANSMIT" /\ e # "NONE"
    BY DEF Errors
  <2>2. <<p.from, "routing", e, p.id>> \in T
    BY <1>0, <2>1, AnswersAck
  <2>. QED
    BY <1>0, <1>1, <1>2, <1>5, <2>1, <2>2, AllowedSendAckNak
<1>6. \/ t = s
      \/ /\ Heard(n, p)
         /\ \/ t = SendAckNak(n, s, "NONE", p.from, p.id, ReplyChannel(p), HopLimitForResponse(p), over)
            \/ t = SendAckNak(n, s, "NONE", p.from, p.id, ReplyChannel(p), 0, over)
      \/ \E e \in {"PKI_UNKNOWN_PUBKEY", "NO_CHANNEL"} :
           t = SendAckNak(n, s, e, p.from, p.id, PRIMARY, HopLimitForResponse(p), over)
  BY DEF Acknowledge, Heard, Stopping, ForUs
<1>. QED
  BY <1>0, <1>2, <1>3, <1>4, <1>5, <1>6

LEMMA AllowedSniff ==
  ASSUME NEW n \in Node, NEW s, IsNodeState(s), NEW b \in Nat, b <= s.nextId,
         NEW p, Readable(p), ~ Stopping(n, p), NEW told, NEW T, T = Answers(n, b, p, Heard(n, p), told),
         NEW replying, NEW over, NEW t, t = ReliableSniffReceived(n, s, p, replying, over)
  PROVE  Allowed(n, s, t, b, T, Relayed(n, p))
<1>1. PICK u : u = Acknowledge(n, s, p, replying, over)
  OBVIOUS
<1>2. Allowed(n, s, u, b, T, {})
  BY <1>1, AllowedAcknowledge
<1>3. IsNodeState(u) /\ u.nextId \in Nat /\ s.nextId <= u.nextId /\ s.nextId \in Nat
  BY <1>2, StateFields DEF Allowed
<1>4. PICK v : /\ v = u \/ v = StopRetransmission(n, u, p.reqId)
               /\ t = FloodingSniffReceived(n, v, p, over)
  BY <1>1 DEF ReliableSniffReceived
<1>5. Allowed(n, u, v, b, T, {})
  <2>1. CASE v = u
    BY <1>3, <2>1, AllowedSame
  <2>2. CASE v = StopRetransmission(n, u, p.reqId)
    BY <1>3, <2>2, AllowedStop
  <2>. QED
    BY <1>4, <2>1, <2>2
<1>6. Allowed(n, s, v, b, T, {})
  BY <1>2, <1>5, AllowedBoth
<1>7. IsNodeState(v) /\ b <= v.nextId
  <2>1. IsNodeState(v) /\ v.nextId \in Nat /\ s.nextId <= v.nextId
    BY <1>6, StateFields DEF Allowed
  <2>. QED
    BY <1>3, <2>1
<1>8. Refused(n, T, p.id)
  BY AnswersRefuse DEF Readable
<1>9. Allowed(n, v, t, b, T, Relayed(n, p))
  BY <1>4, <1>7, <1>8, AllowedFloodingSniff
<1>. QED
  BY <1>6, <1>9, AllowedBoth

(* What the phone is given is the routing module's affair. *)
LEMMA AllowedPhone ==
  ASSUME NEW n, NEW s, IsNodeState(s), NEW t, NEW b, NEW T, NEW L, Allowed(n, s, t, b, T, L),
         NEW x \in Seq(Packet), NEW u, u = [s EXCEPT !.toPhone = x], NEW v, v = [t EXCEPT !.toPhone = x]
  PROVE  Allowed(n, u, v, b, T, L) /\ v.nextId = t.nextId
<1>1. IsNodeState(t)
  BY DEF Allowed
<1>2. /\ IsNodeState(u) /\ u.toPhone = x
      /\ u.pending = s.pending /\ u.recent = s.recent /\ u.txQueue = s.txQueue
      /\ u.fromRadio = s.fromRadio /\ u.uplink = s.uplink /\ u.nextId = s.nextId /\ u.failed = s.failed
  BY SetToPhone
<1>3. /\ IsNodeState(v) /\ v.toPhone = x
      /\ v.pending = t.pending /\ v.recent = t.recent /\ v.txQueue = t.txQueue
      /\ v.fromRadio = t.fromRadio /\ v.uplink = t.uplink /\ v.nextId = t.nextId /\ v.failed = t.failed
  BY <1>1, SetToPhone
<1>4. \A k, i : Number(u, k, i) = Number(s, k, i) /\ Number(v, k, i) = Number(t, k, i)
  BY <1>2, <1>3 DEF Number
<1>. QED
  BY <1>2, <1>3, <1>4 DEF Allowed

(* What the phone has after the routing module was called with p. *)
Phoned(n, s, p) ==
  IF \/ ~ p.plain /\ n \in LocalOnly /\ (p.crypt # PKI \/ IsBroadcast(p.to))
     \/ Stopping(n, p) \/ ~ ForUs(n, p)
  THEN s.toPhone ELSE Append(s.toPhone, p)

LEMMA PhonedType ==
  ASSUME NEW n, NEW s, IsNodeState(s), NEW p \in Packet
  PROVE  Phoned(n, s, p) \in Seq(Packet)
<1>1. s.toPhone \in Seq(Packet)
  BY StateFields
<1>2. Append(s.toPhone, p) \in Seq(Packet)
  BY <1>1, AppendProperties
<1>. QED
  BY <1>1, <1>2 DEF Phoned

LEMMA AllowedRouting ==
  ASSUME NEW n \in Node, NEW s, IsNodeState(s), NEW b \in Nat, b <= s.nextId,
         NEW p, Readable(p), ~ Stopping(n, p), NEW told, NEW T, T = Answers(n, b, p, Heard(n, p), told),
         NEW replying, NEW over, NEW t, t = RoutingModuleReceived(n, s, p, replying, over),
         NEW x, x = Phoned(n, s, p), NEW u, u = [s EXCEPT !.toPhone = x]
  PROVE  Allowed(n, u, t, b, T, Relayed(n, p))
<1>0. p \in Packet /\ x \in Seq(Packet)
  BY PhonedType DEF Readable
<1>u. /\ IsNodeState(u) /\ u.toPhone = x
      /\ u.pending = s.pending /\ u.recent = s.recent /\ u.txQueue = s.txQueue
      /\ u.fromRadio = s.fromRadio /\ u.uplink = s.uplink /\ u.nextId = s.nextId /\ u.failed = s.failed
  BY <1>0, SetToPhone
<1>1. CASE ~ p.plain /\ n \in LocalOnly /\ (p.crypt # PKI \/ IsBroadcast(p.to))
  <2>1. t = s /\ x = s.toPhone
    BY <1>1 DEF RoutingModuleReceived, Phoned
  <2>2. IsNodeState(t) /\ t.nextId >= u.nextId /\ t.toPhone = u.toPhone
    BY <1>u, <2>1, StateFields
  <2>3. /\ u.pending = t.pending /\ u.recent = t.recent /\ u.txQueue = t.txQueue
        /\ u.fromRadio = t.fromRadio /\ u.uplink = t.uplink /\ u.failed = t.failed
    BY <1>u, <2>1
  <2>. QED
    BY <1>u, <2>2, <2>3, AllowedSame
<1>2. CASE ~ (~ p.plain /\ n \in LocalOnly /\ (p.crypt # PKI \/ IsBroadcast(p.to)))
  <2>1. PICK v : v = ReliableSniffReceived(n, s, p, replying, over)
    OBVIOUS
  <2>2. Allowed(n, s, v, b, T, Relayed(n, p))
    BY <2>1, AllowedSniff
  <2>3. v.toPhone = s.toPhone
    BY <2>2 DEF Allowed
  <2>4. t = [v EXCEPT !.toPhone = x]
    BY <1>2, <2>1, <2>3 DEF RoutingModuleReceived, Phoned, Stopping
  <2>. QED
    BY <1>0, <2>2, <2>4, AllowedPhone
<1>. QED
  BY <1>1, <1>2

LEMMA ResponseFacts ==
  ASSUME NEW n \in Node, NEW s, IsNodeState(s), NEW b \in Nat, b <= s.nextId,
         NEW p, Readable(p), NEW heard, NEW told, NEW q, q = Response(n, s, p)
  PROVE  q \in Own(n, b, Answers(n, b, p, heard, told)) /\ q.plain /\ q.id = s.nextId
<1>0. p \in Packet /\ p.from \in Node /\ p.id \in Nat /\ p.wantAck \in BOOLEAN /\ s.nextId \in Nat
  BY StateFields DEF Readable, Packet
<1>1. /\ HopLimitForResponse(p) \in Nat /\ HopLimitForResponse(p) <= HOP_MAX
      /\ ReplyChannel(p) \in Channel \cup {NoChannel} /\ (Indexed => ReplyChannel(p) # NoChannel)
  BY ResponseHops, ReplyChannels DEF HOP_MAX
<1>2. /\ q.from = n /\ q.to = p.from /\ q.id = s.nextId /\ q.hopLimit = HopLimitForResponse(p) /\ q.hopStart = 0
      /\ q.wantAck = p.wantAck /\ q.prio = RELIABLE /\ q.crypt = ReplyChannel(p) /\ q.plain = TRUE
      /\ q.port = "response" /\ q.reqId = p.id /\ q.err = "NONE"
  BY DEF Response
<1>3. q \in Packet
  BY <1>0, <1>1 DEF Response, Packet, Ports, Errors
<1>4. Saying(q) \in Answers(n, b, p, heard, told)
  <2>1. Saying(q) = <<p.from, "response", "NONE", p.id>> /\ "response" \in Ports /\ "NONE" \in Errors
    BY <1>2 DEF Saying, Ports, Errors
  <2>. QED
    BY <1>0, <2>1 DEF Answers
<1>5. q.id >= b
  BY <1>0, <1>2
<1>. QED
  BY <1>1, <1>2, <1>3, <1>4, <1>5 DEF Own

(* A module's reply to p goes out. *)
Replying(n, p) ==
  p.plain /\ p.port = "request" /\ ForUs(n, p) /\ n \in Responders /\ (p.from # n \/ p.to = n)

LEMMA AllowedModules ==
  ASSUME NEW n \in Node, NEW s, IsNodeState(s), NEW b \in Nat, b <= s.nextId,
         NEW p, Readable(p), NEW told, NEW T, T = Answers(n, b, p, Heard(n, p), told),
         NEW over, NEW t, t = CallModules(n, s, p, over),
         NEW x, x = Phoned(n, s, p), NEW u, u = [s EXCEPT !.toPhone = x]
  PROVE  Allowed(n, u, t, b, T, Relayed(n, p))
<1>0. p \in Packet /\ p.from \in Node /\ p.id \in Nat /\ x \in Seq(Packet) /\ s.nextId \in Nat
  BY PhonedType, StateFields DEF Readable, Packet
<1>s. ASSUME Stopping(n, p)
      PROVE  Allowed(n, u, t, b, T, Relayed(n, p))
  <2>1. t = s /\ x = s.toPhone
    BY <1>s DEF CallModules, Phoned
  <2>2. /\ IsNodeState(u) /\ u.toPhone = x
        /\ u.pending = s.pending /\ u.recent = s.recent /\ u.txQueue = s.txQueue
        /\ u.fromRadio = s.fromRadio /\ u.uplink = s.uplink /\ u.nextId = s.nextId /\ u.failed = s.failed
    BY <1>0, SetToPhone
  <2>3. t.nextId >= u.nextId /\ t.toPhone = u.toPhone /\ IsNodeState(t)
    BY <1>0, <2>1, <2>2
  <2>4. /\ u.pending = t.pending /\ u.recent = t.recent /\ u.txQueue = t.txQueue
        /\ u.fromRadio = t.fromRadio /\ u.uplink = t.uplink /\ u.failed = t.failed
    BY <2>1, <2>2
  <2>. QED
    BY <2>2, <2>3, <2>4, AllowedSame
<1>t. SUFFICES ASSUME ~ Stopping(n, p)
               PROVE  Allowed(n, u, t, b, T, Relayed(n, p))
  BY <1>s
<1>1. PICK replying : replying = Replying(n, p)
  OBVIOUS
<1>2. PICK v : v = IF replying THEN [s EXCEPT !.nextId = @ + 1] ELSE s
  OBVIOUS
<1>3. /\ IsNodeState(v) /\ v.nextId = s.nextId + (IF replying THEN 1 ELSE 0)
      /\ v.pending = s.pending /\ v.recent = s.recent /\ v.txQueue = s.txQueue
      /\ v.fromRadio = s.fromRadio /\ v.toPhone = s.toPhone /\ v.uplink = s.uplink /\ v.failed = s.failed
  <2>1. CASE replying
    <3>1. v = [s EXCEPT !.nextId = @ + 1]
      BY <1>2, <2>1
    <3>. QED
      BY <2>1, <3>1, SetNextId
  <2>2. CASE ~ replying
    <3>1. v = s
      BY <1>2, <2>2
    <3>. QED
      BY <1>0, <2>2, <3>1
  <2>. QED
    BY <2>1, <2>2
<1>4. PICK w : w = RoutingModuleReceived(n, v, p, replying, over)
  OBVIOUS
<1>5. x = Phoned(n, v, p)
  BY <1>3 DEF Phoned
<1>6. PICK y : y = [v EXCEPT !.toPhone = x]
  OBVIOUS
<1>7. b <= v.nextId /\ v.nextId \in Nat
  BY <1>0, <1>3, SMT
<1>8. Allowed(n, y, w, b, T, Relayed(n, p))
  BY <1>t, <1>3, <1>4, <1>5, <1>6, <1>7, AllowedRouting
<1>9. /\ IsNodeState(u) /\ u.toPhone = x
      /\ u.pending = s.pending /\ u.recent = s.recent /\ u.txQueue = s.txQueue
      /\ u.fromRadio = s.fromRadio /\ u.uplink = s.uplink /\ u.nextId = s.nextId /\ u.failed = s.failed
  BY <1>0, SetToPhone
<1>10. /\ IsNodeState(y) /\ y.toPhone = x
       /\ y.pending = v.pending /\ y.recent = v.recent /\ y.txQueue = v.txQueue
       /\ y.fromRadio = v.fromRadio /\ y.uplink = v.uplink /\ y.nextId = v.nextId /\ y.failed = v.failed
  BY <1>0, <1>3, <1>6, SetToPhone
<1>11. Allowed(n, u, y, b, T, {})
  <2>1. y.nextId >= u.nextId
    BY <1>0, <1>3, <1>9, <1>10, SMT
  <2>. QED
    BY <1>3, <1>9, <1>10, <2>1, AllowedSame
<1>12. Allowed(n, u, w, b, T, Relayed(n, p))
  BY <1>8, <1>9, <1>11, AllowedBoth
<1>13. IsNodeState(w) /\ w.nextId \in Nat /\ v.nextId <= w.nextId
  BY <1>8, <1>10, StateFields DEF Allowed
<1>14. \A k \in Nat : k >= b => Refused(n, T, k)
  BY <1>0, AnswersRefuse
<1>15. CASE t = w
  BY <1>12, <1>15
<1>16. CASE replying /\ t = SendLocal(n, w, Response(n, s, p), over)
  <2>1. PICK q : q = Response(n, s, p)
    OBVIOUS
  <2>2. q \in Own(n, b, T) /\ q.plain /\ q.id = s.nextId
    BY <2>1, ResponseFacts
  <2>3. q.id < w.nextId /\ b <= w.nextId
    BY <1>0, <1>3, <1>7, <1>13, <1>16, <2>2, SMT
  <2>4. Allowed(n, w, t, b, T, {})
    BY <1>13, <1>14, <1>16, <2>1, <2>2, <2>3, AllowedSendOwn
  <2>. QED
    BY <1>9, <1>12, <2>4, AllowedBoth
<1>17. CASE t = SendAckNak(n, w, "NO_RESPONSE", p.from, p.id, ReplyChannel(p), HopLimitForResponse(p), over)
  <2>1. "NO_RESPONSE" \in Errors /\ "NO_RESPONSE" # "MAX_RETRANSMIT" /\ "NO_RESPONSE" # "NONE"
    BY DEF Errors
  <2>2. <<p.from, "routing", "NO_RESPONSE", p.id>> \in T
    BY <1>0, <2>1, AnswersAck
  <2>3. /\ HopLimitForResponse(p) \in 0 .. HOP_MAX
        /\ ReplyChannel(p) \in Channel \cup {NoChannel} /\ (Indexed => ReplyChannel(p) # NoChannel)
    BY ResponseHops, ReplyChannels
  <2>4. b <= w.nextId
    BY <1>7, <1>13, SMT
  <2>5. Allowed(n, w, t, b, T, {})
    BY <1>0, <1>13, <1>14, <1>17, <2>1, <2>2, <2>3, <2>4, AllowedSendAckNak
  <2>. QED
    BY <1>9, <1>12, <2>5, AllowedBoth
<1>18. \/ t = w \/ (replying /\ t = SendLocal(n, w, Response(n, s, p), over))
       \/ t = SendAckNak(n, w, "NO_RESPONSE", p.from, p.id, ReplyChannel(p), HopLimitForResponse(p), over)
  BY <1>t, <1>1, <1>2, <1>4, Zenon DEF CallModules, Replying
<1>. QED
  BY <1>15, <1>16, <1>17, <1>18

(* FloodingRouter::shouldFilterReceived. *)
LEMMA AllowedDuplicate ==
  ASSUME NEW n \in Node, NEW s, IsNodeState(s), NEW b \in Nat, b <= s.nextId,
         NEW p, Readable(p), p.plain => p.hopStart = 0,
         NEW told, NEW T, T = Answers(n, b, p, p.to = n /\ p.wantAck, told),
         NEW over, NEW t, t = HandleDuplicate(n, s, p, over)
  PROVE  Allowed(n, s, t, b, T, IF Direct(p) THEN Relayed(n, p) ELSE {})
<1>0. p \in Packet /\ p.from \in Node /\ p.id \in Nat /\ Refused(n, T, p.id) /\ s.nextId \in Nat
  BY AnswersRefuse, StateFields DEF Readable, Packet
<1>1. PICK u : u = IF n \in Routers THEN s ELSE CancelSending(s, p.from, p.id)
  OBVIOUS
<1>2. Allowed(n, s, u, b, T, {}) /\ u.nextId = s.nextId
  <2>1. CASE u = s
    BY <1>0, <2>1, AllowedSame
  <2>2. CASE u = CancelSending(s, p.from, p.id)
    BY <2>2, AllowedCancel
  <2>. QED
    BY <1>1, <2>1, <2>2
<1>3. IsNodeState(u) /\ b <= u.nextId /\ u.nextId >= u.nextId
  BY <1>0, <1>2 DEF Allowed
<1>4. PICK L : L = IF Direct(p) THEN Relayed(n, p) ELSE {}
  OBVIOUS
<1>5. CASE t = u
  <2>1. Allowed(n, u, t, b, T, L)
    BY <1>3, <1>5, AllowedSame
  <2>. QED
    BY <1>2, <1>4, <2>1, AllowedBoth
<1>6. CASE Direct(p) /\ t = PerhapsRebroadcast(n, u, p, over)
  <2>1. Allowed(n, u, t, b, T, Relayed(n, p))
    BY <1>0, <1>3, <1>6, AllowedRelay
  <2>2. Allowed(n, s, t, b, T, Relayed(n, p))
    BY <1>2, <2>1, AllowedBoth
  <2>. QED
    BY <1>6, <2>2
<1>7. CASE /\ Direct(p) /\ p.to = n /\ p.wantAck
           /\ t = SendAckNak(n, u, "NONE", p.from, p.id, HashChannel(p), 0, over)
  <2>1. "NONE" \in Errors /\ "NONE" # "MAX_RETRANSMIT" /\ 0 \in 0 .. HOP_MAX
    BY DEF Errors, HOP_MAX
  <2>2. <<p.from, "routing", "NONE", p.id>> \in T
    BY <1>0, <1>7, <2>1, AnswersAck
  <2>3. p.crypt \in Channel \cup {PKI}
    BY <1>0, <1>7 DEF Direct, Readable, Packet
  <2>4. HashChannel(p) \in Channel \cup {NoChannel} /\ (Indexed => HashChannel(p) # NoChannel)
    BY <2>3, RouterAssumption DEF HashChannel, Indexed
  <2>5. \A k \in Nat : k >= b => Refused(n, T, k)
    BY <1>0, AnswersRefuse
  <2>6. Allowed(n, u, t, b, T, {})
    BY <1>0, <1>3, <1>7, <2>1, <2>2, <2>4, <2>5, AllowedSendAckNak
  <2>7. Allowed(n, s, t, b, T, {})
    BY <1>2, <2>6, AllowedBoth
  <2>8. IsNodeState(t)
    BY <2>7 DEF Allowed
  <2>9. t.nextId >= t.nextId
    BY <2>8, StateFields
  <2>10. Allowed(n, t, t, b, T, L)
    BY <2>8, <2>9, AllowedSame
  <2>. QED
    BY <1>4, <2>7, <2>10, AllowedBoth
<1>8. \/ t = u \/ (Direct(p) /\ t = PerhapsRebroadcast(n, u, p, over))
      \/ /\ Direct(p) /\ p.to = n /\ p.wantAck
         /\ t = SendAckNak(n, u, "NONE", p.from, p.id, HashChannel(p), 0, over)
  BY <1>1, Zenon DEF HandleDuplicate
<1>. QED
  BY <1>5, <1>6, <1>7, <1>8

---------------------------------------------------------------------------
(* What becomes of the pending records: an answer to one ends it, and a *)
(* packet of one that comes back, and nothing else a handler does.      *)
HasPending(s) == "pending" \in DOMAIN s

SamePending(s, t) == HasPending(t) /\ t.pending = s.pending

LEMMA OtherFields ==
  ASSUME NEW s, HasPending(s), NEW x
  PROVE  /\ SamePending(s, [s EXCEPT !.recent = x]) /\ SamePending(s, [s EXCEPT !.txQueue = x])
         /\ SamePending(s, [s EXCEPT !.fromRadio = x]) /\ SamePending(s, [s EXCEPT !.toPhone = x])
         /\ SamePending(s, [s EXCEPT !.uplink = x]) /\ SamePending(s, [s EXCEPT !.nextId = x])
         /\ SamePending(s, [s EXCEPT !.failed = x])
         /\ HasPending([s EXCEPT !.pending = x]) /\ [s EXCEPT !.pending = x].pending = x
  BY DEF HasPending, SamePending

LEMMA StatePending ==
  ASSUME NEW s, IsNodeState(s)
  PROVE  HasPending(s)
  BY DEF IsNodeState, HasPending

LEMMA EnqueuePending ==
  ASSUME NEW s, HasPending(s), NEW p, NEW t, t = EnqueueReceivedMessage(s, p)
  PROVE  SamePending(s, t)
<1>1. PICK x : t = [s EXCEPT !.fromRadio = x]
  BY DEF EnqueueReceivedMessage
<1>2. SamePending(s, [s EXCEPT !.fromRadio = x])
  BY OtherFields
<1>. QED
  BY <1>1, <1>2

LEMMA CancelPending ==
  ASSUME NEW s, HasPending(s), NEW from, NEW id, NEW t, t = CancelSending(s, from, id)
  PROVE  SamePending(s, t)
<1>1. PICK x : t = [s EXCEPT !.txQueue = x]
  BY DEF CancelSending
<1>2. SamePending(s, [s EXCEPT !.txQueue = x])
  BY OtherFields
<1>. QED
  BY <1>1, <1>2

LEMMA NakPending ==
  ASSUME NEW n, NEW s, HasPending(s), NEW err, NEW id, NEW t, t = NakToSelf(n, s, err, id)
  PROVE  SamePending(s, t)
<1>1. PICK x : x = s.nextId + 1
  OBVIOUS
<1>2. PICK u : u = [s EXCEPT !.nextId = x]
  OBVIOUS
<1>3. SamePending(s, u)
  BY <1>2, OtherFields
<1>4. PICK q : t = EnqueueReceivedMessage(u, q)
  BY <1>1, <1>2 DEF NakToSelf
<1>5. SamePending(u, t)
  BY <1>3, <1>4, EnqueuePending DEF SamePending
<1>. QED
  BY <1>3, <1>5 DEF SamePending

LEMMA RouterSendPending ==
  ASSUME NEW n, NEW s, HasPending(s), NEW p, NEW over, NEW t, t = RouterSend(n, s, p, over)
  PROVE  SamePending(s, t)
<1>r. ASSUME NEW u, SamePending(s, u), NEW q, t = RadioSend(n, u, q)
      PROVE  SamePending(s, t)
  <2>1. PICK x : t = u \/ t = [u EXCEPT !.txQueue = x]
    BY <1>r DEF RadioSend
  <2>2. SamePending(u, [u EXCEPT !.txQueue = x])
    BY <1>r, OtherFields DEF SamePending
  <2>. QED
    BY <1>r, <2>1, <2>2 DEF SamePending
<1>1. CASE t = s
  BY <1>1 DEF SamePending
<1>2. ASSUME NEW e, t = AbortSendAndNak(n, s, e, p)
      PROVE  SamePending(s, t)
  BY <1>2, NakPending DEF AbortSendAndNak
<1>3. CASE t = RadioSend(n, s, Prepared(n, p))
  BY <1>r, <1>3 DEF SamePending
<1>4. CASE t = [s EXCEPT !.failed = TRUE]
  <2>1. SamePending(s, [s EXCEPT !.failed = TRUE])
    BY OtherFields
  <2>. QED
    BY <1>4, <2>1
<1>5. ASSUME NEW x, t = RadioSend(n, [s EXCEPT !.uplink = x], Encoded(n, Prepared(n, p)))
      PROVE  SamePending(s, t)
  BY <1>r, <1>5, OtherFields
<1>6. \/ t = s \/ t = AbortSendAndNak(n, s, "DUTY_CYCLE_LIMIT", p) \/ t = RadioSend(n, s, Prepared(n, p))
      \/ t = [s EXCEPT !.failed = TRUE] \/ t = AbortSendAndNak(n, s, EncodeError(n, p), p)
      \/ \E x : t = RadioSend(n, [s EXCEPT !.uplink = x], Encoded(n, Prepared(n, p)))
  BY DEF RouterSend
<1>. QED
  BY <1>1, <1>2, <1>3, <1>4, <1>5, <1>6

LEMMA FloodingSendPending ==
  ASSUME NEW n, NEW s, HasPending(s), NEW p, NEW over, NEW t, t = FloodingSend(n, s, p, over)
  PROVE  SamePending(s, t)
<1>1. PICK x : x = s.recent \cup {<<p.from, p.id>>}
  OBVIOUS
<1>2. PICK u : u = [s EXCEPT !.recent = x]
  OBVIOUS
<1>3. SamePending(s, u)
  BY <1>2, OtherFields
<1>4. t = RouterSend(n, u, p, over)
  BY <1>1, <1>2 DEF FloodingSend
<1>5. SamePending(u, t)
  BY <1>3, <1>4, RouterSendPending DEF SamePending
<1>. QED
  BY <1>3, <1>5 DEF SamePending

LEMMA StopPending ==
  ASSUME NEW n, NEW s, HasPending(s), NEW id, NEW t, t = StopRetransmission(n, s, id)
  PROVE  HasPending(t) /\ DOMAIN t.pending = DOMAIN s.pending \ {id}
<1>1. CASE id \notin DOMAIN s.pending
  BY <1>1 DEF StopRetransmission
<1>2. CASE id \in DOMAIN s.pending
  <2>1. PICK u : u = IF s.pending[id].left < NUM_RETRANSMISSIONS - 1 THEN CancelSending(s, n, id) ELSE s
    OBVIOUS
  <2>2. SamePending(s, u)
    BY <2>1, CancelPending DEF SamePending
  <2>3. PICK D : D = DOMAIN s.pending \ {id}
    OBVIOUS
  <2>4. PICK x : x = [i \in D |-> s.pending[i]]
    OBVIOUS
  <2>5. t = [u EXCEPT !.pending = x]
    BY <1>2, <2>1, <2>2, <2>3, <2>4 DEF StopRetransmission, SamePending
  <2>6. HasPending(t) /\ t.pending = x
    <3>1. HasPending(u)
      BY <2>2 DEF SamePending
    <3>2. HasPending([u EXCEPT !.pending = x]) /\ [u EXCEPT !.pending = x].pending = x
      BY <3>1, OtherFields
    <3>. QED
      BY <2>5, <3>2
  <2>. QED
    BY <2>3, <2>4, <2>6
<1>. QED
  BY <1>1, <1>2

LEMMA SendPending ==
  ASSUME NEW n, NEW s, HasPending(s), NEW p, NEW over, NEW t, t = SendLocal(n, s, p, over)
  PROVE  /\ HasPending(t)
         /\ ~ p.wantAck => t.pending = s.pending
         /\ p \in Packet => \/ DOMAIN t.pending = DOMAIN s.pending
                            \/ DOMAIN t.pending = DOMAIN s.pending \cup {p.id}
<1>1. CASE p.to = n
  BY <1>1, EnqueuePending DEF SendLocal, SamePending
<1>2. CASE p.to # n /\ ~ p.wantAck
  BY <1>2, FloodingSendPending DEF SendLocal, ReliableSend, SamePending
<1>3. CASE p.to # n /\ p.wantAck
  <2>1. PICK h : h = IF p.hopLimit = 0 THEN LoraHopLimit ELSE p.hopLimit
    OBVIOUS
  <2>2. PICK q : q = [p EXCEPT !.hopLimit = h]
    OBVIOUS
  <2>3. PICK v : v = StartRetransmission(n, s, q)
    OBVIOUS
  <2>4. t = FloodingSend(n, v, q, over)
    BY <1>3, <2>1, <2>2, <2>3 DEF SendLocal, ReliableSend
  <2>5. PICK u : u = StopRetransmission(n, s, q.id)
    OBVIOUS
  <2>6. HasPending(u) /\ DOMAIN u.pending = DOMAIN s.pending \ {q.id}
    <3>1. PICK i : i = q.id
      OBVIOUS
    <3>2. u = StopRetransmission(n, s, i)
      BY <2>5, <3>1
    <3>3. HasPending(u) /\ DOMAIN u.pending = DOMAIN s.pending \ {i}
      BY <3>2, StopPending
    <3>. QED
      BY <3>1, <3>3
  <2>7. PICK D : D = DOMAIN u.pending \cup {q.id}
    OBVIOUS
  <2>8. PICK x : x = [i \in D |-> IF i = q.id THEN [packet |-> q, left |-> NUM_RETRANSMISSIONS - 1] ELSE u.pending[i]]
    OBVIOUS
  <2>9. v = [u EXCEPT !.pending = x]
    BY <2>3, <2>5, <2>7, <2>8 DEF StartRetransmission
  <2>10. HasPending(v) /\ v.pending = x
    BY <2>6, <2>9, OtherFields
  <2>11. SamePending(v, t)
    BY <2>4, <2>10, FloodingSendPending
  <2>12. DOMAIN t.pending = DOMAIN s.pending \cup {q.id}
    BY <2>6, <2>7, <2>8, <2>10, <2>11 DEF SamePending
  <2>13. p \in Packet => q.id = p.id
    BY <2>2 DEF Packet
  <2>. QED
    BY <1>3, <2>11, <2>12, <2>13 DEF SamePending
<1>. QED
  BY <1>1, <1>2, <1>3

LEMMA AckNakPending ==
  ASSUME NEW n, NEW s, HasPending(s), NEW err, NEW to, NEW id, NEW crypt, NEW hops, NEW over,
         NEW t, t = SendAckNak(n, s, err, to, id, crypt, hops, over)
  PROVE  SamePending(s, t)
<1>1. PICK x : x = s.nextId + 1
  OBVIOUS
<1>2. PICK u : u = [s EXCEPT !.nextId = x]
  OBVIOUS
<1>3. SamePending(s, u)
  BY <1>2, OtherFields
<1>4. PICK q : q = AllocAckNak(n, s, err, to, id, crypt, hops)
  OBVIOUS
<1>5. ~ q.wantAck
  BY <1>4 DEF AllocAckNak
<1>6. t = SendLocal(n, u, q, over)
  BY <1>1, <1>2, <1>4 DEF SendAckNak
<1>7. HasPending(t) /\ t.pending = u.pending
  BY <1>3, <1>5, <1>6, SendPending DEF SamePending
<1>. QED
  BY <1>3, <1>7 DEF SamePending

LEMMA RelayPending ==
  ASSUME NEW n, NEW s, HasPending(s), NEW p, NEW over, NEW t, t = PerhapsRebroadcast(n, s, p, over)
  PROVE  SamePending(s, t)
<1>1. PICK q : t = s \/ t = RouterSend(n, s, q, over)
  BY DEF PerhapsRebroadcast
<1>. QED
  BY <1>1, RouterSendPending DEF SamePending

(* p answers a packet of node n, and its modules can read it. *)
Answering(n, p) == p.to = n /\ p.reqId # NoId /\ p.port # "unreadable"

LEMMA SniffPending ==
  ASSUME NEW n, NEW s, HasPending(s), NEW p, ~ Stopping(n, p), NEW replying, NEW over,
         NEW t, t = ReliableSniffReceived(n, s, p, replying, over)
  PROVE  /\ HasPending(t)
         /\ DOMAIN t.pending = DOMAIN s.pending \ (IF p.plain /\ Answering(n, p) THEN {p.reqId} ELSE {})
<1>1. PICK u : u = Acknowledge(n, s, p, replying, over)
  OBVIOUS
<1>2. SamePending(s, u)
  <2>1. CASE u = s
    BY <2>1 DEF SamePending
  <2>2. ASSUME NEW err, NEW crypt, NEW hops, u = SendAckNak(n, s, err, p.from, p.id, crypt, hops, over)
        PROVE  SamePending(s, u)
    BY <2>2, AckNakPending
  <2>3. u = s \/ \E err, crypt, hops : u = SendAckNak(n, s, err, p.from, p.id, crypt, hops, over)
    BY <1>1 DEF Acknowledge
  <2>. QED
    BY <2>1, <2>2, <2>3
<1>3. PICK v : v = IF p.to = n /\ p.plain /\ p.reqId # NoId THEN StopRetransmission(n, u, p.reqId) ELSE u
  OBVIOUS
<1>4. HasPending(v) /\ DOMAIN v.pending = DOMAIN s.pending \ (IF p.plain /\ Answering(n, p) THEN {p.reqId} ELSE {})
  <2>1. CASE p.plain /\ Answering(n, p)
    <3>1. v = StopRetransmission(n, u, p.reqId)
      BY <1>3, <2>1 DEF Answering
    <3>3. PICK i : i = p.reqId
      OBVIOUS
    <3>4. HasPending(u) /\ v = StopRetransmission(n, u, i)
      BY <1>2, <3>1, <3>3 DEF SamePending
    <3>5. HasPending(v) /\ DOMAIN v.pending = DOMAIN u.pending \ {i}
      BY <3>4, StopPending
    <3>2. HasPending(v) /\ DOMAIN v.pending = DOMAIN u.pending \ {p.reqId}
      BY <3>3, <3>5
    <3>. QED
      BY <1>2, <2>1, <3>2 DEF SamePending
  <2>2. CASE ~ (p.plain /\ Answering(n, p))
    <3>1. v = u
      BY <1>3, <2>2 DEF Answering, Stopping, ForUs
    <3>. QED
      BY <1>2, <2>2, <3>1 DEF SamePending
  <2>. QED
    BY <2>1, <2>2
<1>5. t = FloodingSniffReceived(n, v, p, over)
  BY <1>1, <1>3 DEF ReliableSniffReceived
<1>6. PICK w : /\ w = v \/ w = CancelSending(v, p.to, p.reqId)
               /\ t = PerhapsRebroadcast(n, w, p, over)
  BY <1>5 DEF FloodingSniffReceived
<1>7. SamePending(v, w)
  BY <1>4, <1>6, CancelPending DEF SamePending
<1>8. SamePending(w, t)
  BY <1>6, <1>7, RelayPending DEF SamePending
<1>. QED
  BY <1>4, <1>7, <1>8 DEF SamePending

LEMMA ModulesPending ==
  ASSUME NEW n \in Node, NEW s, IsNodeState(s), NEW p, Readable(p), NEW over, NEW t, t = CallModules(n, s, p, over)
  PROVE  /\ \A i \in DOMAIN s.pending : i \in DOMAIN t.pending \/ (p.plain /\ Answering(n, p) /\ i = p.reqId)
         /\ p.plain /\ Answering(n, p) /\ p.reqId < s.nextId => p.reqId \notin DOMAIN t.pending
<1>0. HasPending(s) /\ s.nextId \in Nat /\ p.reqId \in Nat
  BY StatePending, StateFields DEF Readable, Packet
<1>s. Stopping(n, p) => t = s /\ ~ Answering(n, p)
  BY DEF CallModules, Stopping, Answering
<1>t. SUFFICES ASSUME ~ Stopping(n, p)
               PROVE  /\ \A i \in DOMAIN s.pending : i \in DOMAIN t.pending \/ (p.plain /\ Answering(n, p) /\ i = p.reqId)
                      /\ p.plain /\ Answering(n, p) /\ p.reqId < s.nextId => p.reqId \notin DOMAIN t.pending
  BY <1>s
<1>1. PICK replying : replying = Replying(n, p)
  OBVIOUS
<1>2. PICK v : v = IF replying THEN [s EXCEPT !.nextId = @ + 1] ELSE s
  OBVIOUS
<1>3. SamePending(s, v)
  <2>1. PICK x : x = s.nextId + 1
    OBVIOUS
  <2>2. SamePending(s, [s EXCEPT !.nextId = x])
    BY <1>0, OtherFields
  <2>3. v = s \/ v = [s EXCEPT !.nextId = x]
    BY <1>2, <2>1
  <2>. QED
    BY <1>0, <2>2, <2>3 DEF SamePending
<1>4. PICK w : w = RoutingModuleReceived(n, v, p, replying, over)
  OBVIOUS
<1>5. PICK X : X = IF p.plain /\ Answering(n, p) THEN {p.reqId} ELSE {}
  OBVIOUS
<1>6. HasPending(w) /\ DOMAIN w.pending = DOMAIN s.pending \ X
  <2>1. CASE ~ p.plain /\ n \in LocalOnly /\ (p.crypt # PKI \/ IsBroadcast(p.to))
    <3>1. w = v
      BY <1>4, <2>1 DEF RoutingModuleReceived
    <3>. QED
      BY <1>3, <1>5, <2>1, <3>1 DEF SamePending
  <2>2. CASE ~ (~ p.plain /\ n \in LocalOnly /\ (p.crypt # PKI \/ IsBroadcast(p.to)))
    <3>1. PICK u : u = ReliableSniffReceived(n, v, p, replying, over)
      OBVIOUS
    <3>2. HasPending(u) /\ DOMAIN u.pending = DOMAIN v.pending \ X
      BY <1>t, <1>3, <1>5, <3>1, SniffPending DEF SamePending
    <3>3. PICK x : w = [u EXCEPT !.toPhone = x]
      BY <1>4, <2>2, <3>1 DEF RoutingModuleReceived
    <3>4. SamePending(u, w)
      BY <3>2, <3>3, OtherFields
    <3>. QED
      BY <1>3, <3>2, <3>4 DEF SamePending
  <2>. QED
    BY <2>1, <2>2
<1>7. HasPending(t) /\ (DOMAIN t.pending = DOMAIN w.pending \/ DOMAIN t.pending = DOMAIN w.pending \cup {s.nextId})
  <2>1. CASE t = w
    BY <1>6, <2>1
  <2>2. CASE t = SendLocal(n, w, Response(n, s, p), over)
    <3>1. PICK q : q = Response(n, s, p)
      OBVIOUS
    <3>2. q \in Packet /\ q.id = s.nextId
      <4>1. PICK b \in Nat : b = s.nextId /\ b <= s.nextId
        BY <1>0
      <4>2. PICK heard : heard = FALSE
        OBVIOUS
      <4>3. q \in Own(n, b, Answers(n, b, p, heard, heard)) /\ q.plain /\ q.id = s.nextId
        BY <3>1, <4>1, ResponseFacts
      <4>. QED
        BY <4>3 DEF Own
    <3>3. t = SendLocal(n, w, q, over)
      BY <2>2, <3>1
    <3>4. /\ HasPending(t)
          /\ q \in Packet => \/ DOMAIN t.pending = DOMAIN w.pending
                             \/ DOMAIN t.pending = DOMAIN w.pending \cup {q.id}
      BY <1>6, <3>3, SendPending
    <3>. QED
      BY <3>2, <3>4
  <2>3. CASE t = SendAckNak(n, w, "NO_RESPONSE", p.from, p.id, ReplyChannel(p), HopLimitForResponse(p), over)
    BY <1>6, <2>3, AckNakPending DEF SamePending
  <2>4. \/ t = w \/ t = SendLocal(n, w, Response(n, s, p), over)
        \/ t = SendAckNak(n, w, "NO_RESPONSE", p.from, p.id, ReplyChannel(p), HopLimitForResponse(p), over)
    BY <1>t, <1>1, <1>2, <1>4, Zenon DEF CallModules, Replying
  <2>. QED
    BY <2>1, <2>2, <2>3, <2>4
<1>8. ASSUME p.plain /\ Answering(n, p) /\ p.reqId < s.nextId
      PROVE  p.reqId \notin DOMAIN t.pending
  <2>1. p.reqId \notin DOMAIN w.pending /\ p.reqId # s.nextId
    BY <1>0, <1>5, <1>6, <1>8
  <2>. QED
    BY <1>7, <2>1
<1>. QED
  BY <1>5, <1>6, <1>7, <1>8

LEMMA DuplicatePending ==
  ASSUME NEW n, NEW s, HasPending(s), NEW p, NEW over, NEW t, t = HandleDuplicate(n, s, p, over)
  PROVE  SamePending(s, t)
<1>1. PICK u : u = IF n \in Routers THEN s ELSE CancelSending(s, p.from, p.id)
  OBVIOUS
<1>2. SamePending(s, u)
  BY <1>1, CancelPending DEF SamePending
<1>3. \/ t = u \/ t = PerhapsRebroadcast(n, u, p, over)
      \/ t = SendAckNak(n, u, "NONE", p.from, p.id, HashChannel(p), 0, over)
  BY <1>1, Zenon DEF HandleDuplicate
<1>4. SamePending(u, t)
  BY <1>2, <1>3, RelayPending, AckNakPending DEF SamePending
<1>. QED
  BY <1>2, <1>4 DEF SamePending

LEMMA ImplicitAckPending ==
  ASSUME NEW n, NEW s, HasPending(s), NEW p, NEW t, t = ImplicitAck(n, s, p)
  PROVE  HasPending(t) /\ \A i \in DOMAIN s.pending : i \in DOMAIN t.pending \/ (p.from = n /\ i = p.id)
<1>1. CASE t = s
  BY <1>1
<1>2. CASE p.from = n /\ t = StopRetransmission(n, NakToSelf(n, s, "NONE", p.id), p.id)
  <2>1. PICK u : u = NakToSelf(n, s, "NONE", p.id)
    OBVIOUS
  <2>2. SamePending(s, u)
    BY <2>1, NakPending
  <2>3. HasPending(t) /\ DOMAIN t.pending = DOMAIN u.pending \ {p.id}
    BY <1>2, <2>1, <2>2, StopPending DEF SamePending
  <2>. QED
    BY <1>2, <2>2, <2>3 DEF SamePending
<1>3. t = s \/ (p.from = n /\ t = StopRetransmission(n, NakToSelf(n, s, "NONE", p.id), p.id))
  BY DEF ImplicitAck
<1>. QED
  BY <1>1, <1>2, <1>3

(* Of s's records t lacks no other than that of p, come back, or of what p answers. *)
Settles(n, s, p, t) ==
  \A i \in DOMAIN s.pending :
    i \in DOMAIN t.pending \/ (p.from = n /\ i = p.id) \/ (Answering(n, p) /\ i = p.reqId)

---------------------------------------------------------------------------
(* The handlers that the actions of module Mesh are made of. *)

(* What the receive queue may hold: a packet that is decoded is the node's own, *)
(* and made by the firmware.                                                    *)
Legible(p) == Readable(p) /\ (p.plain => p.hopStart = 0 /\ p.port # "unreadable")

Expected(n, s, p) == p.from = n /\ p.id \in DOMAIN s.pending

(* A packet that was seen before. *)
Repeated(n, s, p, t) ==
  /\ <<p.from, p.id>> \in s.recent /\ Settles(n, s, p, t)
  /\ Allowed(n, s, t, s.nextId, Answers(n, s.nextId, p, p.to = n /\ p.wantAck, Expected(n, s, p)),
             IF Direct(p) THEN Relayed(n, p) ELSE {})

(* A packet that was not. *)
Marks(s, p) == [s EXCEPT !.recent = @ \cup {<<p.from, p.id>>}]

Remembers(n, s, p) == [Marks(s, p) EXCEPT !.toPhone = Phoned(n, s, Decoded(n, p))]

Handled(n, s, p, t) ==
  /\ <<p.from, p.id>> \notin s.recent /\ Settles(n, s, p, t)
  /\ CanDecode(n, p) /\ Answering(n, p) /\ p.reqId < s.nextId => p.reqId \notin DOMAIN t.pending
  /\ Allowed(n, Remembers(n, s, p), t, s.nextId,
             Answers(n, s.nextId, p, Heard(n, Decoded(n, p)), Expected(n, s, p)),
             Relayed(n, Decoded(n, p)))

LEMMA DecodedFacts ==
  ASSUME NEW n, NEW p \in Packet, NEW q, q = Decoded(n, p)
  PROVE  /\ q \in Packet /\ q.from = p.from /\ q.to = p.to /\ q.id = p.id /\ q.hopLimit = p.hopLimit
         /\ q.hopStart = p.hopStart /\ q.wantAck = p.wantAck /\ q.crypt = p.crypt /\ q.port = p.port
         /\ q.reqId = p.reqId /\ q.err = p.err /\ (q.plain <=> CanDecode(n, p))
<1>1. CASE CanDecode(n, p)
  <2>1. q = [p EXCEPT !.plain = TRUE]
    BY <1>1 DEF Decoded
  <2>. QED
    BY <1>1, <2>1 DEF Packet
<1>2. CASE ~ CanDecode(n, p)
  <2>1. q = p
    BY <1>2 DEF Decoded
  <2>2. ~ p.plain
    BY <1>2 DEF CanDecode
  <2>. QED
    BY <1>2, <2>1, <2>2
<1>. QED
  BY <1>1, <1>2

LEMMA DecodedReadable ==
  ASSUME NEW n, NEW p, Readable(p)
  PROVE  Readable(Decoded(n, p))
<1>1. PICK q : q = Decoded(n, p)
  OBVIOUS
<1>2. p \in Packet
  BY DEF Readable
<1>3. q \in Packet /\ q.hopStart = p.hopStart /\ q.crypt = p.crypt /\ (p.plain => q.plain)
  <2>1. p.plain => CanDecode(n, p)
    BY DEF CanDecode
  <2>. QED
    BY <1>1, <1>2, <2>1, DecodedFacts
<1>. QED
  BY <1>1, <1>3 DEF Readable

LEMMA AnswersSame ==
  ASSUME NEW n, NEW b, NEW p, NEW q, p.from = q.from, p.id = q.id, NEW heard, NEW told
  PROVE  Answers(n, b, p, heard, told) = Answers(n, b, q, heard, told)
  BY DEF Answers

LEMMA ImplicitAckAllowed ==
  ASSUME NEW n \in Node, NEW s, IsNodeState(s), NEW p \in Packet, NEW b, b = s.nextId,
         NEW heard, NEW T, T = Answers(n, b, p, heard, Expected(n, s, p)),
         NEW t, t = ImplicitAck(n, s, p)
  PROVE  Allowed(n, s, t, b, T, {}) /\ t.recent = s.recent
<1>0. b \in Nat /\ p.id \in Nat /\ b <= s.nextId /\ s.nextId >= s.nextId
  BY StateFields DEF Packet
<1>1. CASE Expected(n, s, p)
  <2>1. PICK u : u = NakToSelf(n, s, "NONE", p.id)
    OBVIOUS
  <2>2. "NONE" \in Errors /\ <<n, "routing", "NONE", p.id>> \in T
    BY <1>0, <1>1 DEF Answers, Errors, Ports
  <2>3. Allowed(n, s, u, b, T, {}) /\ u.recent = s.recent
    BY <1>0, <2>1, <2>2, AllowedNak
  <2>4. t = StopRetransmission(n, u, p.id) /\ IsNodeState(u)
    BY <1>1, <2>1, <2>3 DEF ImplicitAck, Expected, Allowed
  <2>5. Allowed(n, u, t, b, T, {}) /\ Stopped(u, p.id, t)
    BY <2>4, AllowedStop
  <2>6. t.recent = u.recent
    BY <2>5 DEF Stopped
  <2>. QED
    BY <1>0, <2>3, <2>5, <2>6, AllowedBoth
<1>2. CASE ~ Expected(n, s, p)
  <2>1. t = s
    BY <1>2 DEF ImplicitAck, Expected
  <2>. QED
    BY <1>0, <2>1, AllowedSame
<1>. QED
  BY <1>1, <1>2

LEMMA AllowedRecent ==
  ASSUME NEW n, NEW s, IsNodeState(s), NEW t, NEW b, NEW T, NEW L, Allowed(n, s, t, b, T, L),
         t.recent = s.recent, NEW y \in Recents,
         NEW u, u = [s EXCEPT !.recent = y], NEW v, v = [t EXCEPT !.recent = y]
  PROVE  Allowed(n, u, v, b, T, L) /\ IsNodeState(u) /\ u.toPhone = s.toPhone
<1>1. IsNodeState(t)
  BY DEF Allowed
<1>2. /\ IsNodeState(u) /\ u.recent = y
      /\ u.pending = s.pending /\ u.txQueue = s.txQueue /\ u.fromRadio = s.fromRadio
      /\ u.toPhone = s.toPhone /\ u.uplink = s.uplink /\ u.nextId = s.nextId /\ u.failed = s.failed
  BY SetRecent
<1>3. /\ IsNodeState(v) /\ v.recent = y
      /\ v.pending = t.pending /\ v.txQueue = t.txQueue /\ v.fromRadio = t.fromRadio
      /\ v.toPhone = t.toPhone /\ v.uplink = t.uplink /\ v.nextId = t.nextId /\ v.failed = t.failed
  BY <1>1, SetRecent
<1>4. \A k, i : Number(u, k, i) = Number(s, k, i) /\ Number(v, k, i) = Number(t, k, i)
  BY <1>2, <1>3 DEF Number
<1>. QED
  BY <1>2, <1>3, <1>4 DEF Allowed

LEMMA HandlingFacts ==
  ASSUME NEW n \in Node, NEW s, IsNodeState(s), NEW p, Legible(p), NEW over,
         NEW t, t = PerhapsHandleReceived(n, s, p, over)
  PROVE  t = s \/ Repeated(n, s, p, t) \/ Handled(n, s, p, t)
<1>0. Readable(p) /\ p \in Packet /\ <<p.from, p.id>> \in Node \X Nat
  BY DEF Legible, Readable, Packet
<1>1. CASE <<n, p.from>> \in Ignores
  BY <1>1 DEF PerhapsHandleReceived
<1>2. CASE <<n, p.from>> \notin Ignores
  <2>1. PICK b : b = s.nextId
    OBVIOUS
  <2>2. b \in Nat /\ b <= s.nextId
    BY <2>1, StateFields
  <2>3. PICK told : told = Expected(n, s, p)
    OBVIOUS
  <2>4. PICK u : u = ImplicitAck(n, s, p)
    OBVIOUS
  <2>5. CASE <<p.from, p.id>> \in u.recent
    <3>1. PICK T : T = Answers(n, b, p, p.to = n /\ p.wantAck, told)
      OBVIOUS
    <3>2. Allowed(n, s, u, b, T, {}) /\ u.recent = s.recent
      BY <1>0, <2>1, <2>3, <2>4, <3>1, ImplicitAckAllowed
    <3>3. IsNodeState(u) /\ b <= u.nextId
      BY <2>1, <3>2 DEF Allowed
    <3>4. t = HandleDuplicate(n, u, p, over)
      BY <1>2, <2>4, <2>5 DEF PerhapsHandleReceived
    <3>5. p.plain => p.hopStart = 0
      BY DEF Legible
    <3>6. PICK L : L = IF Direct(p) THEN Relayed(n, p) ELSE {}
      OBVIOUS
    <3>7. Allowed(n, u, t, b, T, L)
      BY <1>0, <2>2, <3>1, <3>3, <3>4, <3>5, <3>6, AllowedDuplicate
    <3>8. Allowed(n, s, t, b, T, L)
      BY <2>2, <3>2, <3>7, AllowedBoth
    <3>10. Settles(n, s, p, t)
      <4>1. HasPending(u) /\ \A i \in DOMAIN s.pending : i \in DOMAIN u.pending \/ (p.from = n /\ i = p.id)
        BY <2>4, ImplicitAckPending, StatePending
      <4>2. SamePending(u, t)
        BY <3>4, <4>1, DuplicatePending
      <4>. QED
        BY <4>1, <4>2 DEF SamePending, Settles
    <3>9. Repeated(n, s, p, t)
      BY <2>1, <3>10, <2>3, <2>5, <3>1, <3>2, <3>6, <3>8 DEF Repeated
    <3>. QED
      BY <3>9
  <2>6. CASE <<p.from, p.id>> \notin u.recent
    <3>1. PICK q : q = Decoded(n, p)
      OBVIOUS
    <3>2. Readable(q) /\ q \in Packet /\ q.from = p.from /\ q.id = p.id
      BY <1>0, <3>1, DecodedReadable, DecodedFacts
    <3>3. PICK T : T = Answers(n, b, q, Heard(n, q), told)
      OBVIOUS
    <3>4. T = Answers(n, b, p, Heard(n, q), told)
      BY <3>2, <3>3, AnswersSame
    <3>5. Allowed(n, s, u, b, T, {}) /\ u.recent = s.recent
      BY <1>0, <2>1, <2>3, <2>4, <3>4, ImplicitAckAllowed
    <3>6. IsNodeState(u) /\ b <= u.nextId /\ u.toPhone = s.toPhone
      BY <2>1, <3>5 DEF Allowed
    <3>7. PICK y : y = s.recent \cup {<<p.from, p.id>>}
      OBVIOUS
    <3>8. PICK x : x = Phoned(n, s, q)
      OBVIOUS
    <3>9. y \in Recents /\ x \in Seq(Packet)
      BY <1>0, <3>2, <3>7, <3>8, PhonedType, StateFields DEF Recents
    <3>10. PICK v : v = [u EXCEPT !.recent = y]
      OBVIOUS
    <3>11. /\ IsNodeState(v) /\ v.nextId = u.nextId /\ v.toPhone = s.toPhone
      BY <3>6, <3>9, <3>10, SetRecent
    <3>12. t = CallModules(n, v, q, over)
      BY <1>2, <2>4, <2>6, <3>1, <3>5, <3>7, <3>10 DEF PerhapsHandleReceived, HandleReceived
    <3>13. x = Phoned(n, v, q)
      BY <3>8, <3>11 DEF Phoned
    <3>14. PICK w : w = [v EXCEPT !.toPhone = x]
      OBVIOUS
    <3>15. Allowed(n, w, t, b, T, Relayed(n, q))
      BY <2>2, <3>2, <3>3, <3>6, <3>11, <3>12, <3>13, <3>14, AllowedModules
    <3>16. PICK r : r = [s EXCEPT !.recent = y]
      OBVIOUS
    <3>17. Allowed(n, r, v, b, T, {}) /\ IsNodeState(r)
      BY <3>5, <3>9, <3>10, <3>16, AllowedRecent
    <3>18. PICK z : z = [r EXCEPT !.toPhone = x]
      OBVIOUS
    <3>22. Allowed(n, z, w, b, T, {})
      BY <3>9, <3>14, <3>17, <3>18, AllowedPhone
    <3>23. IsNodeState(z)
      BY <3>9, <3>17, <3>18, SetToPhone
    <3>19. Allowed(n, z, t, b, T, Relayed(n, q))
      BY <2>2, <3>15, <3>22, <3>23, AllowedBoth
    <3>20. z = Remembers(n, s, p)
      BY <3>1, <3>7, <3>8, <3>16, <3>18 DEF Remembers, Marks
    <3>24. v.pending = u.pending
      BY <3>6, <3>9, <3>10, SetRecent
    <3>25. q.to = p.to /\ q.port = p.port /\ q.reqId = p.reqId /\ (q.plain <=> CanDecode(n, p))
      BY <1>0, <3>1, DecodedFacts
    <3>26. /\ \A i \in DOMAIN v.pending : i \in DOMAIN t.pending \/ (q.plain /\ Answering(n, q) /\ i = q.reqId)
           /\ q.plain /\ Answering(n, q) /\ q.reqId < v.nextId => q.reqId \notin DOMAIN t.pending
      BY <3>2, <3>11, <3>12, ModulesPending
    <3>27. Settles(n, s, p, t)
      <4>1. \A i \in DOMAIN s.pending : i \in DOMAIN u.pending \/ (p.from = n /\ i = p.id)
        BY <2>4, ImplicitAckPending, StatePending
      <4>. QED
        BY <3>24, <3>25, <3>26, <4>1 DEF Settles, Answering
    <3>28. ASSUME CanDecode(n, p), Answering(n, p), p.reqId < s.nextId
           PROVE  p.reqId \notin DOMAIN t.pending
      <4>1. s.nextId \in Nat /\ v.nextId \in Nat /\ s.nextId <= v.nextId /\ p.reqId \in Nat
        BY <1>0, <2>1, <2>2, <3>6, <3>11, StateFields DEF Packet
      <4>2. q.reqId < v.nextId
        BY <3>25, <3>28, <4>1, SMT
      <4>. QED
        BY <3>25, <3>26, <3>28, <4>2 DEF Answering
    <3>21. Handled(n, s, p, t)
      BY <2>1, <2>3, <3>27, <3>28, <2>6, <3>1, <3>4, <3>5, <3>19, <3>20 DEF Handled
    <3>. QED
      BY <3>21
  <2>. QED
    BY <2>5, <2>6
<1>. QED
  BY <1>1, <1>2

(* What goes on the queue of p, and what the node may say about it. *)
Sends(n, p) == IF p.crypt # NoChannel THEN {OnQueue(n, p)} ELSE {}

Refusing(n, id) == {<<n, "routing", e, id>> : e \in Refusals}

LEMMA SendsSealed ==
  ASSUME NEW n, NEW p \in Packet
  PROVE  /\ Sends(n, p) \in SUBSET Sealed
         /\ \A q \in Sends(n, p) : q.from = p.from /\ q.id = p.id
<1>1. SUFFICES ASSUME p.crypt # NoChannel, NEW q, q = OnQueue(n, p)
               PROVE  q \in Sealed /\ q.from = p.from /\ q.id = p.id
  BY DEF Sends
<1>2. /\ q \in Packet /\ q.from = p.from /\ q.id = p.id
      /\ q.crypt = (IF p.plain /\ UsesPKI(n, p) THEN PKI ELSE p.crypt) /\ ~ q.plain
  BY <1>1, OnQueueFacts
<1>. QED
  BY <1>1, <1>2, RouterAssumption DEF Sealed

LEMMA MarksFacts ==
  ASSUME NEW s, IsNodeState(s), NEW p \in Packet, NEW t, t = Marks(s, p)
  PROVE  /\ IsNodeState(t) /\ t.recent = s.recent \cup {<<p.from, p.id>>}
         /\ t.pending = s.pending /\ t.txQueue = s.txQueue /\ t.fromRadio = s.fromRadio
         /\ t.toPhone = s.toPhone /\ t.uplink = s.uplink /\ t.nextId = s.nextId /\ t.failed = s.failed
<1>1. PICK y : y = s.recent \cup {<<p.from, p.id>>}
  OBVIOUS
<1>2. y \in Recents
  <2>1. p.from \in Node /\ p.id \in Nat
    BY DEF Packet
  <2>. QED
    BY <1>1, <2>1, StateFields DEF Recents
<1>3. t = [s EXCEPT !.recent = y]
  BY <1>1 DEF Marks
<1>. QED
  BY <1>1, <1>2, <1>3, SetRecent

(* FloodingRouter::send of a packet with a record, or of the phone's. *)
LEMMA FloodingAllowed ==
  ASSUME NEW n \in Node, NEW s, IsNodeState(s), NEW b \in Nat, b <= s.nextId, NEW p \in Packet, p.plain,
         Indexed => p.crypt # NoChannel, NEW over, NEW t, t = FloodingSend(n, s, p, over)
  PROVE  /\ Allowed(n, Marks(s, p), t, b, Refusing(n, p.id), Sends(n, p))
         /\ t.pending = s.pending
<1>1. PICK u : u = Marks(s, p)
  OBVIOUS
<1>2. IsNodeState(u) /\ u.pending = s.pending /\ u.nextId = s.nextId
  BY <1>1, MarksFacts
<1>3. PICK L \in SUBSET Sealed : L = Sends(n, p)
  BY SendsSealed
<1>5. PICK T : T = Refusing(n, p.id)
  OBVIOUS
<1>6. Refused(n, T, p.id)
  BY <1>5 DEF Refused, Refusing
<1>7. p.crypt # NoChannel => OnQueue(n, p) \in Queued(n, b, T) \cup L
  BY <1>3 DEF Sends
<1>8. t = RouterSend(n, u, p, over)
  BY <1>1 DEF FloodingSend, Marks
<1>9. b <= u.nextId
  BY <1>2
<1>10. p.crypt = NoChannel => p.plain /\ ~ Indexed
  OBVIOUS
<1>11. Allowed(n, u, t, b, T, L) /\ t.pending = u.pending
  BY <1>2, <1>6, <1>7, <1>8, <1>9, <1>10, AllowedRouterSend
<1>. QED
  BY <1>1, <1>2, <1>3, <1>5, <1>11

LEMMA FloodingFacts ==
  ASSUME NEW n \in Node, NEW s, IsNodeState(s), NEW p \in Packet, p.plain,
         Indexed => p.crypt # NoChannel, NEW over, NEW t, t = FloodingSend(n, s, p, over)
  PROVE  /\ Allowed(n, Marks(s, p), t, s.nextId, Refusing(n, p.id), Sends(n, p))
         /\ t.pending = s.pending
<1>1. PICK b \in Nat : b = s.nextId /\ b <= s.nextId
  BY StateFields
<1>2. Allowed(n, Marks(s, p), t, b, Refusing(n, p.id), Sends(n, p)) /\ t.pending = s.pending
  BY <1>1, FloodingAllowed
<1>. QED
  BY <1>1, <1>2

(* t is s with a word to the node itself, or s. *)
Answered(n, s, t, id) ==
  /\ Allowed(n, s, t, s.nextId, Refusing(n, id), {})
  /\ t.pending = s.pending /\ t.recent = s.recent /\ t.txQueue = s.txQueue

LEMMA OwnAnswered ==
  ASSUME NEW n \in Node, NEW s, IsNodeState(s), NEW p \in Packet, NEW t, t = HandleOwn(n, s, p)
  PROVE  Answered(n, s, t, p.id)
<1>1. PICK b \in Nat : b = s.nextId /\ b <= s.nextId
  BY StateFields
<1>2. PICK T : T = Refusing(n, p.id)
  OBVIOUS
<1>3. CASE t = NakToSelf(n, s, "NO_RESPONSE", p.id)
  <2>1. p.id \in Nat /\ "NO_RESPONSE" \in Errors /\ <<n, "routing", "NO_RESPONSE", p.id>> \in T
    BY <1>2 DEF Packet, Errors, Refusing, Refusals
  <2>2. Allowed(n, s, t, b, T, {}) /\ t.pending = s.pending /\ t.recent = s.recent /\ t.txQueue = s.txQueue
    BY <1>1, <1>3, <2>1, AllowedNak
  <2>. QED
    BY <1>1, <1>2, <2>2 DEF Answered
<1>4. CASE t = s
  <2>1. Allowed(n, s, t, b, T, {})
    BY <1>1, <1>4, AllowedSame, StateFields
  <2>. QED
    BY <1>1, <1>2, <1>4, <2>1 DEF Answered
<1>. QED
  BY <1>3, <1>4 DEF HandleOwn

(* The same word beside what the word does not touch. *)
LEMMA AllowedBeside ==
  ASSUME NEW n, NEW s, NEW t, NEW b, NEW T, Allowed(n, s, t, b, T, {}), NEW u, NEW v, IsNodeState(v),
         u.fromRadio = s.fromRadio, u.toPhone = s.toPhone, u.uplink = s.uplink, u.nextId = s.nextId,
         u.failed = s.failed, v.fromRadio = t.fromRadio, v.toPhone = t.toPhone, v.uplink = t.uplink,
         v.nextId = t.nextId, v.failed = t.failed,
         IsNodeState(u), u.pending = v.pending, u.recent = v.recent, u.txQueue = v.txQueue
  PROVE  Allowed(n, u, v, b, T, {})
<1>1. /\ u.nextId <= v.nextId /\ v.toPhone = u.toPhone /\ (v.failed => u.failed \/ ~ Indexed)
      /\ Adds(u.fromRadio, v.fromRadio, Told(n, b, T)) /\ Fades(n, u.fromRadio, v.fromRadio)
      /\ \A i \in v.uplink : i \in u.uplink \/ (n \in MqttNodes /\ <<n, i>> \in Fresh(n, b) \cup PairsOf({}))
  BY Zenon DEF Allowed
<1>2. \A x \in (Node \X Nat) \ Fresh(n, b) :
        Number(v, x[1], x[2]) <= Number(u, x[1], x[2]) + (IF x \in PairsOf({}) THEN 1 ELSE 0)
  <2>1. SUFFICES ASSUME NEW x \in (Node \X Nat) \ Fresh(n, b)
                 PROVE  Number(v, x[1], x[2]) <= Number(u, x[1], x[2]) + (IF x \in PairsOf({}) THEN 1 ELSE 0)
    OBVIOUS
  <2>2. PICK k \in Nat : k = Number(v, x[1], x[2])
    BY NumberType
  <2>3. k = Number(u, x[1], x[2])
    BY <2>2 DEF Number
  <2>. QED
    BY <2>2, <2>3
<1>3. Adds(u.txQueue, v.txQueue, Queued(n, b, T) \cup {})
  BY AddsNothing
<1>. QED
  BY <1>1, <1>2, <1>3 DEF Allowed

(* A record made before the word or after it. *)
LEMMA StartBeside ==
  ASSUME NEW n, NEW s, NEW t, IsNodeState(s), IsNodeState(t), t.pending = s.pending, t.recent = s.recent,
         t.txQueue = s.txQueue, NEW p \in Packet, NEW u, Starts(s, p, u), NEW v, Starts(t, p, v)
  PROVE  u.pending = v.pending
<1>1. PICK D : D = DOMAIN s.pending \cup {p.id}
  OBVIOUS
<1>2. IsNodeState(u) /\ IsNodeState(v) /\ DOMAIN u.pending = D /\ DOMAIN v.pending = D
  BY <1>1 DEF Starts
<1>3. u.pending \in [D -> Pending] /\ v.pending \in [D -> Pending]
  BY <1>2, StateFields
<1>4. \A i \in D : u.pending[i] = v.pending[i]
  BY <1>1 DEF Starts
<1>. QED
  BY <1>3, <1>4

(* The record of p: a packet of the node's own, as the phone or a module sent it. *)
Recorded(n, id, p) ==
  p \in Packet /\ p.from = n /\ p.id = id /\ p.plain /\ (Indexed => p.crypt # NoChannel)

GaveUp(n, s, id, t) ==
  /\ s.pending[id].left = 0 /\ DOMAIN t.pending = DOMAIN s.pending \ {id}
  /\ Allowed(n, s, t, s.nextId, {<<n, "routing", "MAX_RETRANSMIT", id>>}, {})

(* t is v with one transmission fewer left to the record of id. *)
CountsDown(v, id, t) ==
  /\ IsNodeState(t) /\ t.recent = v.recent /\ t.txQueue = v.txQueue /\ t.fromRadio = v.fromRadio
  /\ t.toPhone = v.toPhone /\ t.uplink = v.uplink /\ t.nextId = v.nextId /\ t.failed = v.failed
  /\ DOMAIN t.pending = DOMAIN v.pending
  /\ t.pending[id] = [packet |-> v.pending[id].packet, left |-> v.pending[id].left - 1]
  /\ \A i \in DOMAIN v.pending : i # id => t.pending[i] = v.pending[i]

SentAgain(n, s, id, t) ==
  LET p == s.pending[id].packet
  IN /\ s.pending[id].left > 0
     /\ \E v : /\ Allowed(n, Marks(s, p), v, s.nextId, Refusing(n, id), Sends(n, p))
               /\ v.pending = s.pending /\ CountsDown(v, id, t)

Counted(v, id) == [v EXCEPT !.pending[id].left = @ - 1]

LEMMA CountingFacts ==
  ASSUME NEW v, IsNodeState(v), NEW id \in DOMAIN v.pending, v.pending[id].left > 0,
         NEW t, t = Counted(v, id)
  PROVE  CountsDown(v, id, t)
<1>1. PICK D : D = DOMAIN v.pending
  OBVIOUS
<1>2. D \in SUBSET Nat /\ id \in D /\ v.pending \in [D -> Pending] /\ v.pending[id] \in Pending
  BY <1>1, StateFields
<1>3. PICK e : e = [packet |-> v.pending[id].packet, left |-> v.pending[id].left - 1]
  OBVIOUS
<1>4. e \in Pending
  <2>1. v.pending[id].left \in Nat /\ v.pending[id].packet \in Packet
    BY <1>2 DEF Pending
  <2>2. v.pending[id].left - 1 \in Nat
    BY <2>1
  <2>. QED
    BY <1>3, <2>1, <2>2 DEF Pending
<1>5. [v.pending[id] EXCEPT !.left = @ - 1] = e
  BY <1>2, <1>3 DEF Pending
<1>6. PICK x : x = [v.pending EXCEPT ![id] = e]
  OBVIOUS
<1>7. x \in [D -> Pending] /\ x[id] = e /\ \A i \in D : i # id => x[i] = v.pending[i]
  BY <1>2, <1>4, <1>6
<1>8. t = [v EXCEPT !.pending = x]
  BY <1>5, <1>6 DEF Counted
<1>9. /\ IsNodeState(t) /\ t.pending = x
      /\ t.recent = v.recent /\ t.txQueue = v.txQueue /\ t.fromRadio = v.fromRadio
      /\ t.toPhone = v.toPhone /\ t.uplink = v.uplink /\ t.nextId = v.nextId /\ t.failed = v.failed
  <2>1. IsRecords(x)
    BY <1>2, <1>7 DEF IsRecords
  <2>. QED
    BY <1>8, <2>1, SetPending
<1>. QED
  BY <1>1, <1>3, <1>7, <1>9 DEF CountsDown

LEMMA RetransmissionFacts ==
  ASSUME NEW n \in Node, NEW s, IsNodeState(s), NEW id \in DOMAIN s.pending,
         Recorded(n, id, s.pending[id].packet), NEW over, NEW t, t = Retransmission(n, s, id, over)
  PROVE  GaveUp(n, s, id, t) \/ SentAgain(n, s, id, t)
<1>0. id \in Nat /\ s.pending[id].left \in Nat /\ s.nextId \in Nat
  BY StateFields DEF Pending
<1>1. PICK p : p = s.pending[id].packet
  OBVIOUS
<1>2. CASE s.pending[id].left = 0
  <2>1. PICK u : u = NakToSelf(n, s, "MAX_RETRANSMIT", id)
    OBVIOUS
  <2>2. PICK T : T = {<<n, "routing", "MAX_RETRANSMIT", id>>}
    OBVIOUS
  <2>3. "MAX_RETRANSMIT" \in Errors /\ <<n, "routing", "MAX_RETRANSMIT", id>> \in T
    BY <2>2 DEF Errors
  <2>4. PICK b \in Nat : b = s.nextId /\ b <= s.nextId
    BY <1>0
  <2>5. Allowed(n, s, u, b, T, {})
    BY <1>0, <2>1, <2>3, <2>4, AllowedNak
  <2>6. IsNodeState(u)
    BY <2>5 DEF Allowed
  <2>7. t = StopRetransmission(n, u, id)
    BY <1>2, <2>1 DEF Retransmission
  <2>8. Allowed(n, u, t, b, T, {}) /\ Stopped(u, id, t)
    BY <2>6, <2>7, AllowedStop
  <2>9. Allowed(n, s, t, b, T, {})
    BY <2>5, <2>8, AllowedBoth
  <2>10. DOMAIN t.pending = DOMAIN s.pending \ {id}
    <3>1. SamePending(s, u)
      BY <2>1, NakPending, StatePending
    <3>. QED
      BY <2>8, <3>1 DEF Stopped, SamePending
  <2>. QED
    BY <1>2, <2>2, <2>4, <2>9, <2>10 DEF GaveUp
<1>3. CASE s.pending[id].left # 0
  <2>1. PICK v : v = FloodingSend(n, s, p, over)
    OBVIOUS
  <2>2. p \in Packet /\ p.plain /\ p.id = id /\ (Indexed => p.crypt # NoChannel)
    BY <1>1 DEF Recorded
  <2>3. Allowed(n, Marks(s, p), v, s.nextId, Refusing(n, id), Sends(n, p)) /\ v.pending = s.pending
    BY <2>1, <2>2, FloodingFacts
  <2>4. IsNodeState(v)
    BY <2>3 DEF Allowed
  <2>5. t = Counted(v, id)
    BY <1>1, <1>3, <2>1 DEF Retransmission, Counted
  <2>6. id \in DOMAIN v.pending /\ v.pending[id].left > 0
    BY <1>0, <1>3, <2>3
  <2>7. CountsDown(v, id, t)
    BY <2>4, <2>5, <2>6, CountingFacts
  <2>8. s.pending[id].left > 0
    BY <1>0, <1>3
  <2>. QED
    BY <1>1, <2>3, <2>7, <2>8 DEF SentAgain
<1>. QED
  BY <1>2, <1>3

LEMMA EchoFacts ==
  ASSUME NEW n \in Node, NEW s, IsNodeState(s), NEW id \in s.uplink,
         NEW t, t = MqttEcho(n, s, id)
  PROVE  Allowed(n, s, t, s.nextId, {<<n, "routing", "NONE", id>>}, {}) /\ t.pending = s.pending
<1>0. s.uplink \subseteq Nat /\ id \in Nat /\ s.nextId \in Nat
  BY StateFields
<1>1. PICK x : x = s.uplink \ {id}
  OBVIOUS
<1>2. PICK u : u = [s EXCEPT !.uplink = x]
  OBVIOUS
<1>3. x \in SUBSET Nat
  BY <1>0, <1>1
<1>4. /\ IsNodeState(u) /\ u.uplink = x
      /\ u.pending = s.pending /\ u.recent = s.recent /\ u.txQueue = s.txQueue
      /\ u.fromRadio = s.fromRadio /\ u.toPhone = s.toPhone /\ u.nextId = s.nextId /\ u.failed = s.failed
  BY <1>2, <1>3, SetUplink
<1>5. PICK T : T = {<<n, "routing", "NONE", id>>}
  OBVIOUS
<1>6. "NONE" \in Errors /\ <<n, "routing", "NONE", id>> \in T
  BY <1>5 DEF Errors
<1>7. t = NakToSelf(n, u, "NONE", id)
  BY <1>1, <1>2 DEF MqttEcho
<1>8. PICK b \in Nat : b = s.nextId /\ b <= u.nextId
  BY <1>0, <1>4
<1>9. Allowed(n, u, t, b, T, {}) /\ t.pending = u.pending
  BY <1>0, <1>4, <1>6, <1>7, <1>8, AllowedNak
<1>10. \A i \in u.uplink : i \in s.uplink
  BY <1>1, <1>4
<1>11. Allowed(n, s, t, b, T, {})
  BY <1>4, <1>9, <1>10, AllowedAfter
<1>. QED
  BY <1>4, <1>5, <1>8, <1>9, <1>11

(* The phone's message, given to a node that has no record of its id. *)
Submitted(m, s, t) ==
  \E q, v :
    /\ q \in Packet /\ q.from = m.from /\ q.to = m.to /\ q.id = m.id /\ q.plain /\ q.wantAck = m.wantAck
    /\ q.crypt = m.crypt /\ q.port = m.port /\ q.reqId = NoId /\ q.err = "NONE"
    /\ q.hopLimit = m.hopLimit \/ (m.wantAck /\ q.hopLimit = LoraHopLimit)
    /\ IF m.wantAck THEN Starts(s, q, v) ELSE v = s
    /\ Allowed(m.from, Marks(v, q), t, s.nextId, Refusing(m.from, m.id), Sends(m.from, q))
    /\ t.pending = v.pending

LEMMA AppendAdds ==
  ASSUME NEW q \in Seq(Packet), NEW d \in Packet
  PROVE  ToSet(Append(q, d)) \subseteq ToSet(q) \cup {d}
<1>1. PICK r : r = Append(q, d)
  OBVIOUS
<1>2. /\ r \in Seq(Packet) /\ Len(r) = Len(q) + 1 /\ Len(q) \in Nat
      /\ r[Len(q) + 1] = d /\ \A i \in 1 .. Len(q) : r[i] = q[i]
  BY <1>1, AppendProperties, LenProperties
<1>3. ASSUME NEW i \in 1 .. Len(r)
      PROVE  r[i] \in {d} \/ \E k \in 1 .. Len(q) : r[i] = q[k]
  <2>1. i \in 1 .. Len(q) \/ i = Len(q) + 1
    BY <1>2, SMT
  <2>. QED
    BY <1>2, <2>1
<1>4. Adds(q, r, {d})
  BY <1>2, <1>3, AddsFrom
<1>. QED
  BY <1>1, <1>4 DEF Adds

LEMMA AppendSet ==
  ASSUME NEW q \in Seq(Packet), NEW d \in Packet
  PROVE  ToSet(Append(q, d)) = ToSet(q) \cup {d}
<1>1. PICK r : r = Append(q, d)
  OBVIOUS
<1>2. /\ r \in Seq(Packet) /\ Len(r) = Len(q) + 1 /\ Len(q) \in Nat
      /\ r[Len(q) + 1] = d /\ \A i \in 1 .. Len(q) : r[i] = q[i]
  BY <1>1, AppendProperties, LenProperties
<1>3. /\ Len(q) + 1 \in 1 .. Len(r)
      /\ \A i \in 1 .. Len(q) : i \in 1 .. Len(r)
  BY <1>2, SMT
<1>4. \A p : p \in ToSet(q) => p \in ToSet(r)
  BY <1>2, <1>3, Places
<1>5. d \in ToSet(r)
  BY <1>2, <1>3, Places
<1>. QED
  BY <1>1, <1>4, <1>5, AppendAdds

---------------------------------------------------------------------------
(* What a node tells itself, it hears: such a packet has an id of its own,  *)
(* and nothing in the history bars it until it is handled.                  *)

(* The receive queue has lost nothing of the node's own, nor will it to the next packet. *)
Roomy(s) == Len(s.fromRadio) < MAX_RX_FROMRADIO \/ \A p \in ToSet(s.fromRadio) : ~ p.plain

(* The node's own ids in its history are ids it has given. *)
Past(n, s) == \A x \in s.recent : x[1] = n => x[2] < s.nextId

Said(s, t) == ToSet(t.fromRadio) \ ToSet(s.fromRadio)

Word(n, b, t, p) ==
  /\ p.plain /\ p.from = n /\ p.to = n
  /\ b <= p.id /\ p.id < t.nextId /\ <<n, p.id>> \notin t.recent

(* Node n, going from s to t, adds to its receive queue words of its own,   *)
(* each with a new id, and remembers what it sends; beside new ids, its     *)
(* history gets those of X.                                                 *)
Speaks(n, s, t, X) ==
  /\ IsNodeState(t) /\ s.nextId <= t.nextId /\ Past(n, t)
  /\ Roomy(t) => Roomy(s) /\ ToSet(s.fromRadio) \subseteq ToSet(t.fromRadio)
  /\ \A p \in Said(s, t) : Word(n, s.nextId, t, p)
  /\ \A p, q \in Said(s, t) : p.id = q.id => p = q
  /\ s.recent \subseteq t.recent
  /\ \A x \in t.recent \ s.recent : x \in X \/ (x[1] = n /\ s.nextId <= x[2])
  /\ \A q \in ToSet(t.txQueue) : q \in ToSet(s.txQueue) \/ q.from # n \/ <<n, q.id>> \in t.recent
  /\ \A i \in DOMAIN t.pending : i \in DOMAIN s.pending \/ <<n, i>> \in t.recent

(* Ids n has given already. *)
Given(n, s, X) == X \subseteq Node \X Nat /\ \A x \in X : x[1] = n => x[2] < s.nextId

LEMMA FromRadioPackets ==
  ASSUME NEW s, IsNodeState(s), NEW p \in ToSet(s.fromRadio)
  PROVE  p \in Packet /\ p.id \in Nat /\ p.from \in Node
<1>1. PICK i \in 1 .. Len(s.fromRadio) : p = s.fromRadio[i]
  BY StateFields, Places
<1>2. p \in Packet
  BY <1>1, StateFields
<1>. QED
  BY <1>2 DEF Packet

(* t differs from s in what Speaks says nothing about. *)
LEMMA SpeaksSame ==
  ASSUME NEW n, NEW s, Past(n, s), NEW t, IsNodeState(s), IsNodeState(t), NEW X,
         s.nextId <= t.nextId, t.recent = s.recent, t.fromRadio = s.fromRadio,
         ToSet(t.txQueue) \subseteq ToSet(s.txQueue), DOMAIN t.pending \subseteq DOMAIN s.pending
  PROVE  Speaks(n, s, t, X)
<1>1. Said(s, t) = {} /\ (Roomy(t) => Roomy(s))
  BY DEF Said, Roomy
<1>2. Past(n, t)
  <2>1. SUFFICES ASSUME NEW x \in s.recent, x[1] = n
                 PROVE  x[2] < t.nextId
    BY DEF Past
  <2>2. x[2] \in Nat /\ s.nextId \in Nat /\ t.nextId \in Nat
    BY StateFields
  <2>3. x[2] < s.nextId
    BY <2>1 DEF Past
  <2>. QED
    BY <2>2, <2>3, SMT
<1>. QED
  BY <1>1, <1>2 DEF Speaks

LEMMA SpeaksThen ==
  ASSUME NEW n, NEW s, IsNodeState(s), NEW t, NEW u, NEW X, Given(n, s, X),
         Speaks(n, s, t, X), Speaks(n, t, u, X)
  PROVE  Speaks(n, s, u, X)
<1>1. /\ IsNodeState(t) /\ IsNodeState(u)
      /\ s.nextId \in Nat /\ t.nextId \in Nat /\ u.nextId \in Nat
      /\ s.nextId <= t.nextId /\ t.nextId <= u.nextId
  BY StateFields DEF Speaks
<1>2. s.nextId <= u.nextId
  BY <1>1, SMT
<1>3. Roomy(u) => Roomy(s) /\ ToSet(s.fromRadio) \subseteq ToSet(u.fromRadio)
  BY DEF Speaks
<1>4. s.recent \subseteq u.recent /\ u.recent \subseteq Node \X Nat
  BY <1>1, StateFields DEF Speaks
<1>5. ASSUME NEW x \in u.recent \ s.recent
      PROVE  x \in X \/ (x[1] = n /\ s.nextId <= x[2])
  <2>1. CASE x \in t.recent
    BY <1>5, <2>1 DEF Speaks
  <2>2. CASE x \notin t.recent
    <3>1. x \in X \/ (x[1] = n /\ t.nextId <= x[2])
      BY <1>5, <2>2 DEF Speaks
    <3>2. x[2] \in Nat
      BY <1>4
    <3>. QED
      BY <1>1, <3>1, <3>2, SMT
  <2>. QED
    BY <2>1, <2>2
<1>6. ASSUME NEW p \in Said(s, u)
      PROVE  /\ Word(n, s.nextId, u, p) /\ p.id \in Nat
             /\ \/ p \in Said(s, t) /\ p.id < t.nextId
                \/ p \in Said(t, u) /\ t.nextId <= p.id
  <2>0. p \in ToSet(u.fromRadio) /\ p \notin ToSet(s.fromRadio) /\ p.id \in Nat
    BY <1>1, FromRadioPackets DEF Said
  <2>1. CASE p \in ToSet(t.fromRadio)
    <3>1. p \in Said(s, t)
      BY <2>0, <2>1 DEF Said
    <3>2. Word(n, s.nextId, t, p)
      BY <3>1 DEF Speaks
    <3>3. p.plain /\ p.from = n /\ p.to = n /\ s.nextId <= p.id /\ p.id < t.nextId /\ <<n, p.id>> \notin t.recent
      BY <3>2 DEF Word
    <3>4. <<n, p.id>> \notin u.recent
      <4>1. SUFFICES ASSUME NEW x \in u.recent, x = <<n, p.id>>
                     PROVE  FALSE
        OBVIOUS
      <4>2. x \in X \/ (x[1] = n /\ t.nextId <= x[2])
        BY <3>3, <4>1 DEF Speaks
      <4>3. x[1] = n /\ x[2] = p.id
        BY <4>1
      <4>4. x \in X => p.id < s.nextId
        BY <4>3 DEF Given
      <4>. QED
        BY <1>1, <2>0, <3>3, <4>2, <4>3, <4>4, SMT
    <3>5. p.id < u.nextId
      BY <1>1, <2>0, <3>3, SMT
    <3>. QED
      BY <2>0, <3>1, <3>3, <3>4, <3>5 DEF Word
  <2>2. CASE p \notin ToSet(t.fromRadio)
    <3>1. p \in Said(t, u)
      BY <2>0, <2>2 DEF Said
    <3>2. Word(n, t.nextId, u, p)
      BY <3>1 DEF Speaks
    <3>3. t.nextId <= p.id /\ s.nextId <= p.id
      BY <1>1, <2>0, <3>2, SMT DEF Word
    <3>. QED
      BY <2>0, <3>1, <3>2, <3>3 DEF Word
  <2>. QED
    BY <2>1, <2>2
<1>7. ASSUME NEW p \in Said(s, u), NEW q \in Said(s, u), p.id = q.id
      PROVE  p = q
  <2>1. p.id \in Nat /\ (\/ p \in Said(s, t) /\ p.id < t.nextId
                         \/ p \in Said(t, u) /\ t.nextId <= p.id)
    BY <1>6
  <2>2. \/ q \in Said(s, t) /\ p.id < t.nextId
        \/ q \in Said(t, u) /\ t.nextId <= p.id
    BY <1>6, <1>7
  <2>3. (p \in Said(s, t) /\ q \in Said(s, t)) \/ (p \in Said(t, u) /\ q \in Said(t, u))
    BY <1>1, <2>1, <2>2, SMT
  <2>. QED
    BY <1>7, <2>3 DEF Speaks
<1>8. ASSUME NEW q \in ToSet(u.txQueue)
      PROVE  q \in ToSet(s.txQueue) \/ q.from # n \/ <<n, q.id>> \in u.recent
  BY DEF Speaks
<1>9. ASSUME NEW i \in DOMAIN u.pending
      PROVE  i \in DOMAIN s.pending \/ <<n, i>> \in u.recent
  BY DEF Speaks
<1>10. Past(n, u)
  BY DEF Speaks
<1>. QED
  BY <1>1, <1>2, <1>3, <1>4, <1>5, <1>6, <1>7, <1>8, <1>9, <1>10 DEF Speaks

LEMMA SpeaksMore ==
  ASSUME NEW n, NEW s, NEW t, NEW X, NEW Y, X \subseteq Y, Speaks(n, s, t, X)
  PROVE  Speaks(n, s, t, Y)
  BY DEF Speaks

(* A word that was said stays. *)
LEMMA SaidStays ==
  ASSUME NEW n, NEW s, NEW t, NEW u, NEW X, Speaks(n, t, u, X), Roomy(u), NEW p \in ToSet(t.fromRadio)
  PROVE  p \in ToSet(u.fromRadio)
  BY DEF Speaks

(* r is q and p, or less when it is full. *)
Gains(q, p, r) ==
  /\ p \in ToSet(r) /\ ToSet(r) \subseteq ToSet(q) \cup {p}
  /\ Len(q) < MAX_RX_FROMRADIO => ToSet(q) \subseteq ToSet(r)
  /\ Len(r) < MAX_RX_FROMRADIO => Len(q) < MAX_RX_FROMRADIO /\ ToSet(q) \subseteq ToSet(r)

LEMMA EnqueueKeeps ==
  ASSUME NEW s, IsNodeState(s), NEW p \in Packet, NEW t, t = EnqueueReceivedMessage(s, p)
  PROVE  Gains(s.fromRadio, p, t.fromRadio)
<1>1. Received(s, p, t)
  BY ReceivedFacts
<1>2. /\ s.fromRadio \in Seq(Packet) /\ t.fromRadio \in Seq(Packet) /\ Len(s.fromRadio) \in Nat
      /\ Len(s.fromRadio) <= MAX_RX_FROMRADIO /\ MAX_RX_FROMRADIO \in Nat \ {0}
  BY <1>1, StateFields, LenProperties, RouterAssumption DEF Received
<1>3. p \in ToSet(t.fromRadio)
  BY <1>1, <1>2, Places DEF Received
<1>4. ToSet(t.fromRadio) \subseteq ToSet(s.fromRadio) \cup {p}
  BY <1>1 DEF Received, Adds
<1>5. CASE Len(s.fromRadio) < MAX_RX_FROMRADIO
  <2>1. PICK x \in Seq(Packet) : x = Append(s.fromRadio, p)
    BY <1>2, AppendProperties
  <2>2. t = [s EXCEPT !.fromRadio = x]
    BY <1>5, <2>1 DEF EnqueueReceivedMessage
  <2>3. Len(x) <= MAX_RX_FROMRADIO
    BY <1>2, <1>5, <2>1, AppendProperties, SMT
  <2>4. t.fromRadio = x
    BY <2>2, <2>3, SetFromRadio
  <2>5. ToSet(x) = ToSet(s.fromRadio) \cup {p}
    BY <1>2, <2>1, AppendSet
  <2>. QED
    BY <1>3, <1>4, <1>5, <2>4, <2>5 DEF Gains
<1>6. CASE ~ (Len(s.fromRadio) < MAX_RX_FROMRADIO)
  <2>1. PICK f : f = Tail(s.fromRadio)
    OBVIOUS
  <2>2. s.fromRadio # <<>> /\ Len(s.fromRadio) = MAX_RX_FROMRADIO
    BY <1>2, <1>6, EmptySeq, SMT
  <2>3. f \in Seq(Packet) /\ Len(f) = Len(s.fromRadio) - 1
    BY <1>2, <2>1, <2>2, HeadTailProperties
  <2>4. PICK x \in Seq(Packet) : x = Append(f, p) /\ Len(x) = Len(f) + 1
    BY <2>3, AppendProperties
  <2>5. Len(x) = MAX_RX_FROMRADIO
    BY <1>2, <2>2, <2>3, <2>4, SMT
  <2>6. t = [s EXCEPT !.fromRadio = x]
    BY <1>6, <2>1, <2>4 DEF EnqueueReceivedMessage
  <2>7. t.fromRadio = x
    BY <1>2, <2>5, <2>6, SetFromRadio
  <2>8. ~ (Len(t.fromRadio) < MAX_RX_FROMRADIO)
    BY <1>2, <2>5, <2>7, SMT
  <2>. QED
    BY <1>3, <1>4, <1>6, <2>8 DEF Gains
<1>. QED
  BY <1>5, <1>6

LEMMA GivenNone ==
  ASSUME NEW n, NEW s
  PROVE  Given(n, s, {})
  BY DEF Given

(* To itself it says what it has not said. *)
LEMMA WordSpeaks ==
  ASSUME NEW n, NEW s, IsNodeState(s), Past(n, s), NEW q \in Packet, q.plain, q.from = n, q.to = n,
         q.id = s.nextId, NEW u, u = [s EXCEPT !.nextId = @ + 1], NEW t, t = EnqueueReceivedMessage(u, q)
  PROVE  Speaks(n, s, t, {}) /\ q \in ToSet(t.fromRadio)
<1>1. /\ IsNodeState(u) /\ u.nextId = s.nextId + 1
      /\ u.pending = s.pending /\ u.recent = s.recent /\ u.txQueue = s.txQueue /\ u.fromRadio = s.fromRadio
  BY SetNextId
<1>2. Received(u, q, t)
  BY <1>1, ReceivedFacts
<1>3. /\ IsNodeState(t) /\ t.nextId = s.nextId + 1
      /\ t.pending = s.pending /\ t.recent = s.recent /\ t.txQueue = s.txQueue
  BY <1>1, <1>2 DEF Received
<1>4. /\ q \in ToSet(t.fromRadio) /\ ToSet(t.fromRadio) \subseteq ToSet(s.fromRadio) \cup {q}
      /\ Len(t.fromRadio) < MAX_RX_FROMRADIO =>
           Len(s.fromRadio) < MAX_RX_FROMRADIO /\ ToSet(s.fromRadio) \subseteq ToSet(t.fromRadio)
  <2>1. Gains(u.fromRadio, q, t.fromRadio)
    BY <1>1, EnqueueKeeps
  <2>2. u.fromRadio = s.fromRadio
    BY <1>1
  <2>. QED
    BY <2>1, <2>2 DEF Gains
<1>5. s.nextId \in Nat /\ s.nextId <= t.nextId /\ s.nextId < t.nextId
  BY <1>3, StateFields, SMT
<1>6. <<n, q.id>> \notin s.recent
  BY <1>5 DEF Past
<1>7. Roomy(t) => Roomy(s) /\ ToSet(s.fromRadio) \subseteq ToSet(t.fromRadio)
  BY <1>4 DEF Roomy
<1>8. Said(s, t) \subseteq {q} /\ Word(n, s.nextId, t, q)
  BY <1>3, <1>4, <1>5, <1>6 DEF Said, Word
<1>9. Past(n, t)
  <2>1. SUFFICES ASSUME NEW x \in s.recent, x[1] = n
                 PROVE  x[2] < t.nextId
    BY <1>3 DEF Past
  <2>2. x[2] \in Nat /\ x[2] < s.nextId
    BY <2>1, StateFields DEF Past
  <2>. QED
    BY <1>3, <1>5, <2>2, SMT
<1>. QED
  BY <1>3, <1>4, <1>5, <1>7, <1>8, <1>9 DEF Speaks

(* A packet in s's receive queue tells n of id. *)
Telling(n, s, id) == \E q \in ToSet(s.fromRadio) : q.plain /\ q.to = n /\ q.reqId = id

LEMMA NakSpeaks ==
  ASSUME NEW n \in Node, NEW s, IsNodeState(s), Past(n, s), NEW err \in Errors, NEW id \in Nat,
         NEW t, t = NakToSelf(n, s, err, id)
  PROVE  Speaks(n, s, t, {}) /\ Telling(n, t, id)
<1>1. PICK u : u = [s EXCEPT !.nextId = @ + 1]
  OBVIOUS
<1>2. PICK q : q = AllocAckNak(n, s, err, n, id, PRIMARY, 0)
  OBVIOUS
<1>3. q.from = n /\ q.to = n /\ q.id = s.nextId /\ q.plain /\ q.reqId = id
  BY <1>2 DEF AllocAckNak
<1>4. q \in Packet
  <2>1. s.nextId \in Nat /\ PRIMARY \in Channel
    BY StateFields, RouterAssumption
  <2>. QED
    BY <1>2, <2>1 DEF AllocAckNak, Packet, Ports
<1>5. t = EnqueueReceivedMessage(u, q)
  BY <1>1, <1>2 DEF NakToSelf
<1>6. Speaks(n, s, t, {}) /\ q \in ToSet(t.fromRadio)
  BY <1>1, <1>3, <1>4, <1>5, WordSpeaks
<1>. QED
  BY <1>3, <1>6 DEF Telling

LEMMA CancelSpeaks ==
  ASSUME NEW n, NEW s, IsNodeState(s), Past(n, s), NEW from, NEW id, NEW t, t = CancelSending(s, from, id)
  PROVE  Speaks(n, s, t, {})
<1>1. Cancelled(s, t)
  BY CancelFacts
<1>2. /\ IsNodeState(t) /\ ToSet(t.txQueue) \subseteq ToSet(s.txQueue)
      /\ t.pending = s.pending /\ t.recent = s.recent /\ t.fromRadio = s.fromRadio /\ t.nextId = s.nextId
  BY <1>1 DEF Cancelled, Adds
<1>3. s.nextId <= t.nextId
  BY <1>2, StateFields
<1>. QED
  BY <1>2, <1>3, SpeaksSame

(* t is s without the record of id and perhaps a packet that waited to be sent. *)
Ends(s, id, t) ==
  /\ IsNodeState(t) /\ ToSet(t.txQueue) \subseteq ToSet(s.txQueue)
  /\ t.recent = s.recent /\ t.fromRadio = s.fromRadio /\ t.toPhone = s.toPhone /\ t.nextId = s.nextId
  /\ DOMAIN t.pending = DOMAIN s.pending \ {id}

LEMMA StopEnds ==
  ASSUME NEW n, NEW s, IsNodeState(s), NEW id, NEW t, t = StopRetransmission(n, s, id)
  PROVE  Ends(s, id, t)
<1>1. CASE id \notin DOMAIN s.pending
  <2>1. t = s
    BY <1>1 DEF StopRetransmission
  <2>. QED
    BY <1>1, <2>1 DEF Ends
<1>2. CASE id \in DOMAIN s.pending
  <2>1. PICK u : u = IF s.pending[id].left < NUM_RETRANSMISSIONS - 1 THEN CancelSending(s, n, id) ELSE s
    OBVIOUS
  <2>2. /\ IsNodeState(u) /\ ToSet(u.txQueue) \subseteq ToSet(s.txQueue) /\ u.pending = s.pending
        /\ u.recent = s.recent /\ u.fromRadio = s.fromRadio /\ u.toPhone = s.toPhone /\ u.nextId = s.nextId
    <3>1. CASE u = s
      BY <3>1
    <3>2. CASE u = CancelSending(s, n, id)
      <4>1. Cancelled(s, u)
        BY <3>2, CancelFacts
      <4>. QED
        BY <4>1 DEF Cancelled, Adds
    <3>. QED
      BY <2>1, <3>1, <3>2
  <2>3. PICK D : D = DOMAIN s.pending \ {id}
    OBVIOUS
  <2>4. PICK x : x = [i \in D |-> s.pending[i]]
    OBVIOUS
  <2>5. IsRecords(x) /\ DOMAIN x = D
    BY <2>3, <2>4, StateFields DEF IsRecords
  <2>6. t = [u EXCEPT !.pending = x]
    BY <1>2, <2>1, <2>2, <2>3, <2>4 DEF StopRetransmission
  <2>7. /\ IsNodeState(t) /\ t.pending = x
        /\ t.recent = u.recent /\ t.txQueue = u.txQueue /\ t.fromRadio = u.fromRadio
        /\ t.toPhone = u.toPhone /\ t.nextId = u.nextId
    BY <2>2, <2>5, <2>6, SetPending
  <2>. QED
    BY <2>2, <2>3, <2>5, <2>7 DEF Ends
<1>. QED
  BY <1>1, <1>2

LEMMA StopSpeaks ==
  ASSUME NEW n, NEW s, IsNodeState(s), Past(n, s), NEW id, NEW t, t = StopRetransmission(n, s, id)
  PROVE  Speaks(n, s, t, {}) /\ Ends(s, id, t)
<1>1. Ends(s, id, t)
  BY StopEnds
<1>2. /\ IsNodeState(t) /\ ToSet(t.txQueue) \subseteq ToSet(s.txQueue) /\ DOMAIN t.pending \subseteq DOMAIN s.pending
      /\ t.recent = s.recent /\ t.fromRadio = s.fromRadio /\ t.nextId = s.nextId
  BY <1>1 DEF Ends
<1>3. s.nextId <= t.nextId
  BY <1>2, StateFields
<1>. QED
  BY <1>1, <1>2, <1>3, SpeaksSame

LEMMA RadioSendSpeaks ==
  ASSUME NEW n \in Node, NEW s, IsNodeState(s), Past(n, s), NEW q \in Packet,
         q.from = n => <<n, q.id>> \in s.recent, NEW t, t = RadioSend(n, s, q)
  PROVE  Speaks(n, s, t, {})
<1>1. MaySend(s, q, t)
  BY RadioSendFacts
<1>2. /\ IsNodeState(t) /\ ToSet(t.txQueue) \subseteq ToSet(s.txQueue) \cup {q}
      /\ t.pending = s.pending /\ t.recent = s.recent /\ t.fromRadio = s.fromRadio /\ t.nextId = s.nextId
  BY <1>1 DEF MaySend, Adds
<1>3. s.nextId <= t.nextId
  BY <1>2, StateFields
<1>4. Past(n, t) /\ Said(s, t) = {} /\ (Roomy(t) => Roomy(s))
  BY <1>2 DEF Past, Said, Roomy
<1>. QED
  BY <1>2, <1>3, <1>4 DEF Speaks

LEMMA RouterSendSpeaks ==
  ASSUME NEW n \in Node, NEW s, IsNodeState(s), Past(n, s), NEW p \in Packet,
         p.from = n => <<n, p.id>> \in s.recent, NEW over, NEW t, t = RouterSend(n, s, p, over)
  PROVE  Speaks(n, s, t, {})
<1>n. ASSUME NEW e \in Refusals, t = AbortSendAndNak(n, s, e, p)
      PROVE  Speaks(n, s, t, {})
  <2>1. e \in Errors /\ p.id \in Nat
    BY <1>n DEF Refusals, Errors, Packet
  <2>2. t = NakToSelf(n, s, e, p.id)
    BY <1>n DEF AbortSendAndNak
  <2>. QED
    BY <2>1, <2>2, NakSpeaks
<1>0. s.nextId <= s.nextId
  BY StateFields
<1>1. CASE t = s
  BY <1>0, <1>1, SpeaksSame
<1>2. CASE t = AbortSendAndNak(n, s, "DUTY_CYCLE_LIMIT", p)
  BY <1>2, <1>n DEF Refusals
<1>3. CASE ~ p.plain /\ t = RadioSend(n, s, Prepared(n, p))
  <2>1. PICK q : q = Prepared(n, p)
    OBVIOUS
  <2>2. q \in Packet /\ q.from = p.from /\ q.id = p.id
    BY <2>1, PreparedFacts
  <2>3. t = RadioSend(n, s, q) /\ (q.from = n => <<n, q.id>> \in s.recent)
    BY <1>3, <2>1, <2>2
  <2>. QED
    BY <2>2, <2>3, RadioSendSpeaks
<1>4. CASE p.plain /\ p.crypt = NoChannel /\ t = [s EXCEPT !.failed = TRUE]
  <2>1. /\ IsNodeState(t) /\ t.pending = s.pending /\ t.recent = s.recent /\ t.txQueue = s.txQueue
        /\ t.fromRadio = s.fromRadio /\ t.nextId = s.nextId
    BY <1>4, SetFailed
  <2>2. s.nextId <= t.nextId
    BY <1>0, <2>1
  <2>. QED
    BY <2>1, <2>2, SpeaksSame
<1>5. CASE EncodeError(n, p) # "NONE" /\ t = AbortSendAndNak(n, s, EncodeError(n, p), p)
  <2>1. EncodeError(n, p) \in Refusals
    BY <1>5, EncodeErrors DEF Refusals
  <2>. QED
    BY <1>5, <2>1, <1>n
<1>6. CASE /\ p.plain /\ p.crypt # NoChannel
           /\ t = LET published == n \in MqttNodes /\ p.from = n
                  IN RadioSend(n,
                       [s EXCEPT !.uplink = IF published THEN @ \cup {p.id} ELSE @],
                       Encoded(n, Prepared(n, p)))
  <2>1. PICK x : x = IF n \in MqttNodes /\ p.from = n THEN s.uplink \cup {p.id} ELSE s.uplink
    OBVIOUS
  <2>2. PICK u : u = [s EXCEPT !.uplink = x]
    OBVIOUS
  <2>3. s.uplink \subseteq Nat /\ p.id \in Nat
    BY StateFields DEF Packet
  <2>4. x \in SUBSET Nat
    BY <2>1, <2>3
  <2>5. /\ IsNodeState(u) /\ u.pending = s.pending /\ u.recent = s.recent /\ u.txQueue = s.txQueue
        /\ u.fromRadio = s.fromRadio /\ u.nextId = s.nextId
    BY <2>2, <2>4, SetUplink
  <2>6. PICK q : q = OnQueue(n, p)
    OBVIOUS
  <2>7. q \in Packet /\ q.from = p.from /\ q.id = p.id
    BY <2>6, OnQueueFacts
  <2>8. t = RadioSend(n, u, q)
    BY <1>6, <2>1, <2>2, <2>6, Zenon DEF OnQueue
  <2>9. s.nextId <= u.nextId
    BY <1>0, <2>5
  <2>10. Speaks(n, s, u, {})
    BY <2>5, <2>9, SpeaksSame
  <2>11. Past(n, u) /\ (q.from = n => <<n, q.id>> \in u.recent)
    BY <2>5, <2>7, <2>10 DEF Speaks
  <2>12. Speaks(n, u, t, {})
    BY <2>5, <2>7, <2>8, <2>11, RadioSendSpeaks
  <2>. QED
    BY <2>10, <2>12, GivenNone, SpeaksThen
<1>. QED
  BY <1>1, <1>2, <1>3, <1>4, <1>5, <1>6, Zenon DEF RouterSend

(* Ids the node gives of itself need no mention. *)
LEMMA SpeaksFresh ==
  ASSUME NEW n, NEW s, NEW u, NEW t, NEW X, NEW Y, IsNodeState(s), u.nextId = s.nextId + 1,
         u.pending = s.pending, u.recent = s.recent, u.txQueue = s.txQueue, u.fromRadio = s.fromRadio,
         Y \subseteq X \cup {<<n, s.nextId>>}, Speaks(n, u, t, Y)
  PROVE  Speaks(n, s, t, X)
<1>1. s.nextId \in Nat /\ IsNodeState(t) /\ t.nextId \in Nat /\ t.recent \subseteq Node \X Nat
  BY StateFields DEF Speaks
<1>2. s.nextId <= t.nextId
  BY <1>1, SMT DEF Speaks
<1>3. Said(s, t) = Said(u, t) /\ (Roomy(u) <=> Roomy(s))
  BY DEF Said, Roomy
<1>4. ASSUME NEW p \in Said(s, t)
      PROVE  Word(n, s.nextId, t, p)
  <2>1. Word(n, u.nextId, t, p)
    BY <1>3, <1>4 DEF Speaks
  <2>2. p.id \in Nat
    BY <1>1, <1>4, FromRadioPackets DEF Said
  <2>3. u.nextId <= p.id
    BY <2>1 DEF Word
  <2>4. s.nextId <= p.id
    BY <1>1, <2>2, <2>3, SMT
  <2>. QED
    BY <2>1, <2>4 DEF Word
<1>5. ASSUME NEW x \in t.recent \ s.recent
      PROVE  x \in X \/ (x[1] = n /\ s.nextId <= x[2])
  <2>1. x \in Y \/ (x[1] = n /\ u.nextId <= x[2])
    BY <1>5 DEF Speaks
  <2>2. CASE x \in Y
    <3>1. x \in X \/ (x[1] = n /\ x[2] = s.nextId)
      BY <2>2
    <3>. QED
      BY <1>1, <3>1, SMT
  <2>3. CASE x[1] = n /\ u.nextId <= x[2]
    <3>1. x[2] \in Nat
      BY <1>1
    <3>2. s.nextId <= x[2]
      BY <1>1, <2>3, <3>1, SMT
    <3>. QED
      BY <2>3, <3>2
  <2>. QED
    BY <2>1, <2>2, <2>3
<1>. QED
  BY <1>1, <1>2, <1>3, <1>4, <1>5 DEF Speaks

LEMMA FloodingSpeaks ==
  ASSUME NEW n \in Node, NEW s, IsNodeState(s), Past(n, s), NEW p \in Packet, p.from = n, p.id < s.nextId,
         NEW over, NEW t, t = FloodingSend(n, s, p, over)
  PROVE  Speaks(n, s, t, {<<n, p.id>>}) /\ <<n, p.id>> \in t.recent
<1>1. PICK x : x = s.recent \cup {<<n, p.id>>}
  OBVIOUS
<1>2. PICK u : u = [s EXCEPT !.recent = x]
  OBVIOUS
<1>3. x \in Recents
  BY <1>1, StateFields DEF Recents, Packet
<1>4. /\ IsNodeState(u) /\ u.recent = x /\ u.pending = s.pending /\ u.txQueue = s.txQueue
      /\ u.fromRadio = s.fromRadio /\ u.nextId = s.nextId
  BY <1>2, <1>3, SetRecent
<1>5. Past(n, u)
  BY <1>1, <1>4 DEF Past
<1>6. Said(s, u) = {} /\ (Roomy(u) => Roomy(s)) /\ s.nextId <= u.nextId
  BY <1>4, StateFields DEF Said, Roomy
<1>7. Speaks(n, s, u, {<<n, p.id>>})
  BY <1>1, <1>4, <1>5, <1>6 DEF Speaks
<1>8. t = RouterSend(n, u, p, over)
  BY <1>1, <1>2 DEF FloodingSend
<1>9. <<n, p.id>> \in u.recent
  BY <1>1, <1>4
<1>10. Speaks(n, u, t, {})
  BY <1>4, <1>5, <1>8, <1>9, RouterSendSpeaks
<1>11. Speaks(n, u, t, {<<n, p.id>>})
  BY <1>10, SpeaksMore
<1>12. Given(n, s, {<<n, p.id>>})
  BY DEF Given, Packet
<1>13. Speaks(n, s, t, {<<n, p.id>>})
  BY <1>7, <1>11, <1>12, SpeaksThen
<1>. QED
  BY <1>9, <1>10, <1>13 DEF Speaks

(* A record and the entry in the history come together. *)
LEMMA ReliableSpeaks ==
  ASSUME NEW n \in Node, NEW s, IsNodeState(s), Past(n, s), NEW p \in Packet, p.from = n, p.id < s.nextId,
         NEW over, NEW t, t = ReliableSend(n, s, p, over)
  PROVE  Speaks(n, s, t, {<<n, p.id>>})
<1>1. CASE ~ p.wantAck
  <2>1. t = FloodingSend(n, s, p, over)
    BY <1>1 DEF ReliableSend
  <2>. QED
    BY <2>1, FloodingSpeaks
<1>2. CASE p.wantAck
  <2>1. PICK h : h = IF p.hopLimit = 0 THEN LoraHopLimit ELSE p.hopLimit
    OBVIOUS
  <2>2. h \in Nat
    BY <2>1, RouterAssumption DEF Packet
  <2>3. PICK q : q = [p EXCEPT !.hopLimit = h]
    OBVIOUS
  <2>4. q \in Packet /\ q.from = n /\ q.id = p.id
    BY <2>2, <2>3 DEF Packet
  <2>5. PICK v : v = StartRetransmission(n, s, q)
    OBVIOUS
  <2>6. t = FloodingSend(n, v, q, over)
    BY <1>2, <2>1, <2>3, <2>5 DEF ReliableSend
  <2>7. PICK w : w = StopRetransmission(n, s, q.id) /\ Starts(w, q, v)
    BY <2>4, <2>5, StartFacts
  <2>8. Speaks(n, s, w, {}) /\ Ends(s, q.id, w)
    BY <2>7, StopSpeaks
  <2>9. /\ IsNodeState(v) /\ IsNodeState(w) /\ v.recent = s.recent /\ v.txQueue = w.txQueue
        /\ v.fromRadio = s.fromRadio /\ v.nextId = s.nextId
        /\ DOMAIN v.pending \subseteq DOMAIN s.pending \cup {p.id}
        /\ ToSet(v.txQueue) \subseteq ToSet(s.txQueue)
    BY <2>4, <2>7, <2>8 DEF Starts, Ends
  <2>10. Past(n, v) /\ q.id < v.nextId
    BY <2>4, <2>9 DEF Past
  <2>11. Speaks(n, v, t, {<<n, q.id>>}) /\ <<n, q.id>> \in t.recent
    BY <2>4, <2>6, <2>9, <2>10, FloodingSpeaks
  <2>12. Said(s, t) = Said(v, t) /\ (Roomy(v) <=> Roomy(s))
    BY <2>9 DEF Said, Roomy
  <2>13. ASSUME NEW i \in DOMAIN t.pending
         PROVE  i \in DOMAIN s.pending \/ <<n, i>> \in t.recent
    <3>1. i \in DOMAIN v.pending \/ <<n, i>> \in t.recent
      BY <2>11 DEF Speaks
    <3>. QED
      BY <2>4, <2>9, <2>11, <3>1
  <2>14. \A y \in ToSet(t.txQueue) : y \in ToSet(s.txQueue) \/ y.from # n \/ <<n, y.id>> \in t.recent
    BY <2>9, <2>11 DEF Speaks
  <2>15. /\ IsNodeState(t) /\ s.nextId <= t.nextId /\ Past(n, t)
         /\ Roomy(t) => Roomy(s) /\ ToSet(s.fromRadio) \subseteq ToSet(t.fromRadio)
         /\ \A y \in Said(s, t) : Word(n, s.nextId, t, y)
         /\ \A y, z \in Said(s, t) : y.id = z.id => y = z
         /\ s.recent \subseteq t.recent
         /\ \A x \in t.recent \ s.recent : x \in {<<n, p.id>>} \/ (x[1] = n /\ s.nextId <= x[2])
    BY <2>4, <2>9, <2>11, <2>12 DEF Speaks
  <2>. QED
    BY <2>13, <2>14, <2>15 DEF Speaks
<1>. QED
  BY <1>1, <1>2

(* A packet of the node's own, numbered before what came in between. *)
LEMMA OwnSpeaks ==
  ASSUME NEW n \in Node, NEW s, IsNodeState(s), Past(n, s), NEW X, Given(n, s, X),
         NEW u, u = [s EXCEPT !.nextId = @ + 1], NEW w, Speaks(n, u, w, X),
         NEW p \in Packet, p.from = n, p.plain, p.id = s.nextId, NEW over, NEW t, t = SendLocal(n, w, p, over)
  PROVE  Speaks(n, s, t, X)
<1>1. /\ IsNodeState(u) /\ u.nextId = s.nextId + 1
      /\ u.pending = s.pending /\ u.recent = s.recent /\ u.txQueue = s.txQueue /\ u.fromRadio = s.fromRadio
  BY SetNextId
<1>2. /\ IsNodeState(w) /\ Past(n, w) /\ s.nextId \in Nat /\ w.nextId \in Nat /\ u.nextId <= w.nextId
      /\ p.id < w.nextId /\ s.nextId <= w.nextId
  <2>1. IsNodeState(w) /\ Past(n, w) /\ u.nextId <= w.nextId
    BY DEF Speaks
  <2>2. s.nextId \in Nat /\ w.nextId \in Nat
    BY <2>1, StateFields
  <2>. QED
    BY <1>1, <2>1, <2>2, SMT
<1>3. CASE p.to # n
  <2>1. t = ReliableSend(n, w, p, over)
    BY <1>3 DEF SendLocal
  <2>2. Speaks(n, w, t, {<<n, p.id>>})
    BY <1>2, <2>1, ReliableSpeaks
  <2>3. PICK Y : Y = X \cup {<<n, p.id>>}
    OBVIOUS
  <2>4. Speaks(n, w, t, Y) /\ Speaks(n, u, w, Y)
    BY <2>2, <2>3, SpeaksMore
  <2>5. Given(n, u, Y)
    <3>1. ASSUME NEW x \in Y, x[1] = n
          PROVE  x[2] < u.nextId
      <4>1. CASE x \in X
        <5>1. x[2] < s.nextId /\ x[2] \in Nat
          BY <3>1, <4>1 DEF Given
        <5>. QED
          BY <1>1, <1>2, <5>1, SMT
      <4>2. CASE x = <<n, p.id>>
        BY <1>1, <1>2, <4>2, SMT
      <4>. QED
        BY <2>3, <4>1, <4>2
    <3>2. Y \subseteq Node \X Nat
      BY <2>3 DEF Given, Packet
    <3>. QED
      BY <3>1, <3>2 DEF Given
  <2>6. Speaks(n, u, t, Y)
    BY <1>1, <2>4, <2>5, SpeaksThen
  <2>7. Y \subseteq X \cup {<<n, s.nextId>>}
    BY <2>3
  <2>. QED
    BY <1>1, <2>6, <2>7, SpeaksFresh
<1>4. CASE p.to = n
  <2>1. t = EnqueueReceivedMessage(w, p)
    BY <1>4 DEF SendLocal
  <2>2. Received(w, p, t)
    BY <1>2, <2>1, ReceivedFacts
  <2>3. /\ IsNodeState(t) /\ t.nextId = w.nextId
        /\ t.pending = w.pending /\ t.recent = w.recent /\ t.txQueue = w.txQueue
    BY <2>2 DEF Received
  <2>4. /\ p \in ToSet(t.fromRadio) /\ ToSet(t.fromRadio) \subseteq ToSet(w.fromRadio) \cup {p}
        /\ Len(t.fromRadio) < MAX_RX_FROMRADIO =>
             Len(w.fromRadio) < MAX_RX_FROMRADIO /\ ToSet(w.fromRadio) \subseteq ToSet(t.fromRadio)
    <3>1. Gains(w.fromRadio, p, t.fromRadio)
      BY <1>2, <2>1, EnqueueKeeps
    <3>. QED
      BY <3>1 DEF Gains
  <2>5. Speaks(n, s, w, X)
    BY <1>1, SpeaksFresh
  <2>6. Roomy(t) => Roomy(s) /\ ToSet(s.fromRadio) \subseteq ToSet(t.fromRadio)
    <3>1. Roomy(t) => Roomy(w) /\ ToSet(w.fromRadio) \subseteq ToSet(t.fromRadio)
      BY <2>4 DEF Roomy
    <3>. QED
      BY <2>5, <3>1 DEF Speaks
  <2>7. <<n, p.id>> \notin t.recent
    <3>1. SUFFICES ASSUME NEW x \in w.recent, x = <<n, p.id>>
                   PROVE  FALSE
      BY <2>3
    <3>2. x[1] = n /\ x[2] = s.nextId
      BY <3>1
    <3>3. x \notin s.recent /\ x \notin X
      BY <1>2, <3>2 DEF Past, Given
    <3>4. u.nextId <= x[2]
      BY <1>1, <3>1, <3>3 DEF Speaks
    <3>. QED
      BY <1>1, <1>2, <3>2, <3>4, SMT
  <2>8. ASSUME NEW q \in Said(s, t)
        PROVE  q = p \/ (q \in Said(u, w) /\ q.id \in Nat /\ u.nextId <= q.id /\ Word(n, s.nextId, t, q))
    <3>1. SUFFICES ASSUME q # p
                   PROVE  q \in Said(u, w) /\ q.id \in Nat /\ u.nextId <= q.id /\ Word(n, s.nextId, t, q)
      OBVIOUS
    <3>2. q \in Said(u, w) /\ q \in Said(s, w)
      BY <1>1, <2>4, <2>8, <3>1 DEF Said
    <3>3. Word(n, u.nextId, w, q) /\ Word(n, s.nextId, w, q)
      BY <2>5, <3>2 DEF Speaks
    <3>4. Word(n, s.nextId, t, q)
      BY <2>3, <3>3 DEF Word
    <3>5. q.id \in Nat
      BY <1>2, <3>2, FromRadioPackets DEF Said
    <3>. QED
      BY <3>2, <3>3, <3>4, <3>5 DEF Word
  <2>9. Word(n, s.nextId, t, p)
    BY <1>2, <1>4, <2>3, <2>7 DEF Word
  <2>10. ASSUME NEW q \in Said(s, t), NEW r \in Said(s, t), q.id = r.id
         PROVE  q = r
    <3>1. CASE q \in Said(u, w) /\ r \in Said(u, w)
      BY <2>10, <3>1 DEF Speaks
    <3>2. CASE q = p \/ r = p
      BY <1>1, <1>2, <2>8, <2>10, <3>2, SMT
    <3>. QED
      BY <2>8, <3>1, <3>2
  <2>11. /\ s.recent \subseteq t.recent
         /\ \A x \in t.recent \ s.recent : x \in X \/ (x[1] = n /\ s.nextId <= x[2])
         /\ \A q \in ToSet(t.txQueue) : q \in ToSet(s.txQueue) \/ q.from # n \/ <<n, q.id>> \in t.recent
         /\ \A i \in DOMAIN t.pending : i \in DOMAIN s.pending \/ <<n, i>> \in t.recent
    BY <2>3, <2>5 DEF Speaks
  <2>12. Past(n, t) /\ s.nextId <= t.nextId
    BY <1>2, <2>3 DEF Past
  <2>. QED
    BY <2>3, <2>6, <2>8, <2>9, <2>10, <2>11, <2>12 DEF Speaks
<1>. QED
  BY <1>3, <1>4

LEMMA AckNakSpeaks ==
  ASSUME NEW n \in Node, NEW s, IsNodeState(s), Past(n, s), NEW err \in Errors, NEW to \in Node, NEW id \in Nat,
         NEW crypt \in Channel \cup {NoChannel}, NEW hops \in Nat,
         NEW over, NEW t, t = SendAckNak(n, s, err, to, id, crypt, hops, over)
  PROVE  Speaks(n, s, t, {})
<1>1. PICK u : u = [s EXCEPT !.nextId = @ + 1]
  OBVIOUS
<1>2. /\ IsNodeState(u) /\ u.nextId = s.nextId + 1
      /\ u.pending = s.pending /\ u.recent = s.recent /\ u.txQueue = s.txQueue /\ u.fromRadio = s.fromRadio
  BY <1>1, SetNextId
<1>3. PICK p : p = AllocAckNak(n, s, err, to, id, crypt, hops)
  OBVIOUS
<1>4. p.from = n /\ p.plain /\ p.id = s.nextId
  BY <1>3 DEF AllocAckNak
<1>5. p \in Packet
  <2>1. s.nextId \in Nat
    BY StateFields
  <2>. QED
    BY <1>3, <2>1 DEF AllocAckNak, Packet, Ports
<1>6. t = SendLocal(n, u, p, over)
  BY <1>1, <1>3 DEF SendAckNak
<1>7. Past(n, u) /\ u.nextId <= u.nextId
  <2>1. SUFFICES ASSUME NEW x \in s.recent, x[1] = n
                 PROVE  x[2] < u.nextId
    BY <1>2, StateFields DEF Past
  <2>2. x[2] \in Nat /\ x[2] < s.nextId /\ s.nextId \in Nat
    BY <2>1, StateFields DEF Past
  <2>. QED
    BY <1>2, <2>2, SMT
<1>8. Speaks(n, u, u, {})
  BY <1>2, <1>7, SpeaksSame
<1>9. Given(n, s, {})
  BY GivenNone
<1>. QED
  BY <1>1, <1>4, <1>5, <1>6, <1>8, <1>9, OwnSpeaks

LEMMA SpeaksNothing ==
  ASSUME NEW n, NEW s, IsNodeState(s), Past(n, s), NEW X
  PROVE  Speaks(n, s, s, X)
<1>1. s.nextId <= s.nextId
  BY StateFields
<1>. QED
  BY <1>1, SpeaksSame

LEMMA RelaySpeaks ==
  ASSUME NEW n \in Node, NEW s, IsNodeState(s), Past(n, s), NEW p, Readable(p), NEW over,
         NEW t, t = PerhapsRebroadcast(n, s, p, over)
  PROVE  Speaks(n, s, t, {})
<1>1. CASE ~ WillRebroadcast(n, p)
  BY <1>1, SpeaksNothing DEF PerhapsRebroadcast
<1>2. CASE WillRebroadcast(n, p)
  <2>1. PICK r : r = [p EXCEPT !.hopLimit = @ - 1]
    OBVIOUS
  <2>2. r \in Packet /\ r.from = p.from
    BY <1>2, <2>1, RelayedFacts
  <2>3. r.from # n
    BY <1>2, <2>2 DEF WillRebroadcast
  <2>4. t = RouterSend(n, s, r, over)
    BY <1>2, <2>1 DEF PerhapsRebroadcast
  <2>. QED
    BY <2>2, <2>3, <2>4, RouterSendSpeaks
<1>. QED
  BY <1>1, <1>2

LEMMA FloodingSniffSpeaks ==
  ASSUME NEW n \in Node, NEW s, IsNodeState(s), Past(n, s), NEW p, Readable(p), NEW over,
         NEW t, t = FloodingSniffReceived(n, s, p, over)
  PROVE  Speaks(n, s, t, {})
<1>1. PICK u : /\ u = s \/ u = CancelSending(s, p.to, p.reqId)
               /\ t = PerhapsRebroadcast(n, u, p, over)
  BY DEF FloodingSniffReceived
<1>2. Speaks(n, s, u, {})
  BY <1>1, SpeaksNothing, CancelSpeaks
<1>3. IsNodeState(u) /\ Past(n, u)
  BY <1>2 DEF Speaks
<1>4. Speaks(n, u, t, {})
  BY <1>1, <1>3, RelaySpeaks
<1>. QED
  BY <1>2, <1>4, GivenNone, SpeaksThen

LEMMA AcknowledgeSpeaks ==
  ASSUME NEW n \in Node, NEW s, IsNodeState(s), Past(n, s), NEW p, Readable(p), NEW replying, NEW over,
         NEW t, t = Acknowledge(n, s, p, replying, over)
  PROVE  Speaks(n, s, t, {})
<1>1. /\ p.from \in Node /\ p.id \in Nat /\ PRIMARY \in Channel \cup {NoChannel} /\ 0 \in Nat
      /\ ReplyChannel(p) \in Channel \cup {NoChannel} /\ HopLimitForResponse(p) \in Nat
  BY ReplyChannels, ResponseHops, RouterAssumption DEF Readable, Packet, HOP_MAX
<1>2. CASE t = s
  BY <1>2, SpeaksNothing
<1>3. ASSUME NEW e \in Errors, NEW c \in Channel \cup {NoChannel}, NEW h \in Nat,
             t = SendAckNak(n, s, e, p.from, p.id, c, h, over)
      PROVE  Speaks(n, s, t, {})
  BY <1>1, <1>3, AckNakSpeaks
<1>4. \/ t = s
      \/ t = SendAckNak(n, s, "NONE", p.from, p.id, ReplyChannel(p), HopLimitForResponse(p), over)
      \/ t = SendAckNak(n, s, "NONE", p.from, p.id, ReplyChannel(p), 0, over)
      \/ t = SendAckNak(n, s, "PKI_UNKNOWN_PUBKEY", p.from, p.id, PRIMARY, HopLimitForResponse(p), over)
      \/ t = SendAckNak(n, s, "NO_CHANNEL", p.from, p.id, PRIMARY, HopLimitForResponse(p), over)
  BY DEF Acknowledge
<1>5. "NONE" \in Errors /\ "PKI_UNKNOWN_PUBKEY" \in Errors /\ "NO_CHANNEL" \in Errors
  BY DEF Errors
<1>. QED
  BY <1>1, <1>2, <1>3, <1>4, <1>5

LEMMA SniffSpeaks ==
  ASSUME NEW n \in Node, NEW s, IsNodeState(s), Past(n, s), NEW p, Readable(p), NEW replying, NEW over,
         NEW t, t = ReliableSniffReceived(n, s, p, replying, over)
  PROVE  Speaks(n, s, t, {})
<1>1. PICK u : u = Acknowledge(n, s, p, replying, over)
  OBVIOUS
<1>2. Speaks(n, s, u, {})
  BY <1>1, AcknowledgeSpeaks
<1>3. IsNodeState(u) /\ Past(n, u)
  BY <1>2 DEF Speaks
<1>4. PICK v : /\ v = u \/ v = StopRetransmission(n, u, p.reqId)
               /\ t = FloodingSniffReceived(n, v, p, over)
  BY <1>1 DEF ReliableSniffReceived
<1>5. Speaks(n, u, v, {})
  BY <1>3, <1>4, SpeaksNothing, StopSpeaks
<1>6. IsNodeState(v) /\ Past(n, v)
  BY <1>5 DEF Speaks
<1>7. Speaks(n, v, t, {})
  BY <1>4, <1>6, FloodingSniffSpeaks
<1>8. Speaks(n, s, v, {})
  BY <1>2, <1>5, GivenNone, SpeaksThen
<1>. QED
  BY <1>7, <1>8, GivenNone, SpeaksThen

(* What the phone is given is no word. *)
LEMMA SpeaksPhone ==
  ASSUME NEW n, NEW s, NEW t, NEW X, Speaks(n, s, t, X), NEW x \in Seq(Packet), NEW u, u = [t EXCEPT !.toPhone = x]
  PROVE  Speaks(n, s, u, X)
<1>1. IsNodeState(t)
  BY DEF Speaks
<1>2. /\ IsNodeState(u) /\ u.pending = t.pending /\ u.recent = t.recent /\ u.txQueue = t.txQueue
      /\ u.fromRadio = t.fromRadio /\ u.nextId = t.nextId
  BY <1>1, SetToPhone
<1>3. Past(n, t) /\ (Roomy(t) => Roomy(s) /\ ToSet(s.fromRadio) \subseteq ToSet(t.fromRadio))
  BY DEF Speaks
<1>4. Past(n, u) /\ (Roomy(u) => Roomy(t)) /\ Said(s, u) = Said(s, t)
  BY <1>2, <1>3 DEF Past, Roomy, Said
<1>5. \A p \in Said(s, u) : Word(n, s.nextId, u, p)
  BY <1>2, <1>4 DEF Speaks, Word
<1>6. \A p, q \in Said(s, u) : p.id = q.id => p = q
  BY <1>4 DEF Speaks
<1>7. /\ s.nextId <= u.nextId /\ s.recent \subseteq u.recent
      /\ \A y \in u.recent \ s.recent : y \in X \/ (y[1] = n /\ s.nextId <= y[2])
      /\ \A q \in ToSet(u.txQueue) : q \in ToSet(s.txQueue) \/ q.from # n \/ <<n, q.id>> \in u.recent
      /\ \A i \in DOMAIN u.pending : i \in DOMAIN s.pending \/ <<n, i>> \in u.recent
  BY <1>2 DEF Speaks
<1>8. Roomy(u) => Roomy(s) /\ ToSet(s.fromRadio) \subseteq ToSet(u.fromRadio)
  BY <1>2, <1>3, <1>4
<1>. QED
  BY <1>2, <1>4, <1>5, <1>6, <1>7, <1>8 DEF Speaks

LEMMA RoutingSpeaks ==
  ASSUME NEW n \in Node, NEW s, IsNodeState(s), Past(n, s), NEW p, Readable(p), NEW replying, NEW over,
         NEW t, t = RoutingModuleReceived(n, s, p, replying, over)
  PROVE  Speaks(n, s, t, {})
<1>1. CASE t = s
  BY <1>1, SpeaksNothing
<1>2. PICK v : v = ReliableSniffReceived(n, s, p, replying, over)
  OBVIOUS
<1>3. Speaks(n, s, v, {})
  BY <1>2, SniffSpeaks
<1>4. PICK x : x = IF ForUs(n, p) THEN Append(v.toPhone, p) ELSE v.toPhone
  OBVIOUS
<1>5. x \in Seq(Packet)
  <2>1. v.toPhone \in Seq(Packet) /\ p \in Packet
    BY <1>3, StateFields DEF Speaks, Readable
  <2>2. Append(v.toPhone, p) \in Seq(Packet)
    BY <2>1, AppendProperties
  <2>. QED
    BY <1>4, <2>1, <2>2
<1>6. CASE t = [v EXCEPT !.toPhone = x]
  BY <1>3, <1>5, <1>6, SpeaksPhone
<1>7. t = s \/ t = [v EXCEPT !.toPhone = x]
  BY <1>2, <1>4 DEF RoutingModuleReceived
<1>. QED
  BY <1>1, <1>6, <1>7

LEMMA ModulesSpeaks ==
  ASSUME NEW n \in Node, NEW s, IsNodeState(s), Past(n, s), NEW p, Readable(p), NEW over,
         NEW t, t = CallModules(n, s, p, over)
  PROVE  Speaks(n, s, t, {})
<1>s. Stopping(n, p) => Speaks(n, s, t, {})
  BY SpeaksNothing DEF CallModules
<1>t. SUFFICES ASSUME ~ Stopping(n, p)
               PROVE  Speaks(n, s, t, {})
  BY <1>s
<1>1. PICK replying : replying = Replying(n, p)
  OBVIOUS
<1>2. CASE replying
  <2>1. PICK u : u = [s EXCEPT !.nextId = @ + 1]
    OBVIOUS
  <2>2. /\ IsNodeState(u) /\ u.nextId = s.nextId + 1 /\ u.recent = s.recent
    BY <2>1, SetNextId
  <2>3. Past(n, u)
    <3>1. SUFFICES ASSUME NEW x \in s.recent, x[1] = n
                   PROVE  x[2] < u.nextId
      BY <2>2 DEF Past
    <3>2. x[2] \in Nat /\ x[2] < s.nextId /\ s.nextId \in Nat
      BY <3>1, StateFields DEF Past
    <3>. QED
      BY <2>2, <3>2, SMT
  <2>4. PICK w : w = RoutingModuleReceived(n, u, p, replying, over)
    OBVIOUS
  <2>5. Speaks(n, u, w, {})
    BY <2>2, <2>3, <2>4, RoutingSpeaks
  <2>6. PICK q : q = Response(n, s, p)
    OBVIOUS
  <2>7. q \in Packet /\ q.from = n /\ q.plain /\ q.id = s.nextId
    <3>1. PICK b \in Nat : b = s.nextId /\ b <= s.nextId
      BY StateFields
    <3>2. PICK heard : heard = FALSE
      OBVIOUS
    <3>3. q \in Own(n, b, Answers(n, b, p, heard, heard)) /\ q.plain /\ q.id = s.nextId
      BY <2>6, <3>1, ResponseFacts
    <3>. QED
      BY <3>3 DEF Own
  <2>8. t = SendLocal(n, w, q, over)
    BY <1>t, <1>1, <1>2, <2>1, <2>4, <2>6, Zenon DEF CallModules, Replying
  <2>9. Given(n, s, {})
    BY GivenNone
  <2>. QED
    BY <2>1, <2>5, <2>7, <2>8, <2>9, OwnSpeaks
<1>3. CASE ~ replying
  <2>1. PICK w : w = RoutingModuleReceived(n, s, p, replying, over)
    OBVIOUS
  <2>2. Speaks(n, s, w, {})
    BY <2>1, RoutingSpeaks
  <2>3. IsNodeState(w) /\ Past(n, w)
    BY <2>2 DEF Speaks
  <2>4. CASE t = w
    BY <2>2, <2>4
  <2>5. CASE t = SendAckNak(n, w, "NO_RESPONSE", p.from, p.id, ReplyChannel(p), HopLimitForResponse(p), over)
    <3>1. /\ p.from \in Node /\ p.id \in Nat /\ "NO_RESPONSE" \in Errors
          /\ ReplyChannel(p) \in Channel \cup {NoChannel} /\ HopLimitForResponse(p) \in Nat
      BY ReplyChannels, ResponseHops DEF Readable, Packet, HOP_MAX, Errors
    <3>2. Speaks(n, w, t, {})
      BY <2>3, <2>5, <3>1, AckNakSpeaks
    <3>. QED
      BY <2>2, <3>2, GivenNone, SpeaksThen
  <2>6. t = w \/ t = SendAckNak(n, w, "NO_RESPONSE", p.from, p.id, ReplyChannel(p), HopLimitForResponse(p), over)
    BY <1>t, <1>1, <1>3, <2>1, Zenon DEF CallModules, Replying
  <2>. QED
    BY <2>4, <2>5, <2>6
<1>. QED
  BY <1>2, <1>3

LEMMA DuplicateSpeaks ==
  ASSUME NEW n \in Node, NEW s, IsNodeState(s), Past(n, s), NEW p, Readable(p), p.plain => p.hopStart = 0,
         NEW over, NEW t, t = HandleDuplicate(n, s, p, over)
  PROVE  Speaks(n, s, t, {})
<1>1. PICK u : u = IF n \in Routers THEN s ELSE CancelSending(s, p.from, p.id)
  OBVIOUS
<1>2. Speaks(n, s, u, {})
  BY <1>1, SpeaksNothing, CancelSpeaks
<1>3. IsNodeState(u) /\ Past(n, u)
  BY <1>2 DEF Speaks
<1>4. Speaks(n, u, t, {})
  <2>1. CASE t = u
    BY <1>3, <2>1, SpeaksNothing
  <2>2. CASE t = PerhapsRebroadcast(n, u, p, over)
    BY <1>3, <2>2, RelaySpeaks
  <2>3. CASE Direct(p) /\ t = SendAckNak(n, u, "NONE", p.from, p.id, HashChannel(p), 0, over)
    <3>1. p.from \in Node /\ p.id \in Nat /\ "NONE" \in Errors /\ 0 \in Nat
      BY DEF Readable, Packet, Errors
    <3>2. p.crypt \in Channel \cup {PKI}
      BY <2>3 DEF Direct, Readable, Packet
    <3>3. HashChannel(p) \in Channel \cup {NoChannel}
      BY <3>2, RouterAssumption DEF HashChannel
    <3>. QED
      BY <1>3, <2>3, <3>1, <3>3, AckNakSpeaks
  <2>4. \/ t = u \/ t = PerhapsRebroadcast(n, u, p, over)
        \/ Direct(p) /\ t = SendAckNak(n, u, "NONE", p.from, p.id, HashChannel(p), 0, over)
    BY <1>1, Zenon DEF HandleDuplicate
  <2>. QED
    BY <2>1, <2>2, <2>3, <2>4
<1>. QED
  BY <1>2, <1>4, GivenNone, SpeaksThen

(* An implicit ack is a word. *)
LEMMA ImplicitAckSpeaks ==
  ASSUME NEW n \in Node, NEW s, IsNodeState(s), Past(n, s), NEW p \in Packet, NEW t, t = ImplicitAck(n, s, p)
  PROVE  /\ Speaks(n, s, t, {}) /\ t.recent = s.recent /\ t.toPhone = s.toPhone
         /\ \A i \in DOMAIN s.pending :
              i \in DOMAIN t.pending \/ (p.from = n /\ p.id = i /\ Telling(n, t, i))
<1>1. CASE Expected(n, s, p)
  <2>1. p.id \in Nat /\ "NONE" \in Errors
    BY DEF Packet, Errors
  <2>2. PICK u : u = NakToSelf(n, s, "NONE", p.id)
    OBVIOUS
  <2>3. Speaks(n, s, u, {}) /\ Telling(n, u, p.id)
    BY <2>1, <2>2, NakSpeaks
  <2>4. IsNodeState(u) /\ Past(n, u)
    BY <2>3 DEF Speaks
  <2>5. t = StopRetransmission(n, u, p.id)
    BY <1>1, <2>2 DEF ImplicitAck, Expected
  <2>6. PICK i : i = p.id
    OBVIOUS
  <2>7. Speaks(n, u, t, {}) /\ Ends(u, i, t)
    BY <2>4, <2>5, <2>6, StopSpeaks
  <2>8. Speaks(n, s, t, {})
    BY <2>3, <2>7, GivenNone, SpeaksThen
  <2>9. SamePending(s, u)
    BY <2>2, NakPending, StatePending
  <2>10. Telling(n, t, i)
    BY <2>3, <2>6, <2>7 DEF Telling, Ends
  <2>11. u.recent = s.recent /\ u.toPhone = s.toPhone
    <3>1. PICK heard : heard = FALSE
      OBVIOUS
    <3>2. PICK v : v = [s EXCEPT !.nextId = @ + 1]
      OBVIOUS
    <3>3. /\ IsNodeState(v) /\ v.recent = s.recent /\ v.toPhone = s.toPhone
      BY <3>2, SetNextId
    <3>4. PICK q : q = AllocAckNak(n, s, "NONE", n, p.id, PRIMARY, 0)
      OBVIOUS
    <3>5. q \in Packet
      <4>1. s.nextId \in Nat /\ PRIMARY \in Channel
        BY StateFields, RouterAssumption
      <4>. QED
        BY <2>1, <3>4, <4>1 DEF AllocAckNak, Packet, Ports
    <3>6. u = EnqueueReceivedMessage(v, q)
      BY <2>2, <3>2, <3>4 DEF NakToSelf
    <3>7. Received(v, q, u)
      BY <3>3, <3>5, <3>6, ReceivedFacts
    <3>. QED
      BY <3>3, <3>7 DEF Received
  <2>12. t.recent = s.recent /\ t.toPhone = s.toPhone /\ DOMAIN t.pending = DOMAIN s.pending \ {i}
    BY <2>7, <2>9, <2>11 DEF Ends, SamePending
  <2>13. p.from = n
    BY <1>1 DEF Expected
  <2>. QED
    BY <2>6, <2>8, <2>10, <2>12, <2>13
<1>2. CASE ~ Expected(n, s, p)
  <2>1. t = s
    BY <1>2 DEF ImplicitAck, Expected
  <2>. QED
    BY <2>1, SpeaksNothing
<1>. QED
  BY <1>1, <1>2

(* What handling p makes of s, as far as n's records are concerned: one is   *)
(* dropped only for what n tells itself or gives its phone.                  *)
Listens(n, s, p, t) ==
  /\ Speaks(n, s, t, {<<p.from, p.id>>})
  /\ ToSet(s.toPhone) \subseteq ToSet(t.toPhone)
  /\ p.plain /\ p.to = n =>
       \/ <<n, p.from>> \in Ignores /\ t = s
       \/ <<p.from, p.id>> \in s.recent \/ p \in ToSet(t.toPhone)
  /\ \A i \in DOMAIN s.pending :
       \/ i \in DOMAIN t.pending
       \/ Roomy(t) => Telling(n, t, i)
       \/ \E d \in ToSet(t.toPhone) : d.to = n /\ d.reqId = i

LEMMA PhonedAppended ==
  ASSUME NEW n, NEW s, IsNodeState(s), NEW p \in Packet, p.plain, p.to = n, p.port # "unreadable",
         NEW x, x = Phoned(n, s, p)
  PROVE  p \in ToSet(x)
<1>1. x = Append(s.toPhone, p) /\ s.toPhone \in Seq(Packet)
  BY StateFields DEF Phoned, Stopping, ForUs
<1>. QED
  BY <1>1, AppendSet

LEMMA ModulesPhone ==
  ASSUME NEW n \in Node, NEW s, IsNodeState(s), NEW p, Readable(p), NEW over, NEW t, t = CallModules(n, s, p, over)
  PROVE  t.toPhone = Phoned(n, s, p)
<1>1. PICK b \in Nat : b = s.nextId /\ b <= s.nextId
  BY StateFields
<1>2. PICK told : told = FALSE
  OBVIOUS
<1>3. PICK T : T = Answers(n, b, p, Heard(n, p), told)
  OBVIOUS
<1>4. PICK x : x = Phoned(n, s, p)
  OBVIOUS
<1>5. PICK u : u = [s EXCEPT !.toPhone = x]
  OBVIOUS
<1>6. Allowed(n, u, t, b, T, Relayed(n, p))
  BY <1>1, <1>3, <1>4, <1>5, AllowedModules
<1>7. x \in Seq(Packet)
  BY <1>4, PhonedType DEF Readable
<1>8. u.toPhone = x
  BY <1>5, <1>7, SetToPhone
<1>. QED
  BY <1>4, <1>6, <1>8 DEF Allowed

LEMMA DuplicatePhone ==
  ASSUME NEW n \in Node, NEW s, IsNodeState(s), NEW p, Readable(p), p.plain => p.hopStart = 0,
         NEW over, NEW t, t = HandleDuplicate(n, s, p, over)
  PROVE  t.toPhone = s.toPhone
<1>1. PICK b \in Nat : b = s.nextId /\ b <= s.nextId
  BY StateFields
<1>2. PICK told : told = FALSE
  OBVIOUS
<1>3. PICK T : T = Answers(n, b, p, p.to = n /\ p.wantAck, told)
  OBVIOUS
<1>4. Allowed(n, s, t, b, T, IF Direct(p) THEN Relayed(n, p) ELSE {})
  BY <1>1, <1>3, AllowedDuplicate
<1>. QED
  BY <1>4 DEF Allowed

LEMMA HandlingListens ==
  ASSUME NEW n \in Node, NEW s, IsNodeState(s), Past(n, s), NEW p, Legible(p), p.from = n => p.id < s.nextId,
         NEW over, NEW t, t = PerhapsHandleReceived(n, s, p, over)
  PROVE  Listens(n, s, p, t)
<1>0. /\ Readable(p) /\ p \in Packet /\ p.from \in Node /\ p.id \in Nat
      /\ p.plain => p.hopStart = 0
  BY DEF Legible, Readable, Packet
<1>1. PICK X : X = {<<p.from, p.id>>}
  OBVIOUS
<1>2. Given(n, s, X)
  BY <1>0, <1>1 DEF Given
<1>3. CASE <<n, p.from>> \in Ignores
  <2>1. t = s
    BY <1>3 DEF PerhapsHandleReceived
  <2>. QED
    BY <1>3, <2>1, SpeaksNothing DEF Listens
<1>4. CASE <<n, p.from>> \notin Ignores
  <2>1. PICK u : u = ImplicitAck(n, s, p)
    OBVIOUS
  <2>2. /\ Speaks(n, s, u, {}) /\ u.recent = s.recent /\ u.toPhone = s.toPhone
        /\ \A i \in DOMAIN s.pending :
             i \in DOMAIN u.pending \/ (p.from = n /\ p.id = i /\ Telling(n, u, i))
    BY <1>0, <2>1, ImplicitAckSpeaks
  <2>3. IsNodeState(u) /\ Past(n, u) /\ Speaks(n, s, u, X)
    BY <2>2, SpeaksMore DEF Speaks
  <2>t. ASSUME NEW i, Telling(n, u, i), NEW Y, Speaks(n, u, t, Y), Roomy(t)
        PROVE  Telling(n, t, i)
    BY <2>t, SaidStays DEF Telling
  <2>4. CASE <<p.from, p.id>> \in u.recent
    <3>1. t = HandleDuplicate(n, u, p, over)
      BY <1>4, <2>1, <2>4 DEF PerhapsHandleReceived
    <3>2. Speaks(n, u, t, {})
      BY <1>0, <2>3, <3>1, DuplicateSpeaks
    <3>3. t.toPhone = s.toPhone
      BY <1>0, <2>2, <2>3, <3>1, DuplicatePhone
    <3>4. SamePending(u, t)
      BY <2>3, <3>1, DuplicatePending, StatePending
    <3>5. Speaks(n, u, t, X)
      BY <3>2, SpeaksMore
    <3>6. Speaks(n, s, t, X)
      BY <1>2, <2>3, <3>5, SpeaksThen
    <3>7. ASSUME NEW i \in DOMAIN s.pending
          PROVE  i \in DOMAIN t.pending \/ (Roomy(t) => Telling(n, t, i))
      BY <2>2, <2>t, <3>2, <3>4 DEF SamePending
    <3>. QED
      BY <1>1, <2>2, <2>4, <3>3, <3>6, <3>7 DEF Listens
  <2>5. CASE <<p.from, p.id>> \notin u.recent
    <3>1. PICK v : v = Marks(u, p)
      OBVIOUS
    <3>2. /\ IsNodeState(v) /\ v.recent = u.recent \cup X
          /\ v.pending = u.pending /\ v.txQueue = u.txQueue /\ v.fromRadio = u.fromRadio
          /\ v.toPhone = u.toPhone /\ v.nextId = u.nextId
      BY <1>0, <1>1, <2>3, <3>1, MarksFacts
    <3>3. Past(n, v)
      <4>1. SUFFICES ASSUME NEW x \in u.recent \cup X, x[1] = n
                     PROVE  x[2] < u.nextId
        BY <3>2 DEF Past
      <4>2. CASE x \in u.recent
        BY <2>3, <4>1, <4>2 DEF Past
      <4>3. CASE x = <<p.from, p.id>>
        <5>1. x[1] = p.from /\ x[2] = p.id
          BY <4>3
        <5>2. p.id < s.nextId /\ s.nextId <= u.nextId /\ s.nextId \in Nat /\ u.nextId \in Nat
          BY <2>2, <2>3, <4>1, <5>1, StateFields DEF Speaks
        <5>. QED
          BY <1>0, <5>1, <5>2, SMT
      <4>. QED
        BY <1>1, <4>1, <4>2, <4>3
    <3>4. Speaks(n, u, v, X)
      <4>1. u.nextId <= v.nextId /\ Said(u, v) = {} /\ (Roomy(v) => Roomy(u))
        BY <2>3, <3>2, StateFields DEF Said, Roomy
      <4>. QED
        BY <3>2, <3>3, <4>1 DEF Speaks
    <3>5. PICK q : q = Decoded(n, p)
      OBVIOUS
    <3>6. /\ Readable(q) /\ q \in Packet /\ q.to = p.to /\ q.reqId = p.reqId /\ (p.plain => q = p)
      <4>1. p.plain => q = p
        <5>1. SUFFICES ASSUME p.plain
                       PROVE  [p EXCEPT !.plain = TRUE] = p
          BY <3>5 DEF Decoded
        <5>. QED
          BY <1>0, <5>1 DEF Packet
      <4>. QED
        BY <1>0, <3>5, <4>1, DecodedReadable, DecodedFacts
    <3>7. t = CallModules(n, v, q, over)
      BY <1>4, <2>1, <2>5, <3>1, <3>5, Zenon DEF PerhapsHandleReceived, HandleReceived, Marks
    <3>8. Speaks(n, v, t, {})
      BY <3>2, <3>3, <3>6, <3>7, ModulesSpeaks
    <3>9. t.toPhone = Phoned(n, v, q)
      BY <3>2, <3>6, <3>7, ModulesPhone
    <3>10. \A i \in DOMAIN v.pending : i \in DOMAIN t.pending \/ (q.plain /\ Answering(n, q) /\ i = q.reqId)
      BY <3>2, <3>6, <3>7, ModulesPending
    <3>11. q.plain /\ q.to = n /\ q.port # "unreadable" => q \in ToSet(t.toPhone)
      BY <3>2, <3>6, <3>9, PhonedAppended
    <3>12. Speaks(n, v, t, X) /\ Speaks(n, u, t, X)
      <4>1. Speaks(n, v, t, X)
        BY <3>8, SpeaksMore
      <4>2. Given(n, u, X)
        <5>1. s.nextId \in Nat /\ u.nextId \in Nat /\ s.nextId <= u.nextId
          BY <2>2, <2>3, StateFields DEF Speaks
        <5>2. p.from = n => p.id < u.nextId
          BY <1>0, <5>1, SMT
        <5>. QED
          BY <1>0, <1>1, <5>2 DEF Given
      <4>. QED
        BY <2>3, <3>4, <4>1, <4>2, SpeaksThen
    <3>13. Speaks(n, s, t, X)
      BY <1>2, <2>3, <3>12, SpeaksThen
    <3>14. ASSUME NEW i \in DOMAIN s.pending
           PROVE  \/ i \in DOMAIN t.pending
                  \/ Roomy(t) => Telling(n, t, i)
                  \/ \E d \in ToSet(t.toPhone) : d.to = n /\ d.reqId = i
      <4>1. CASE i \in DOMAIN u.pending
        BY <3>2, <3>10, <3>11, <4>1 DEF Answering
      <4>2. CASE i \notin DOMAIN u.pending
        BY <2>2, <2>t, <3>12, <4>2
      <4>. QED
        BY <4>1, <4>2
    <3>15. ToSet(s.toPhone) \subseteq ToSet(t.toPhone)
      <4>1. s.toPhone \in Seq(Packet)
        BY StateFields
      <4>2. t.toPhone = s.toPhone \/ t.toPhone = Append(s.toPhone, q)
        BY <2>2, <3>2, <3>9 DEF Phoned
      <4>. QED
        BY <3>6, <4>1, <4>2, AppendSet
    <3>16. p.plain /\ p.to = n => p \in ToSet(t.toPhone)
      BY <3>6, <3>11 DEF Legible
    <3>. QED
      BY <1>1, <3>13, <3>14, <3>15, <3>16 DEF Listens
  <2>. QED
    BY <2>4, <2>5
<1>. QED
  BY <1>3, <1>4

LEMMA RetransmissionSpeaks ==
  ASSUME NEW n \in Node, NEW s, IsNodeState(s), Past(n, s), NEW id \in DOMAIN s.pending, <<n, id>> \in s.recent,
         Recorded(n, id, s.pending[id].packet), NEW over, NEW t, t = Retransmission(n, s, id, over)
  PROVE  /\ Speaks(n, s, t, {<<n, id>>})
         /\ \A i \in DOMAIN s.pending : i \in DOMAIN t.pending \/ Telling(n, t, i)
<1>0. id \in Nat /\ s.pending[id].left \in Nat
  BY StateFields DEF Pending
<1>1. PICK p : p = s.pending[id].packet
  OBVIOUS
<1>2. CASE s.pending[id].left = 0
  <2>1. PICK u : u = NakToSelf(n, s, "MAX_RETRANSMIT", id)
    OBVIOUS
  <2>2. "MAX_RETRANSMIT" \in Errors
    BY DEF Errors
  <2>3. Speaks(n, s, u, {}) /\ Telling(n, u, id)
    BY <1>0, <2>1, <2>2, NakSpeaks
  <2>4. IsNodeState(u) /\ Past(n, u)
    BY <2>3 DEF Speaks
  <2>5. t = StopRetransmission(n, u, id)
    BY <1>2, <2>1 DEF Retransmission
  <2>6. Speaks(n, u, t, {}) /\ Ends(u, id, t)
    BY <2>4, <2>5, StopSpeaks
  <2>7. SamePending(s, u)
    BY <2>1, NakPending, StatePending
  <2>8. Telling(n, t, id) /\ DOMAIN t.pending = DOMAIN s.pending \ {id}
    BY <2>3, <2>6, <2>7 DEF Telling, Ends, SamePending
  <2>9. Speaks(n, s, t, {})
    BY <2>3, <2>6, GivenNone, SpeaksThen
  <2>10. Speaks(n, s, t, {<<n, id>>})
    BY <2>9, SpeaksMore
  <2>. QED
    BY <2>8, <2>10
<1>3. CASE s.pending[id].left # 0
  <2>1. PICK v : v = FloodingSend(n, s, p, over)
    OBVIOUS
  <2>2. p \in Packet /\ p.from = n /\ p.id = id /\ p.plain /\ (Indexed => p.crypt # NoChannel)
    BY <1>1 DEF Recorded
  <2>3. p.id < s.nextId
    <3>1. PICK x \in s.recent : x = <<n, id>>
      OBVIOUS
    <3>2. x[1] = n /\ x[2] = id
      BY <3>1
    <3>. QED
      BY <2>2, <3>2 DEF Past
  <2>4. Speaks(n, s, v, {<<n, p.id>>})
    BY <2>1, <2>2, <2>3, FloodingSpeaks
  <2>5. v.pending = s.pending
    BY <2>1, <2>2, FloodingFacts
  <2>6. IsNodeState(v) /\ Past(n, v)
    BY <2>4 DEF Speaks
  <2>7. t = Counted(v, id)
    BY <1>1, <1>3, <2>1 DEF Retransmission, Counted
  <2>8. id \in DOMAIN v.pending /\ v.pending[id].left > 0
    BY <1>0, <1>3, <2>5
  <2>9. CountsDown(v, id, t)
    BY <2>6, <2>7, <2>8, CountingFacts
  <2>10. /\ IsNodeState(t) /\ t.recent = v.recent /\ t.txQueue = v.txQueue /\ t.fromRadio = v.fromRadio
         /\ t.nextId = v.nextId /\ DOMAIN t.pending = DOMAIN v.pending
    BY <2>9 DEF CountsDown
  <2>11. v.nextId <= t.nextId
    BY <2>6, <2>10, StateFields
  <2>12. Speaks(n, v, t, {<<n, p.id>>})
    BY <2>6, <2>10, <2>11, SpeaksSame
  <2>13. Given(n, s, {<<n, p.id>>})
    BY <2>2, <2>3 DEF Given, Packet
  <2>14. Speaks(n, s, t, {<<n, p.id>>})
    BY <2>4, <2>12, <2>13, SpeaksThen
  <2>. QED
    BY <2>2, <2>5, <2>10, <2>14
<1>. QED
  BY <1>2, <1>3

LEMMA EchoSpeaks ==
  ASSUME NEW n \in Node, NEW s, IsNodeState(s), Past(n, s), NEW id \in s.uplink, NEW t, t = MqttEcho(n, s, id)
  PROVE  Speaks(n, s, t, {})
<1>1. s.uplink \subseteq Nat /\ id \in Nat /\ s.nextId <= s.nextId /\ "NONE" \in Errors
  BY StateFields DEF Errors
<1>2. PICK x \in SUBSET Nat : x = s.uplink \ {id}
  BY <1>1
<1>3. PICK u : u = [s EXCEPT !.uplink = x]
  OBVIOUS
<1>4. /\ IsNodeState(u) /\ u.pending = s.pending /\ u.recent = s.recent /\ u.txQueue = s.txQueue
      /\ u.fromRadio = s.fromRadio /\ u.nextId = s.nextId
  BY <1>3, SetUplink
<1>5. s.nextId <= u.nextId
  BY <1>1, <1>4
<1>6. Speaks(n, s, u, {})
  BY <1>4, <1>5, SpeaksSame
<1>7. Past(n, u)
  BY <1>6 DEF Speaks
<1>8. t = NakToSelf(n, u, "NONE", id)
  BY <1>2, <1>3 DEF MqttEcho
<1>9. Speaks(n, u, t, {})
  BY <1>1, <1>4, <1>7, <1>8, NakSpeaks
<1>. QED
  BY <1>6, <1>9, GivenNone, SpeaksThen

---------------------------------------------------------------------------
(* The other way round: what the queue does not lose.  A queue is a sequence *)
(* of whatever packets.                                                      *)
Queue(q) == \E S : q \in Seq(S)

Held(q, from, id) == Cardinality(PlacesOf(q, from, id))

LEMMA HeldType ==
  ASSUME NEW q, Queue(q), NEW from, NEW id
  PROVE  Held(q, from, id) \in Nat /\ Len(q) \in Nat
<1>1. PICK S : q \in Seq(S)
  BY DEF Queue
<1>. QED
  BY <1>1, CopiesFinite, LenProperties DEF Held

LEMMA WiderQueue ==
  ASSUME NEW S, NEW q \in Seq(S), NEW T, S \subseteq T
  PROVE  q \in Seq(T)
<1>1. Len(q) \in Nat /\ q \in [1 .. Len(q) -> S]
  BY LenProperties
<1>2. q \in [1 .. Len(q) -> T]
  BY <1>1
<1>. QED
  BY <1>1, <1>2, IsASeq

LEMMA FirstIndex ==
  ASSUME NEW S, NEW q \in Seq(S), NEW from, NEW id, IndexOf(q, from, id) # 0
  PROVE  IndexOf(q, from, id) \in PlacesOf(q, from, id)
<1> DEFINE I == {i \in 1 .. Len(q) : q[i].from = from /\ q[i].id = id}
<1>0. Len(q) \in Nat
  BY LenProperties
<1>1. IndexOf(q, from, id) = IF I # {} THEN Min(I) ELSE 0
  BY Zenon DEF IndexOf, SelectInSeq
<1>2. I \subseteq Nat
  BY <1>0, SMT
<1>p. I = PlacesOf(q, from, id)
  BY DEF PlacesOf
<1> HIDE DEF I
<1>3. I # {} /\ \E x \in I : \A y \in I : x <= y
  <2>1. I # {}
    BY <1>1
  <2>. QED
    BY <1>2, <2>1, LeastNat, Zenon
<1>4. Min(I) \in I
  BY <1>3, Zenon DEF Min
<1>. QED
  BY <1>1, <1>3, <1>4, <1>p

(* remove takes one packet of the origin and id that it is given, no other. *)
LEMMA RemovePacketLeaves ==
  ASSUME NEW S, NEW q \in Seq(S), NEW f, NEW k, NEW r, r = RemovePacket(q, f, k), NEW from, NEW id
  PROVE  Held(q, from, id) <= Held(r, from, id) + (IF f = from /\ k = id THEN 1 ELSE 0)
<1>1. /\ Len(q) \in Nat /\ r \in Seq(S) /\ Held(q, from, id) \in Nat /\ Held(r, from, id) \in Nat
  BY LenProperties, RemovePacketEmbeds, CopiesFinite DEF Held
<1>2. CASE IndexOf(q, f, k) = 0
  <2>1. r = q
    BY <1>2 DEF RemovePacket
  <2>. QED
    BY <1>1, <2>1, SMT
<1>3. CASE IndexOf(q, f, k) # 0
  <2>1. PICK u \in 1 .. Len(q) : u = IndexOf(q, f, k) /\ q[u].from = f /\ q[u].id = k
    BY <1>3, FirstIndex DEF PlacesOf
  <2>2. r = RemoveAt(q, u)
    BY <1>3, <2>1 DEF RemovePacket
  <2>3. /\ Len(r) = Len(q) - 1
        /\ \A j \in 1 .. Len(q) - 1 : r[j] = IF j < u THEN q[j] ELSE q[j + 1]
    BY <2>1, <2>2, RemoveAtElements
  <2> DEFINE g == [j \in 1 .. Len(q) |-> IF j < u THEN j ELSE j - 1]
  <2>4. g \in [1 .. Len(q) -> Nat] /\ \A i, j \in 1 .. Len(q) : i # u /\ j # u /\ g[i] = g[j] => i = j
    BY <1>1, <2>1, SMT
  <2>5. \A i \in 1 .. Len(q) : i # u => g[i] \in 1 .. Len(r)
    BY <1>1, <2>1, <2>3, SMT
  <2>6. \A i \in 1 .. Len(q) : i # u => q[i] = r[g[i]]
    BY <1>1, <2>1, <2>3, SMT
  <2>7. ButOne(r, q, g, u)
    BY <2>1, <2>4, <2>5, <2>6 DEF ButOne
  <2> HIDE DEF g
  <2>8. Held(q, from, id) <= Held(r, from, id) + (IF q[u].from = from /\ q[u].id = id THEN 1 ELSE 0)
    BY <1>1, <2>7, CopiesButOne DEF Held
  <2>. QED
    BY <2>1, <2>8
<1>. QED
  BY <1>2, <1>3

LEMMA TailLeaves ==
  ASSUME NEW S, NEW q \in Seq(S), q # <<>>, NEW r, r = Tail(q), NEW from, NEW id
  PROVE  Held(q, from, id) <= Held(r, from, id) + (IF Head(q).from = from /\ Head(q).id = id THEN 1 ELSE 0)
<1>2. /\ r \in Seq(S) /\ Len(r) = Len(q) - 1 /\ Len(q) \in Nat \ {0} /\ Head(q) = q[1]
      /\ \A k \in 1 .. Len(r) : r[k] = q[k + 1]
  BY HeadTailProperties, LenProperties, EmptySeq
<1> DEFINE g == [k \in 1 .. Len(q) |-> k - 1]
<1>3. g \in [1 .. Len(q) -> Nat] /\ \A i, j \in 1 .. Len(q) : i # 1 /\ j # 1 /\ g[i] = g[j] => i = j
  BY <1>2, SMT
<1>4. \A i \in 1 .. Len(q) : i # 1 => g[i] \in 1 .. Len(r)
  BY <1>2, SMT
<1>5. \A i \in 1 .. Len(q) : i # 1 => q[i] = r[g[i]]
  BY <1>2, SMT
<1>6. 1 \in 1 .. Len(q)
  BY <1>2, SMT
<1>7. ButOne(r, q, g, 1)
  BY <1>3, <1>4, <1>5, <1>6 DEF ButOne
<1> HIDE DEF g
<1>8. Held(q, from, id) <= Held(r, from, id) + (IF q[1].from = from /\ q[1].id = id THEN 1 ELSE 0)
  BY <1>2, <1>7, CopiesButOne DEF Held
<1>. QED
  BY <1>2, <1>8

LEMMA InsertAddsOne ==
  ASSUME NEW S, NEW q \in Seq(S), NEW us, NEW p \in S, NEW r, r = InsertInOrder(us, q, p),
         NEW from, NEW id
  PROVE  /\ r \in Seq(S) /\ Len(r) = Len(q) + 1
         /\ Held(q, from, id) + (IF p.from = from /\ p.id = id THEN 1 ELSE 0) <= Held(r, from, id)
<1>1. PICK u \in 1 .. Len(q) + 1 : u = UpperBound(us, q, p)
  BY UpperBoundPosition
<1>2. r = InsertAt(q, u, p)
  BY <1>1 DEF InsertInOrder
<1>3. /\ r \in Seq(S) /\ Len(r) = Len(q) + 1
      /\ \A k \in 1 .. Len(q) + 1 :
           r[k] = IF k < u THEN q[k] ELSE IF k = u THEN p ELSE q[k - 1]
  <2>1. /\ InsertAt(q, u, p) \in Seq(S) /\ Len(InsertAt(q, u, p)) = Len(q) + 1
        /\ \A k \in 1 .. Len(q) + 1 :
             InsertAt(q, u, p)[k] = IF k < u THEN q[k] ELSE IF k = u THEN p ELSE q[k - 1]
    BY <1>1, InsertAtElements
  <2>. QED
    BY <1>2, <2>1
<1>4. Len(q) \in Nat
  BY LenProperties
<1> DEFINE g == [k \in 1 .. Len(q) |-> IF k < u THEN k ELSE k + 1]
<1>5. u \in 1 .. Len(r) /\ r[u] = p /\ g \in [1 .. Len(q) -> Nat]
  BY <1>1, <1>3, <1>4, SMT
<1>6. \A i, j \in 1 .. Len(q) : g[i] = g[j] => i = j
  BY <1>1, <1>4, SMT
<1>7. \A i \in 1 .. Len(q) : g[i] \in 1 .. Len(r) /\ g[i] # u
  BY <1>1, <1>3, <1>4, SMT
<1>8. \A i \in 1 .. Len(q) : q[i] = r[g[i]]
  BY <1>1, <1>3, <1>4, SMT
<1>9. AllBut(r, q, g, u)
  BY <1>5, <1>6, <1>7, <1>8 DEF AllBut
<1> HIDE DEF g
<1>10. Held(q, from, id) + (IF r[u].from = from /\ r[u].id = id THEN 1 ELSE 0) <= Held(r, from, id)
  BY <1>3, <1>9, CopiesLess DEF Held
<1>. QED
  BY <1>3, <1>5, <1>10

(* Where there is room, before or after, enqueue puts no packet out. *)
LEMMA EnqueueLeaves ==
  ASSUME NEW q, Queue(q), NEW us, NEW p, NEW maxLen \in Nat, NEW r, r = Enqueue(us, q, p, maxLen),
         NEW from, NEW id
  PROVE  /\ Queue(r)
         /\ Len(q) < maxLen \/ Len(r) < maxLen =>
              Held(q, from, id) + (IF p.from = from /\ p.id = id THEN 1 ELSE 0) <= Held(r, from, id)
<1>1. PICK S : q \in Seq(S) /\ p \in S
  <2>1. PICK T : q \in Seq(T)
    BY DEF Queue
  <2>2. q \in Seq(T \cup {p})
    BY <2>1, WiderQueue
  <2>. QED
    BY <2>2
<1>2. Len(q) \in Nat
  BY <1>1, LenProperties
<1>3. CASE Len(q) < maxLen
  <2>1. r = InsertInOrder(us, q, p)
    BY <1>3 DEF Enqueue
  <2>2. r \in Seq(S) /\ Held(q, from, id) + (IF p.from = from /\ p.id = id THEN 1 ELSE 0) <= Held(r, from, id)
    BY <1>1, <2>1, InsertAddsOne
  <2>. QED
    BY <2>2 DEF Queue
<1>4. CASE ~ (Len(q) < maxLen) /\ CanReplace(q, p)
  <2>1. r = InsertInOrder(us, Front(q), p) /\ q # <<>>
    BY <1>4 DEF Enqueue, CanReplace
  <2>2. PICK f \in Seq(S) : f = Front(q) /\ Len(f) = Len(q) - 1
    BY <1>1, <2>1, FrontElements
  <2>3. r \in Seq(S) /\ Len(r) = Len(f) + 1
    BY <1>1, <2>1, <2>2, InsertAddsOne
  <2>4. ~ (Len(r) < maxLen)
    BY <1>2, <1>4, <2>2, <2>3, SMT
  <2>. QED
    BY <1>4, <2>3, <2>4 DEF Queue
<1>5. CASE ~ (Len(q) < maxLen) /\ ~ CanReplace(q, p)
  <2>1. r = q
    BY <1>5 DEF Enqueue
  <2>. QED
    BY <1>5, <2>1
<1>. QED
  BY <1>3, <1>4, <1>5

(* A node with its records and its queue, and room left in the queue. *)
Ready(s) == {"pending", "txQueue"} \subseteq DOMAIN s /\ Queue(s.txQueue)

Room(s) == Len(s.txQueue) < MAX_TX_QUEUE

(* From s to t node n loses no queued copy of its packet i, but for one that  *)
(* its record, dropped at the same time, says is not the first.  A record    *)
(* that stays is as it was, and none is new.                                 *)
Spares(n, i, s, t) ==
  IF i \in DOMAIN s.pending
  THEN \/ /\ i \in DOMAIN t.pending /\ t.pending[i] = s.pending[i]
          /\ Number(s, n, i) <= Number(t, n, i)
       \/ /\ i \notin DOMAIN t.pending
          /\ Number(s, n, i) <= Number(t, n, i)
               + (IF s.pending[i].left < NUM_RETRANSMISSIONS - 1 THEN 1 ELSE 0)
  ELSE i \notin DOMAIN t.pending /\ Number(s, n, i) <= Number(t, n, i)

(* A step that queues nothing, and one that may queue a packet. *)
Leaves(n, i, s, t) ==
  Ready(s) /\ Ready(t) /\ Len(t.txQueue) <= Len(s.txQueue) /\ Spares(n, i, s, t)

Goes(n, i, s, t) == Ready(s) /\ Ready(t) /\ (Room(s) \/ Room(t) => Spares(n, i, s, t))

LEMMA ReadyType ==
  ASSUME NEW s, Ready(s), NEW n, NEW i
  PROVE  Number(s, n, i) \in Nat /\ Len(s.txQueue) \in Nat
  BY HeldType DEF Ready, Number, Held

LEMMA StateReady ==
  ASSUME NEW s, IsNodeState(s)
  PROVE  Ready(s)
<1>1. Queue(s.txQueue)
  BY StateFields DEF Queue
<1>2. {"pending", "txQueue"} \subseteq DOMAIN s
  BY DEF IsNodeState
<1>. QED
  BY <1>1, <1>2 DEF Ready

LEMMA SparesThen ==
  ASSUME NEW n, NEW i, NEW s, NEW t, NEW u, Ready(s), Ready(t), Ready(u),
         Spares(n, i, s, t), Spares(n, i, t, u)
  PROVE  Spares(n, i, s, u)
<1>1. PICK a, b, c \in Nat : a = Number(s, n, i) /\ b = Number(t, n, i) /\ c = Number(u, n, i)
  BY ReadyType
<1>2. PICK x : x = IF s.pending[i].left < NUM_RETRANSMISSIONS - 1 THEN 1 ELSE 0
  OBVIOUS
<1>3. x \in Nat
  BY <1>2
<1>4. CASE i \in DOMAIN s.pending /\ i \in DOMAIN t.pending
  <2>1. t.pending[i] = s.pending[i] /\ a <= b
    BY <1>1, <1>4 DEF Spares
  <2>2. \/ i \in DOMAIN u.pending /\ u.pending[i] = t.pending[i] /\ b <= c
        \/ i \notin DOMAIN u.pending /\ b <= c + x
    BY <1>1, <1>2, <1>4, <2>1 DEF Spares
  <2>3. (b <= c => a <= c) /\ (b <= c + x => a <= c + x)
    BY <1>3, <2>1, SMT
  <2>. QED
    BY <1>1, <1>2, <1>4, <2>1, <2>2, <2>3 DEF Spares
<1>5. CASE i \in DOMAIN s.pending /\ i \notin DOMAIN t.pending
  <2>1. a <= b + x /\ i \notin DOMAIN u.pending /\ b <= c
    BY <1>1, <1>2, <1>5 DEF Spares
  <2>2. a <= c + x
    BY <1>3, <2>1, SMT
  <2>. QED
    BY <1>1, <1>2, <1>5, <2>1, <2>2 DEF Spares
<1>6. CASE i \notin DOMAIN s.pending
  <2>1. a <= b /\ b <= c /\ i \notin DOMAIN u.pending
    BY <1>1, <1>6 DEF Spares
  <2>2. a <= c
    BY <2>1, SMT
  <2>. QED
    BY <1>1, <1>6, <2>1, <2>2 DEF Spares
<1>. QED
  BY <1>4, <1>5, <1>6

LEMMA LeavesThen ==
  ASSUME NEW n, NEW i, NEW s, NEW t, NEW u, Leaves(n, i, s, t), Leaves(n, i, t, u)
  PROVE  Leaves(n, i, s, u)
<1>1. Len(s.txQueue) \in Nat /\ Len(t.txQueue) \in Nat /\ Len(u.txQueue) \in Nat
  BY ReadyType DEF Leaves
<1>2. Len(u.txQueue) <= Len(s.txQueue)
  BY <1>1, SMT DEF Leaves
<1>. QED
  BY <1>2, SparesThen DEF Leaves

LEMMA LeavesGoes ==
  ASSUME NEW n, NEW i, NEW s, NEW t, NEW u, Leaves(n, i, s, t), Goes(n, i, t, u)
  PROVE  Goes(n, i, s, u)
<1>1. Len(s.txQueue) \in Nat /\ Len(t.txQueue) \in Nat /\ Len(t.txQueue) <= Len(s.txQueue)
      /\ MAX_TX_QUEUE \in Nat
  BY ReadyType, RouterAssumption DEF Leaves
<1>2. Room(s) => Room(t)
  BY <1>1, SMT DEF Room
<1>. QED
  BY <1>2, SparesThen DEF Leaves, Goes

LEMMA LeavesIsGoes ==
  ASSUME NEW n, NEW i, NEW s, NEW t, Leaves(n, i, s, t)
  PROVE  Goes(n, i, s, t)
  BY DEF Leaves, Goes

LEMMA GoesTwice ==
  ASSUME NEW n, NEW i, NEW s, NEW t, NEW u, Goes(n, i, s, t), Goes(n, i, t, u)
  PROVE  Room(s) /\ Room(u) => Spares(n, i, s, u)
  BY SparesThen DEF Goes

(* What touches neither the records nor the queue. *)
Unmoved(s, t) == Ready(t) /\ t.pending = s.pending /\ t.txQueue = s.txQueue

LEMMA UnmovedFields ==
  ASSUME NEW s, Ready(s), NEW x
  PROVE  /\ Unmoved(s, s) /\ Unmoved(s, [s EXCEPT !.recent = x])
         /\ Unmoved(s, [s EXCEPT !.fromRadio = x]) /\ Unmoved(s, [s EXCEPT !.toPhone = x])
         /\ Unmoved(s, [s EXCEPT !.uplink = x]) /\ Unmoved(s, [s EXCEPT !.nextId = x])
         /\ Unmoved(s, [s EXCEPT !.failed = x])
  BY DEF Ready, Unmoved

LEMMA SetQueue ==
  ASSUME NEW s, Ready(s), NEW x, Queue(x), NEW t, t = [s EXCEPT !.txQueue = x]
  PROVE  Ready(t) /\ t.pending = s.pending /\ t.txQueue = x
  BY DEF Ready

LEMMA SetRecords ==
  ASSUME NEW s, Ready(s), NEW x, NEW t, t = [s EXCEPT !.pending = x]
  PROVE  Ready(t) /\ t.pending = x /\ t.txQueue = s.txQueue
  BY DEF Ready

LEMMA UnmovedLeaves ==
  ASSUME NEW n, NEW i, NEW s, Ready(s), NEW t, Unmoved(s, t)
  PROVE  Leaves(n, i, s, t)
<1>1. Ready(t) /\ t.pending = s.pending /\ t.txQueue = s.txQueue
  BY DEF Unmoved
<1>2. Number(t, n, i) = Number(s, n, i) /\ Number(s, n, i) \in Nat /\ Len(s.txQueue) \in Nat
  BY <1>1, ReadyType DEF Number
<1>3. Number(s, n, i) <= Number(t, n, i) /\ Len(t.txQueue) <= Len(s.txQueue)
  BY <1>1, <1>2
<1>4. Spares(n, i, s, t)
  BY <1>1, <1>3 DEF Spares
<1>. QED
  BY <1>1, <1>3, <1>4 DEF Leaves

LEMMA UnmovedThen ==
  ASSUME NEW s, NEW t, NEW u, Unmoved(s, t), Unmoved(t, u)
  PROVE  Unmoved(s, u)
  BY DEF Unmoved

LEMMA ReceivedUnmoved ==
  ASSUME NEW s, Ready(s), NEW p, NEW t, t = EnqueueReceivedMessage(s, p)
  PROVE  Unmoved(s, t)
<1>1. PICK x : t = [s EXCEPT !.fromRadio = x]
  BY DEF EnqueueReceivedMessage
<1>2. Unmoved(s, [s EXCEPT !.fromRadio = x])
  BY UnmovedFields
<1>. QED
  BY <1>1, <1>2

LEMMA NakUnmoved ==
  ASSUME NEW n, NEW s, Ready(s), NEW err, NEW id, NEW t, t = NakToSelf(n, s, err, id)
  PROVE  Unmoved(s, t)
<1>1. PICK x : x = s.nextId + 1
  OBVIOUS
<1>2. PICK u : u = [s EXCEPT !.nextId = x]
  OBVIOUS
<1>3. Unmoved(s, u)
  BY <1>2, UnmovedFields
<1>4. PICK q : t = EnqueueReceivedMessage(u, q)
  BY <1>1, <1>2 DEF NakToSelf
<1>5. Unmoved(u, t)
  BY <1>3, <1>4, ReceivedUnmoved DEF Unmoved
<1>. QED
  BY <1>3, <1>5, UnmovedThen

LEMMA CancelLeaves ==
  ASSUME NEW s, Ready(s), NEW f, NEW k, NEW t, t = CancelSending(s, f, k), NEW n, NEW i
  PROVE  /\ Ready(t) /\ t.pending = s.pending /\ Len(t.txQueue) <= Len(s.txQueue)
         /\ Number(s, n, i) <= Number(t, n, i) + (IF f = n /\ k = i THEN 1 ELSE 0)
         /\ f # n \/ k # i => Leaves(n, i, s, t)
<1>1. PICK S : s.txQueue \in Seq(S)
  BY DEF Ready, Queue
<1>2. PICK x : x = RemovePacket(s.txQueue, f, k)
  OBVIOUS
<1>3. x \in Seq(S) /\ Len(x) <= Len(s.txQueue)
  BY <1>1, <1>2, RemovePacketEmbeds
<1>4. Held(s.txQueue, n, i) <= Held(x, n, i) + (IF f = n /\ k = i THEN 1 ELSE 0)
  BY <1>1, <1>2, RemovePacketLeaves
<1>5. t = [s EXCEPT !.txQueue = x] /\ Queue(x)
  BY <1>2, <1>3 DEF CancelSending, Queue
<1>6. Ready(t) /\ t.pending = s.pending /\ t.txQueue = x
  BY <1>5, SetQueue
<1>7. Number(s, n, i) <= Number(t, n, i) + (IF f = n /\ k = i THEN 1 ELSE 0)
  BY <1>4, <1>6 DEF Number, Held
<1>8. ASSUME f # n \/ k # i
      PROVE  Leaves(n, i, s, t)
  <2>1. PICK a, b \in Nat : a = Number(s, n, i) /\ b = Number(t, n, i)
    BY <1>6, ReadyType
  <2>2. a <= b + 0
    BY <1>7, <1>8, <2>1
  <2>3. Number(s, n, i) <= Number(t, n, i)
    BY <2>1, <2>2
  <2>4. Spares(n, i, s, t)
    BY <1>6, <2>3 DEF Spares
  <2>. QED
    BY <1>3, <1>6, <2>4 DEF Leaves
<1>. QED
  BY <1>3, <1>6, <1>7, <1>8

(* RadioLibInterface::send, of a packet that the radio takes. *)
LEMMA RadioSendGoes ==
  ASSUME NEW n, NEW s, Ready(s), NEW p, NEW t, t = RadioSend(n, s, p), NEW i
  PROVE  /\ Goes(n, i, s, t) /\ t.pending = s.pending
         /\ n \notin TxDisabled /\ p.to # BROADCAST_NO_LORA /\ p.from = n /\ p.id = i /\ (Room(s) \/ Room(t)) =>
              Number(s, n, i) + 1 <= Number(t, n, i)
<1>1. CASE n \in TxDisabled \/ p.to = BROADCAST_NO_LORA
  <2>1. t = s
    BY <1>1 DEF RadioSend
  <2>2. Leaves(n, i, s, t)
    BY <2>1, UnmovedFields, UnmovedLeaves
  <2>. QED
    BY <1>1, <2>1, <2>2, LeavesIsGoes
<1>2. CASE n \notin TxDisabled /\ p.to # BROADCAST_NO_LORA
  <2>1. PICK x : x = Enqueue(n, s.txQueue, p, MAX_TX_QUEUE)
    OBVIOUS
  <2>2. MAX_TX_QUEUE \in Nat /\ Queue(s.txQueue)
    BY RouterAssumption DEF Ready
  <2>3. /\ Queue(x)
        /\ Len(s.txQueue) < MAX_TX_QUEUE \/ Len(x) < MAX_TX_QUEUE =>
             Held(s.txQueue, n, i) + (IF p.from = n /\ p.id = i THEN 1 ELSE 0) <= Held(x, n, i)
    BY <2>1, <2>2, EnqueueLeaves
  <2>4. t = [s EXCEPT !.txQueue = x]
    BY <1>2, <2>1 DEF RadioSend
  <2>5. Ready(t) /\ t.pending = s.pending /\ t.txQueue = x
    BY <2>3, <2>4, SetQueue
  <2>6. PICK a, b \in Nat : a = Number(s, n, i) /\ b = Number(t, n, i)
    BY <2>5, ReadyType
  <2>7. Room(s) \/ Room(t) => a + (IF p.from = n /\ p.id = i THEN 1 ELSE 0) <= b
    BY <2>3, <2>5, <2>6 DEF Room, Number, Held
  <2>8. Room(s) \/ Room(t) => a <= b
    BY <2>6, <2>7, SMT
  <2>9. Room(s) \/ Room(t) => Spares(n, i, s, t)
    BY <2>5, <2>6, <2>8 DEF Spares
  <2>. QED
    BY <2>5, <2>6, <2>7, <2>9 DEF Goes
<1>. QED
  BY <1>1, <1>2

LEMMA RouterSendGoes ==
  ASSUME NEW n, NEW s, Ready(s), NEW p, NEW over, NEW t, t = RouterSend(n, s, p, over), NEW i
  PROVE  Goes(n, i, s, t)
<1>r. ASSUME NEW u, Unmoved(s, u), NEW q, t = RadioSend(n, u, q)
      PROVE  Goes(n, i, s, t)
  <2>1. Leaves(n, i, s, u) /\ Ready(u)
    BY <1>r, UnmovedLeaves DEF Unmoved
  <2>2. Goes(n, i, u, t)
    BY <1>r, <2>1, RadioSendGoes
  <2>. QED
    BY <2>1, <2>2, LeavesGoes
<1>u. ASSUME Unmoved(s, t)
      PROVE  Goes(n, i, s, t)
  BY <1>u, UnmovedLeaves, LeavesIsGoes
<1>1. CASE t = s
  BY <1>u, <1>1, UnmovedFields
<1>2. ASSUME NEW e, t = AbortSendAndNak(n, s, e, p)
      PROVE  Goes(n, i, s, t)
  BY <1>u, <1>2, NakUnmoved DEF AbortSendAndNak
<1>3. CASE t = RadioSend(n, s, Prepared(n, p))
  BY <1>r, <1>3, UnmovedFields
<1>4. CASE t = [s EXCEPT !.failed = TRUE]
  <2>1. Unmoved(s, [s EXCEPT !.failed = TRUE])
    BY UnmovedFields
  <2>. QED
    BY <1>u, <1>4, <2>1
<1>5. ASSUME NEW x, t = RadioSend(n, [s EXCEPT !.uplink = x], Encoded(n, Prepared(n, p)))
      PROVE  Goes(n, i, s, t)
  BY <1>r, <1>5, UnmovedFields
<1>6. \/ t = s \/ t = AbortSendAndNak(n, s, "DUTY_CYCLE_LIMIT", p) \/ t = RadioSend(n, s, Prepared(n, p))
      \/ t = [s EXCEPT !.failed = TRUE] \/ t = AbortSendAndNak(n, s, EncodeError(n, p), p)
      \/ \E x : t = RadioSend(n, [s EXCEPT !.uplink = x], Encoded(n, Prepared(n, p)))
  BY DEF RouterSend
<1>. QED
  BY <1>1, <1>2, <1>3, <1>4, <1>5, <1>6

LEMMA FloodingSendGoes ==
  ASSUME NEW n, NEW s, Ready(s), NEW p, NEW over, NEW t, t = FloodingSend(n, s, p, over), NEW i
  PROVE  Goes(n, i, s, t)
<1>1. PICK x : x = s.recent \cup {<<p.from, p.id>>}
  OBVIOUS
<1>2. PICK u : u = [s EXCEPT !.recent = x]
  OBVIOUS
<1>3. Unmoved(s, u)
  BY <1>2, UnmovedFields
<1>4. t = RouterSend(n, u, p, over)
  BY <1>1, <1>2 DEF FloodingSend
<1>5. Goes(n, i, u, t)
  BY <1>3, <1>4, RouterSendGoes DEF Unmoved
<1>. QED
  BY <1>3, <1>5, UnmovedLeaves, LeavesGoes

LEMMA StopLeaves ==
  ASSUME NEW n, NEW s, Ready(s), NEW id, NEW t, t = StopRetransmission(n, s, id), NEW i
  PROVE  Leaves(n, i, s, t) /\ id \notin DOMAIN t.pending
<1>1. CASE id \notin DOMAIN s.pending
  <2>1. t = s
    BY <1>1 DEF StopRetransmission
  <2>. QED
    BY <1>1, <2>1, UnmovedFields, UnmovedLeaves
<1>2. CASE id \in DOMAIN s.pending
  <2>1. PICK u : u = IF s.pending[id].left < NUM_RETRANSMISSIONS - 1 THEN CancelSending(s, n, id) ELSE s
    OBVIOUS
  <2>2. PICK x : x = IF s.pending[id].left < NUM_RETRANSMISSIONS - 1 THEN 1 ELSE 0
    OBVIOUS
  <2>3. /\ Ready(u) /\ u.pending = s.pending /\ Len(u.txQueue) <= Len(s.txQueue)
        /\ Number(s, n, i) <= Number(u, n, i) + (IF id = i THEN x ELSE 0)
    <3>1. CASE u = CancelSending(s, n, id) /\ x = 1
      BY <3>1, CancelLeaves
    <3>2. CASE u = s /\ x = 0
      <4>1. Number(s, n, i) \in Nat /\ Len(s.txQueue) \in Nat
        BY ReadyType
      <4>2. Number(s, n, i) <= Number(s, n, i) + 0 /\ Len(s.txQueue) <= Len(s.txQueue)
        BY <4>1
      <4>. QED
        BY <3>2, <4>2
    <3>. QED
      BY <2>1, <2>2, <3>1, <3>2
  <2>4. PICK D : D = DOMAIN s.pending \ {id}
    OBVIOUS
  <2>5. PICK y : y = [j \in D |-> s.pending[j]]
    OBVIOUS
  <2>6. t = [u EXCEPT !.pending = y]
    BY <1>2, <2>1, <2>3, <2>4, <2>5 DEF StopRetransmission
  <2>7. Ready(t) /\ t.pending = y /\ t.txQueue = u.txQueue
    BY <2>3, <2>6, SetRecords
  <2>8. DOMAIN t.pending = DOMAIN s.pending \ {id} /\ \A j \in DOMAIN s.pending : j # id => t.pending[j] = s.pending[j]
    BY <2>4, <2>5, <2>7
  <2>9. Number(s, n, i) <= Number(t, n, i) + (IF id = i THEN x ELSE 0)
    BY <2>3, <2>7 DEF Number
  <2>10. Spares(n, i, s, t)
    <3>1. CASE i = id
      BY <1>2, <2>2, <2>8, <2>9, <3>1 DEF Spares
    <3>2. CASE i # id
      <4>1. Number(s, n, i) \in Nat /\ Number(t, n, i) \in Nat
        BY <2>7, ReadyType
      <4>2. Number(s, n, i) <= Number(t, n, i)
        BY <2>9, <3>2, <4>1
      <4>. QED
        BY <2>8, <3>2, <4>2 DEF Spares
    <3>. QED
      BY <3>1, <3>2
  <2>11. Len(t.txQueue) <= Len(s.txQueue)
    BY <2>3, <2>7
  <2>. QED
    BY <2>7, <2>8, <2>10, <2>11 DEF Leaves
<1>. QED
  BY <1>1, <1>2

(* A record of another packet is begun. *)
LEMMA StartLeaves ==
  ASSUME NEW n, NEW s, Ready(s), NEW q, NEW t, t = StartRetransmission(n, s, q), NEW i, i # q.id
  PROVE  Leaves(n, i, s, t)
<1>1. PICK id : id = q.id
  OBVIOUS
<1>2. PICK u : u = StopRetransmission(n, s, id)
  OBVIOUS
<1>3. Leaves(n, i, s, u)
  BY <1>2, StopLeaves
<1>4. PICK D : D = DOMAIN u.pending \cup {id}
  OBVIOUS
<1>5. PICK x : x = [j \in D |-> IF j = id THEN [packet |-> q, left |-> NUM_RETRANSMISSIONS - 1] ELSE u.pending[j]]
  OBVIOUS
<1>6. t = [u EXCEPT !.pending = x]
  BY <1>1, <1>2, <1>4, <1>5 DEF StartRetransmission
<1>7. Ready(u) /\ Ready(t) /\ t.pending = x /\ t.txQueue = u.txQueue
  BY <1>3, <1>6, SetRecords DEF Leaves
<1>8. (i \in DOMAIN t.pending <=> i \in DOMAIN u.pending) /\ (i \in DOMAIN u.pending => t.pending[i] = u.pending[i])
  BY <1>1, <1>4, <1>5, <1>7
<1>9. Number(t, n, i) = Number(u, n, i) /\ Number(u, n, i) \in Nat /\ Len(u.txQueue) \in Nat
  BY <1>7, ReadyType DEF Number
<1>10. Number(u, n, i) <= Number(t, n, i) /\ Len(t.txQueue) <= Len(u.txQueue)
  BY <1>7, <1>9
<1>11. Spares(n, i, u, t)
  BY <1>8, <1>10 DEF Spares
<1>12. Leaves(n, i, u, t)
  BY <1>7, <1>10, <1>11 DEF Leaves
<1>. QED
  BY <1>3, <1>12, LeavesThen

LEMMA SendLocalGoes ==
  ASSUME NEW n, NEW s, Ready(s), NEW p, NEW over, NEW t, t = SendLocal(n, s, p, over),
         NEW i, p.wantAck => p \in Packet /\ p.id # i
  PROVE  Goes(n, i, s, t)
<1>1. CASE p.to = n
  <2>1. t = EnqueueReceivedMessage(s, p)
    BY <1>1 DEF SendLocal
  <2>. QED
    BY <2>1, ReceivedUnmoved, UnmovedLeaves, LeavesIsGoes
<1>2. CASE p.to # n /\ ~ p.wantAck
  <2>1. t = FloodingSend(n, s, p, over)
    BY <1>2 DEF SendLocal, ReliableSend
  <2>. QED
    BY <2>1, FloodingSendGoes
<1>3. CASE p.to # n /\ p.wantAck
  <2>1. PICK h : h = IF p.hopLimit = 0 THEN LoraHopLimit ELSE p.hopLimit
    OBVIOUS
  <2>2. PICK q : q = [p EXCEPT !.hopLimit = h]
    OBVIOUS
  <2>3. PICK v : v = StartRetransmission(n, s, q)
    OBVIOUS
  <2>4. t = FloodingSend(n, v, q, over)
    BY <1>3, <2>1, <2>2, <2>3 DEF SendLocal, ReliableSend
  <2>5. q.id = p.id
    BY <1>3, <2>2 DEF Packet
  <2>6. Leaves(n, i, s, v)
    BY <1>3, <2>3, <2>5, StartLeaves
  <2>7. Goes(n, i, v, t)
    BY <2>4, <2>6, FloodingSendGoes DEF Leaves
  <2>. QED
    BY <2>6, <2>7, LeavesGoes
<1>. QED
  BY <1>1, <1>2, <1>3

LEMMA AckNakGoes ==
  ASSUME NEW n, NEW s, Ready(s), NEW err, NEW to, NEW id, NEW crypt, NEW hops, NEW over,
         NEW t, t = SendAckNak(n, s, err, to, id, crypt, hops, over), NEW i
  PROVE  Goes(n, i, s, t)
<1>1. PICK x : x = s.nextId + 1
  OBVIOUS
<1>2. PICK u : u = [s EXCEPT !.nextId = x]
  OBVIOUS
<1>3. Unmoved(s, u)
  BY <1>2, UnmovedFields
<1>4. PICK q : q = AllocAckNak(n, s, err, to, id, crypt, hops)
  OBVIOUS
<1>5. ~ q.wantAck
  BY <1>4 DEF AllocAckNak
<1>6. t = SendLocal(n, u, q, over)
  BY <1>1, <1>2, <1>4 DEF SendAckNak
<1>7. Goes(n, i, u, t)
  BY <1>3, <1>5, <1>6, SendLocalGoes DEF Unmoved
<1>. QED
  BY <1>3, <1>7, UnmovedLeaves, LeavesGoes

LEMMA RelayGoes ==
  ASSUME NEW n, NEW s, Ready(s), NEW p, NEW over, NEW t, t = PerhapsRebroadcast(n, s, p, over), NEW i
  PROVE  Goes(n, i, s, t) /\ (p.to = n => t = s)
<1>1. PICK q : t = s \/ (p.to # n /\ t = RouterSend(n, s, q, over))
  BY DEF PerhapsRebroadcast, WillRebroadcast
<1>2. Goes(n, i, s, s)
  BY UnmovedFields, UnmovedLeaves, LeavesIsGoes
<1>. QED
  BY <1>1, <1>2, RouterSendGoes

(* An answer is either given or heard of: it may be queued, or the copy that *)
(* it answers cancelled, in this order.                                      *)
GoesLeaves(n, i, s, t) == \E u : Goes(n, i, s, u) /\ Leaves(n, i, u, t)

LEMMA AcknowledgeGoes ==
  ASSUME NEW n, NEW s, Ready(s), NEW p, NEW replying, NEW over,
         NEW t, t = Acknowledge(n, s, p, replying, over), NEW i
  PROVE  Goes(n, i, s, t) /\ (p.to # n => t = s)
<1>1. Goes(n, i, s, s)
  BY UnmovedFields, UnmovedLeaves, LeavesIsGoes
<1>2. ASSUME NEW err, NEW crypt, NEW hops, t = SendAckNak(n, s, err, p.from, p.id, crypt, hops, over)
      PROVE  Goes(n, i, s, t)
  BY <1>2, AckNakGoes
<1>3. t = s \/ (p.to = n /\ \E err, crypt, hops : t = SendAckNak(n, s, err, p.from, p.id, crypt, hops, over))
  BY DEF Acknowledge
<1>. QED
  BY <1>1, <1>2, <1>3

LEMMA SniffGoes ==
  ASSUME NEW n, NEW s, Ready(s), NEW p, NEW replying, NEW over,
         NEW t, t = ReliableSniffReceived(n, s, p, replying, over), NEW i
  PROVE  GoesLeaves(n, i, s, t)
<1>1. PICK u : u = Acknowledge(n, s, p, replying, over)
  OBVIOUS
<1>2. Goes(n, i, s, u) /\ Ready(u) /\ (p.to # n => u = s)
  BY <1>1, AcknowledgeGoes DEF Goes
<1>3. PICK v : v = IF p.to = n /\ p.plain /\ p.reqId # NoId THEN StopRetransmission(n, u, p.reqId) ELSE u
  OBVIOUS
<1>4. Leaves(n, i, u, v) /\ Ready(v) /\ (p.to # n => v = u)
  <2>1. CASE v = u
    BY <1>2, <2>1, UnmovedFields, UnmovedLeaves
  <2>2. CASE p.to = n /\ v = StopRetransmission(n, u, p.reqId)
    <3>1. PICK id : id = p.reqId
      OBVIOUS
    <3>2. Leaves(n, i, u, v)
      BY <1>2, <2>2, <3>1, StopLeaves
    <3>. QED
      BY <2>2, <3>2 DEF Leaves
  <2>. QED
    BY <1>3, <2>1, <2>2
<1>5. t = FloodingSniffReceived(n, v, p, over)
  BY <1>1, <1>3 DEF ReliableSniffReceived
<1>6. PICK w : /\ w = v \/ (p.to # n /\ w = CancelSending(v, p.to, p.reqId))
               /\ t = PerhapsRebroadcast(n, w, p, over)
  BY <1>5 DEF FloodingSniffReceived
<1>7. Leaves(n, i, v, w) /\ Ready(w)
  <2>1. CASE w = v
    BY <1>4, <2>1, UnmovedFields, UnmovedLeaves
  <2>2. CASE p.to # n /\ w = CancelSending(v, p.to, p.reqId)
    <3>1. PICK f, k : f = p.to /\ k = p.reqId
      OBVIOUS
    <3>2. w = CancelSending(v, f, k) /\ f # n
      BY <2>2, <3>1
    <3>3. Leaves(n, i, v, w)
      BY <1>4, <3>2, CancelLeaves
    <3>. QED
      BY <3>3 DEF Leaves
  <2>. QED
    BY <1>6, <2>1, <2>2
<1>8. Goes(n, i, w, t) /\ (p.to = n => t = w)
  BY <1>6, <1>7, RelayGoes
<1>9. CASE p.to = n
  <2>1. Leaves(n, i, u, t)
    BY <1>4, <1>7, <1>8, <1>9, LeavesThen
  <2>. QED
    BY <1>2, <2>1 DEF GoesLeaves
<1>10. CASE p.to # n
  <2>1. Leaves(n, i, s, w)
    BY <1>2, <1>4, <1>7, <1>10
  <2>2. Goes(n, i, s, t)
    BY <1>8, <2>1, LeavesGoes
  <2>3. Leaves(n, i, t, t)
    BY <2>2, UnmovedFields, UnmovedLeaves DEF Goes
  <2>. QED
    BY <2>2, <2>3 DEF GoesLeaves
<1>. QED
  BY <1>9, <1>10

(* At most two packets are queued. *)
GoesTo(n, i, s, t) == \E u : Goes(n, i, s, u) /\ Goes(n, i, u, t)

LEMMA GoesToSpares ==
  ASSUME NEW n, NEW i, NEW s, NEW t, GoesTo(n, i, s, t), Room(s), Room(t)
  PROVE  Spares(n, i, s, t)
  BY GoesTwice DEF GoesTo

LEMMA ModulesGo ==
  ASSUME NEW n \in Node, NEW s, IsNodeState(s), NEW p, Readable(p), NEW over, NEW t, t = CallModules(n, s, p, over),
         NEW i, i # s.nextId
  PROVE  GoesTo(n, i, s, t)
<1>0. Ready(s) /\ s.nextId \in Nat
  BY StateReady, StateFields
<1>s. ASSUME Stopping(n, p)
      PROVE  GoesTo(n, i, s, t)
  <2>1. t = s
    BY <1>s DEF CallModules
  <2>2. Goes(n, i, s, s)
    BY <1>0, UnmovedFields, UnmovedLeaves, LeavesIsGoes
  <2>. QED
    BY <2>1, <2>2 DEF GoesTo
<1>t. SUFFICES ASSUME ~ Stopping(n, p)
               PROVE  GoesTo(n, i, s, t)
  BY <1>s
<1>1. PICK replying : replying = Replying(n, p)
  OBVIOUS
<1>2. PICK v : v = IF replying THEN [s EXCEPT !.nextId = @ + 1] ELSE s
  OBVIOUS
<1>3. Unmoved(s, v)
  <2>1. PICK x : x = s.nextId + 1
    OBVIOUS
  <2>2. Unmoved(s, [s EXCEPT !.nextId = x]) /\ Unmoved(s, s)
    BY <1>0, UnmovedFields
  <2>3. v = s \/ v = [s EXCEPT !.nextId = x]
    BY <1>2, <2>1
  <2>. QED
    BY <2>2, <2>3
<1>4. PICK w : w = RoutingModuleReceived(n, v, p, replying, over)
  OBVIOUS
<1>5. GoesLeaves(n, i, v, w)
  <2>1. CASE ~ p.plain /\ n \in LocalOnly /\ (p.crypt # PKI \/ IsBroadcast(p.to))
    <3>1. w = v
      BY <1>4, <2>1 DEF RoutingModuleReceived
    <3>2. Leaves(n, i, v, v)
      BY <1>3, UnmovedFields, UnmovedLeaves DEF Unmoved
    <3>. QED
      BY <3>1, <3>2, LeavesIsGoes DEF GoesLeaves
  <2>2. CASE ~ (~ p.plain /\ n \in LocalOnly /\ (p.crypt # PKI \/ IsBroadcast(p.to)))
    <3>1. PICK u : u = ReliableSniffReceived(n, v, p, replying, over)
      OBVIOUS
    <3>2. PICK a : Goes(n, i, v, a) /\ Leaves(n, i, a, u)
      BY <1>3, <3>1, SniffGoes DEF Unmoved, GoesLeaves
    <3>3. PICK x : w = [u EXCEPT !.toPhone = x]
      BY <1>4, <2>2, <3>1 DEF RoutingModuleReceived
    <3>4. Ready(u)
      BY <3>2 DEF Leaves
    <3>5. Leaves(n, i, u, w)
      BY <3>3, <3>4, UnmovedFields, UnmovedLeaves
    <3>6. Leaves(n, i, a, w)
      BY <3>2, <3>5, LeavesThen
    <3>. QED
      BY <3>2, <3>6 DEF GoesLeaves
  <2>. QED
    BY <2>1, <2>2
<1>6. PICK a : Goes(n, i, s, a) /\ Leaves(n, i, a, w)
  <2>1. Leaves(n, i, s, v)
    BY <1>0, <1>3, UnmovedLeaves
  <2>. QED
    BY <1>5, <2>1, LeavesGoes DEF GoesLeaves
<1>7. Ready(w)
  BY <1>6 DEF Leaves
<1>8. Goes(n, i, w, t)
  <2>1. CASE t = w
    BY <1>7, <2>1, UnmovedFields, UnmovedLeaves, LeavesIsGoes
  <2>2. CASE t = SendLocal(n, w, Response(n, s, p), over)
    <3>1. PICK q : q = Response(n, s, p)
      OBVIOUS
    <3>2. q \in Packet /\ q.id = s.nextId
      <4>1. PICK b \in Nat : b = s.nextId /\ b <= s.nextId
        BY <1>0
      <4>2. PICK heard : heard = FALSE
        OBVIOUS
      <4>3. q \in Own(n, b, Answers(n, b, p, heard, heard)) /\ q.plain /\ q.id = s.nextId
        BY <3>1, <4>1, ResponseFacts
      <4>. QED
        BY <4>3 DEF Own
    <3>3. t = SendLocal(n, w, q, over)
      BY <2>2, <3>1
    <3>. QED
      BY <1>7, <3>2, <3>3, SendLocalGoes
  <2>3. CASE t = SendAckNak(n, w, "NO_RESPONSE", p.from, p.id, ReplyChannel(p), HopLimitForResponse(p), over)
    BY <1>7, <2>3, AckNakGoes
  <2>4. \/ t = w \/ t = SendLocal(n, w, Response(n, s, p), over)
        \/ t = SendAckNak(n, w, "NO_RESPONSE", p.from, p.id, ReplyChannel(p), HopLimitForResponse(p), over)
    BY <1>t, <1>1, <1>2, <1>4, Zenon DEF CallModules, Replying
  <2>. QED
    BY <2>1, <2>2, <2>3, <2>4
<1>9. Goes(n, i, a, t)
  BY <1>6, <1>8, LeavesGoes
<1>. QED
  BY <1>6, <1>9 DEF GoesTo

LEMMA DuplicateGoes ==
  ASSUME NEW n, NEW s, Ready(s), NEW p, NEW over, NEW t, t = HandleDuplicate(n, s, p, over),
         NEW i, p.from # n \/ p.id # i
  PROVE  Goes(n, i, s, t)
<1>1. PICK u : u = IF n \in Routers THEN s ELSE CancelSending(s, p.from, p.id)
  OBVIOUS
<1>2. Leaves(n, i, s, u) /\ Ready(u)
  <2>1. CASE u = s
    BY <2>1, UnmovedFields, UnmovedLeaves
  <2>2. CASE u = CancelSending(s, p.from, p.id)
    <3>1. PICK f, k : f = p.from /\ k = p.id
      OBVIOUS
    <3>2. u = CancelSending(s, f, k) /\ (f # n \/ k # i)
      BY <2>2, <3>1
    <3>3. Leaves(n, i, s, u)
      BY <3>2, CancelLeaves
    <3>. QED
      BY <3>3 DEF Leaves
  <2>. QED
    BY <1>1, <2>1, <2>2
<1>3. \/ t = u \/ t = PerhapsRebroadcast(n, u, p, over)
      \/ t = SendAckNak(n, u, "NONE", p.from, p.id, HashChannel(p), 0, over)
  BY <1>1, Zenon DEF HandleDuplicate
<1>4. Goes(n, i, u, t)
  <2>1. CASE t = u
    BY <1>2, <2>1, UnmovedFields, UnmovedLeaves, LeavesIsGoes
  <2>2. CASE t = PerhapsRebroadcast(n, u, p, over)
    BY <1>2, <2>2, RelayGoes
  <2>3. CASE t = SendAckNak(n, u, "NONE", p.from, p.id, HashChannel(p), 0, over)
    BY <1>2, <2>3, AckNakGoes
  <2>. QED
    BY <1>3, <2>1, <2>2, <2>3
<1>. QED
  BY <1>2, <1>4, LeavesGoes

LEMMA ImplicitAckLeaves ==
  ASSUME NEW n, NEW s, Ready(s), NEW p, NEW t, t = ImplicitAck(n, s, p), NEW i
  PROVE  Leaves(n, i, s, t) /\ (p.from = n /\ p.id = i => i \notin DOMAIN t.pending)
<1>1. CASE Expected(n, s, p)
  <2>1. PICK u : u = NakToSelf(n, s, "NONE", p.id)
    OBVIOUS
  <2>2. Unmoved(s, u)
    BY <2>1, NakUnmoved
  <2>3. PICK id : id = p.id
    OBVIOUS
  <2>4. PICK w : w = t
    OBVIOUS
  <2>5. w = StopRetransmission(n, u, id)
    <3>1. t = StopRetransmission(n, NakToSelf(n, s, "NONE", p.id), p.id)
      BY <1>1 DEF ImplicitAck, Expected
    <3>. QED
      BY <2>1, <2>3, <2>4, <3>1
  <2>6. Ready(u)
    BY <2>2 DEF Unmoved
  <2>7. Leaves(n, i, u, w) /\ id \notin DOMAIN w.pending
    BY <2>6, <2>5, StopLeaves
  <2>8. Leaves(n, i, s, u)
    BY <2>2, UnmovedLeaves
  <2>. QED
    BY <2>3, <2>7, <2>8, <2>4, LeavesThen
<1>2. CASE ~ Expected(n, s, p)
  <2>1. t = s
    BY <1>2 DEF ImplicitAck, Expected
  <2>. QED
    BY <1>2, <2>1, UnmovedFields, UnmovedLeaves DEF Expected
<1>. QED
  BY <1>1, <1>2

(* What handling p does to n's packet i: it loses a queued copy only if p is *)
(* that packet come back, of which no record is kept then.                   *)
Spared(n, i, s, p, t) ==
  \/ Room(s) /\ Room(t) => Spares(n, i, s, t)
  \/ p.from = n /\ p.id = i /\ i \notin DOMAIN t.pending

LEMMA HandlingSpares ==
  ASSUME NEW n \in Node, NEW s, IsNodeState(s), NEW p, Legible(p),
         NEW over, NEW t, t = PerhapsHandleReceived(n, s, p, over), NEW i \in Nat, i < s.nextId
  PROVE  Spared(n, i, s, p, t)
<1>0. /\ Readable(p) /\ p \in Packet /\ p.from \in Node /\ p.id \in Nat
      /\ p.plain => p.hopStart = 0
  BY DEF Legible, Readable, Packet
<1>s. Ready(s) /\ s.nextId \in Nat
  BY StateReady, StateFields
<1>1. CASE <<n, p.from>> \in Ignores
  <2>1. t = s
    BY <1>1 DEF PerhapsHandleReceived
  <2>2. Leaves(n, i, s, t)
    BY <1>s, <2>1, UnmovedFields, UnmovedLeaves
  <2>. QED
    BY <2>2 DEF Leaves, Spared
<1>2. CASE <<n, p.from>> \notin Ignores
  <2>1. PICK u : u = ImplicitAck(n, s, p)
    OBVIOUS
  <2>2. Leaves(n, i, s, u) /\ Ready(u) /\ (p.from = n /\ p.id = i => i \notin DOMAIN u.pending)
    BY <1>s, <2>1, ImplicitAckLeaves DEF Leaves
  <2>3. IsNodeState(u) /\ s.nextId <= u.nextId
    <3>1. PICK b \in Nat : b = s.nextId /\ b <= s.nextId
      BY <1>s
    <3>2. PICK heard : heard = FALSE
      OBVIOUS
    <3>3. PICK T : T = Answers(n, b, p, heard, Expected(n, s, p))
      OBVIOUS
    <3>4. Allowed(n, s, u, b, T, {})
      BY <1>0, <2>1, <3>1, <3>3, ImplicitAckAllowed
    <3>. QED
      BY <3>4 DEF Allowed
  <2>4. CASE <<p.from, p.id>> \in u.recent
    <3>1. t = HandleDuplicate(n, u, p, over)
      BY <1>2, <2>1, <2>4 DEF PerhapsHandleReceived
    <3>2. CASE p.from = n /\ p.id = i
      <4>1. SamePending(u, t)
        BY <2>3, <3>1, DuplicatePending, StatePending
      <4>. QED
        BY <2>2, <3>2, <4>1 DEF SamePending, Spared
    <3>3. CASE p.from # n \/ p.id # i
      <4>1. Goes(n, i, u, t)
        BY <2>2, <3>1, <3>3, DuplicateGoes
      <4>2. Goes(n, i, s, t)
        BY <2>2, <4>1, LeavesGoes
      <4>. QED
        BY <4>2 DEF Goes, Spared
    <3>. QED
      BY <3>2, <3>3
  <2>5. CASE <<p.from, p.id>> \notin u.recent
    <3>1. PICK v : v = Marks(u, p)
      OBVIOUS
    <3>2. /\ IsNodeState(v) /\ v.nextId = u.nextId /\ v.pending = u.pending /\ v.txQueue = u.txQueue
      BY <1>0, <2>3, <3>1, MarksFacts
    <3>3. Leaves(n, i, u, v)
      <4>1. Unmoved(u, v)
        BY <3>2, StateReady DEF Unmoved
      <4>. QED
        BY <2>2, <4>1, UnmovedLeaves
    <3>4. PICK q : q = Decoded(n, p)
      OBVIOUS
    <3>5. Readable(q)
      BY <1>0, <3>4, DecodedReadable
    <3>6. t = CallModules(n, v, q, over)
      BY <1>2, <2>1, <2>5, <3>1, <3>4, Zenon DEF PerhapsHandleReceived, HandleReceived, Marks
    <3>7. i # v.nextId
      <4>1. u.nextId \in Nat
        BY <2>3, StateFields
      <4>. QED
        BY <1>s, <2>3, <3>2, <4>1, SMT
    <3>8. PICK a : Goes(n, i, v, a) /\ Goes(n, i, a, t)
      BY <3>2, <3>5, <3>6, <3>7, ModulesGo DEF GoesTo
    <3>9. Goes(n, i, s, a)
      BY <2>2, <3>3, <3>8, LeavesThen, LeavesGoes
    <3>. QED
      BY <3>8, <3>9, GoesTwice DEF Spared
  <2>. QED
    BY <2>4, <2>5
<1>. QED
  BY <1>1, <1>2

(* What node n queues if it has not used up its duty cycle. *)
Sendable(n, p) ==
  /\ n \notin TxDisabled /\ p.to # BROADCAST_NO_LORA /\ p.to # n
  /\ p.plain /\ p.crypt # NoChannel /\ EncodeError(n, p) = "NONE"

LEMMA FloodingSendAdds ==
  ASSUME NEW n, NEW s, Ready(s), NEW p \in Packet, p.from = n, Sendable(n, p),
         NEW t, t = FloodingSend(n, s, p, FALSE)
  PROVE  Room(s) \/ Room(t) => Number(s, n, p.id) + 1 <= Number(t, n, p.id)
<1>1. PICK x : x = s.recent \cup {<<p.from, p.id>>}
  OBVIOUS
<1>2. PICK u : u = [s EXCEPT !.recent = x]
  OBVIOUS
<1>3. PICK y : y = IF n \in MqttNodes /\ p.from = n THEN u.uplink \cup {p.id} ELSE u.uplink
  OBVIOUS
<1>4. PICK v : v = [u EXCEPT !.uplink = y]
  OBVIOUS
<1>5. Unmoved(s, u)
  BY <1>2, UnmovedFields
<1>6. Unmoved(u, v)
  BY <1>4, <1>5, UnmovedFields DEF Unmoved
<1>7. PICK q : q = Encoded(n, Prepared(n, p))
  OBVIOUS
<1>8. q.from = p.from /\ q.to = p.to /\ q.id = p.id
  <2>1. q = OnQueue(n, p)
    BY <1>7 DEF OnQueue, Sendable
  <2>. QED
    BY <2>1, OnQueueFacts
<1>9. t = RouterSend(n, u, p, FALSE)
  BY <1>1, <1>2 DEF FloodingSend
<1>10. t = RadioSend(n, v, q)
  BY <1>3, <1>4, <1>7, <1>9 DEF RouterSend, Sendable
<1>11. v.txQueue = s.txQueue /\ Ready(v)
  BY <1>5, <1>6 DEF Unmoved
<1>12. PICK i : i = p.id
  OBVIOUS
<1>13. Room(v) \/ Room(t) => Number(v, n, i) + 1 <= Number(t, n, i)
  BY <1>8, <1>10, <1>11, <1>12, RadioSendGoes DEF Sendable
<1>. QED
  BY <1>11, <1>12, <1>13 DEF Room, Number

(* ... and so is what the phone gives it. *)
LEMMA SendLocalAdds ==
  ASSUME NEW n, NEW s, Ready(s), NEW p \in Packet, p.from = n, Sendable(n, p),
         NEW t, t = SendLocal(n, s, p, FALSE), Room(t)
  PROVE  Number(t, n, p.id) >= 1
<1>1. CASE ~ p.wantAck
  <2>1. t = FloodingSend(n, s, p, FALSE)
    BY <1>1 DEF SendLocal, ReliableSend, Sendable
  <2>2. Number(s, n, p.id) + 1 <= Number(t, n, p.id)
    BY <2>1, FloodingSendAdds
  <2>3. Ready(t)
    BY <2>1, FloodingSendGoes DEF Goes
  <2>4. PICK a, b \in Nat : a = Number(s, n, p.id) /\ b = Number(t, n, p.id)
    BY <2>3, ReadyType
  <2>5. a + 1 <= b
    BY <2>2, <2>4
  <2>6. b >= 1
    BY <2>5, SMT
  <2>. QED
    BY <2>4, <2>6
<1>2. CASE p.wantAck
  <2>1. PICK h : h = IF p.hopLimit = 0 THEN LoraHopLimit ELSE p.hopLimit
    OBVIOUS
  <2>2. PICK q : q = [p EXCEPT !.hopLimit = h]
    OBVIOUS
  <2>3. h \in Nat
    BY <2>1, RouterAssumption DEF Packet, HOP_MAX
  <2>4. /\ q \in Packet /\ q.from = p.from /\ q.to = p.to /\ q.id = p.id
        /\ q.plain = p.plain /\ q.crypt = p.crypt /\ q.port = p.port
    BY <2>2, <2>3 DEF Packet
  <2>5. UsesPKI(n, q) <=> UsesPKI(n, p)
    BY <2>4 DEF UsesPKI
  <2>6. Sendable(n, q)
    BY <2>4, <2>5 DEF Sendable, EncodeError
  <2>7. PICK id : id = q.id
    OBVIOUS
  <2>8. PICK u : u = StopRetransmission(n, s, id)
    OBVIOUS
  <2>9. Ready(u)
    BY <2>8, StopLeaves DEF Leaves
  <2>10. PICK v : v = StartRetransmission(n, s, q)
    OBVIOUS
  <2>11. PICK x : x = [i \in DOMAIN u.pending \cup {id} |->
           IF i = id THEN [packet |-> q, left |-> NUM_RETRANSMISSIONS - 1] ELSE u.pending[i]]
    OBVIOUS
  <2>12. v = [u EXCEPT !.pending = x]
    BY <2>7, <2>8, <2>10, <2>11 DEF StartRetransmission
  <2>13. Ready(v)
    BY <2>9, <2>12, SetRecords
  <2>14. t = FloodingSend(n, v, q, FALSE)
    BY <1>2, <2>1, <2>2, <2>10 DEF SendLocal, ReliableSend, Sendable
  <2>15. Number(v, n, q.id) + 1 <= Number(t, n, q.id)
    BY <2>4, <2>6, <2>13, <2>14, FloodingSendAdds
  <2>16. Ready(t)
    BY <2>13, <2>14, FloodingSendGoes DEF Goes
  <2>17. PICK a, b \in Nat : a = Number(v, n, q.id) /\ b = Number(t, n, q.id)
    BY <2>13, <2>16, ReadyType
  <2>18. a + 1 <= b
    BY <2>15, <2>17
  <2>19. b >= 1
    BY <2>18, SMT
  <2>. QED
    BY <2>4, <2>17, <2>19
<1>. QED
  BY <1>1, <1>2

LEMMA CountedNumber ==
  ASSUME NEW v, NEW id, NEW t, CountsDown(v, id, t), NEW n, NEW i
  PROVE  Number(t, n, i) = Number(v, n, i) /\ (Room(t) <=> Room(v))
  BY DEF CountsDown, Number, Room

(* A retransmission of another packet, or the end of the retransmissions. *)
LEMMA RetransmissionSpares ==
  ASSUME NEW n \in Node, NEW s, IsNodeState(s), NEW id \in DOMAIN s.pending,
         Recorded(n, id, s.pending[id].packet), NEW over, NEW t, t = Retransmission(n, s, id, over),
         NEW i, i # id \/ s.pending[id].left = 0
  PROVE  Goes(n, i, s, t)
<1>0. Ready(s) /\ s.pending[id].left \in Nat
  BY StateReady, StateFields DEF Pending
<1>1. PICK p : p = s.pending[id].packet
  OBVIOUS
<1>2. CASE s.pending[id].left = 0
  <2>1. PICK u : u = NakToSelf(n, s, "MAX_RETRANSMIT", id)
    OBVIOUS
  <2>2. t = StopRetransmission(n, u, id)
    BY <1>2, <2>1 DEF Retransmission
  <2>3. Unmoved(s, u)
    BY <1>0, <2>1, NakUnmoved
  <2>4. Leaves(n, i, s, u)
    BY <1>0, <2>3, UnmovedLeaves
  <2>5. Leaves(n, i, u, t)
    BY <2>2, <2>3, StopLeaves DEF Unmoved
  <2>. QED
    BY <2>4, <2>5, LeavesThen, LeavesIsGoes
<1>3. CASE s.pending[id].left # 0
  <2>1. PICK v : v = FloodingSend(n, s, p, over)
    OBVIOUS
  <2>2. p \in Packet /\ p.plain /\ p.id = id /\ (Indexed => p.crypt # NoChannel)
    BY <1>1 DEF Recorded
  <2>3. v.pending = s.pending /\ IsNodeState(v)
    <3>1. Allowed(n, Marks(s, p), v, s.nextId, Refusing(n, id), Sends(n, p)) /\ v.pending = s.pending
      BY <2>1, <2>2, FloodingFacts
    <3>. QED
      BY <3>1 DEF Allowed
  <2>4. Goes(n, i, s, v)
    BY <1>0, <2>1, FloodingSendGoes
  <2>5. t = Counted(v, id)
    BY <1>1, <1>3, <2>1 DEF Retransmission, Counted
  <2>6. id \in DOMAIN v.pending /\ v.pending[id].left > 0
    BY <1>0, <1>3, <2>3
  <2>7. CountsDown(v, id, t)
    BY <2>3, <2>5, <2>6, CountingFacts
  <2>8. Number(t, n, i) = Number(v, n, i) /\ (Room(t) <=> Room(v))
    BY <2>7, CountedNumber
  <2>9. (i \in DOMAIN t.pending <=> i \in DOMAIN v.pending) /\ (i \in DOMAIN v.pending => t.pending[i] = v.pending[i])
    BY <1>3, <2>7 DEF CountsDown
  <2>10. Spares(n, i, s, v) => Spares(n, i, s, t)
    BY <2>8, <2>9 DEF Spares
  <2>11. Ready(t)
    BY <2>7, StateReady DEF CountsDown
  <2>. QED
    BY <2>4, <2>8, <2>10, <2>11 DEF Goes
<1>. QED
  BY <1>2, <1>3

(* What a node finds whose duty cycle is not used up. *)
Unlimited == {FALSE}

(* A retransmission of this one. *)
LEMMA RetransmissionAdds ==
  ASSUME NEW n \in Node, NEW s, IsNodeState(s), NEW i \in DOMAIN s.pending, s.pending[i].left # 0,
         Recorded(n, i, s.pending[i].packet), Sendable(n, s.pending[i].packet),
         NEW over \in Unlimited, NEW t, t = Retransmission(n, s, i, over)
  PROVE  /\ i \in DOMAIN t.pending
         /\ t.pending[i].packet = s.pending[i].packet /\ t.pending[i].left = s.pending[i].left - 1
         /\ Room(s) => Number(s, n, i) + 1 <= Number(t, n, i)
<1>0. Ready(s) /\ s.pending[i].left \in Nat
  BY StateReady, StateFields DEF Pending
<1>1. PICK p : p = s.pending[i].packet
  OBVIOUS
<1>2. PICK v : v = FloodingSend(n, s, p, over)
  OBVIOUS
<1>3. p \in Packet /\ p.from = n /\ p.plain /\ p.id = i /\ (Indexed => p.crypt # NoChannel) /\ Sendable(n, p)
  BY <1>1 DEF Recorded
<1>4. v.pending = s.pending /\ IsNodeState(v)
  <2>1. Allowed(n, Marks(s, p), v, s.nextId, Refusing(n, i), Sends(n, p)) /\ v.pending = s.pending
    BY <1>2, <1>3, FloodingFacts
  <2>. QED
    BY <2>1 DEF Allowed
<1>5. Room(s) => Number(s, n, i) + 1 <= Number(v, n, i)
  <2>1. over = FALSE
    BY DEF Unlimited
  <2>. QED
    BY <1>0, <1>2, <1>3, <2>1, FloodingSendAdds
<1>6. t = Counted(v, i)
  BY <1>1, <1>2 DEF Retransmission, Counted
<1>7. i \in DOMAIN v.pending /\ v.pending[i].left > 0
  BY <1>0, <1>4
<1>8. CountsDown(v, i, t)
  BY <1>4, <1>6, <1>7, CountingFacts
<1>9. Number(t, n, i) = Number(v, n, i)
  <2>1. PICK id : id = i /\ CountsDown(v, id, t)
    BY <1>8
  <2>. QED
    BY <2>1, CountedNumber
<1>. QED
  BY <1>4, <1>5, <1>8, <1>9 DEF CountsDown

LEMMA EchoUnmoved ==
  ASSUME NEW n, NEW s, Ready(s), NEW id, NEW t, t = MqttEcho(n, s, id)
  PROVE  Unmoved(s, t)
<1>1. PICK x : x = s.uplink \ {id}
  OBVIOUS
<1>2. PICK u : u = [s EXCEPT !.uplink = x]
  OBVIOUS
<1>3. Unmoved(s, u)
  BY <1>2, UnmovedFields
<1>4. t = NakToSelf(n, u, "NONE", id)
  BY <1>1, <1>2 DEF MqttEcho
<1>5. Unmoved(u, t)
  BY <1>3, <1>4, NakUnmoved DEF Unmoved
<1>. QED
  BY <1>3, <1>5, UnmovedThen
=============================================================================
