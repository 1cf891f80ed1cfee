---------------------------- MODULE PublisherProofs ----------------------------
(***************************************************************************)
(* Proofs about Publisher, for any size of the buffer and number of        *)
(* retries, submissions and late requests.                                 *)
(***************************************************************************)
EXTENDS Publisher, NaturalsInduction, SequenceTheorems, TLAPS

Nos(q) == {q[k].no : k \in 1..Len(q)}
Once(q) == \A j, k \in 1..Len(q) : q[j].no = q[k].no => j = k

-----------------------------------------------------------------------------
(* The operations on the buffer, and the numbers that it holds.            *)
LEMMA AppendedItem ==
    ASSUME NEW q \in Seq(QueueItems), NEW x \in QueueItems
    PROVE  /\ Append(q, x) \in Seq(QueueItems) /\ Len(Append(q, x)) = Len(q) + 1
           /\ Nos(Append(q, x)) = Nos(q) \cup {x.no}
           /\ Once(q) /\ x.no \notin Nos(q) => Once(Append(q, x))
<1> DEFINE r == Append(q, x)
<1>1. /\ r \in Seq(QueueItems) /\ Len(r) = Len(q) + 1 /\ Len(q) \in Nat
      /\ \A k \in 1..Len(q) : r[k] = q[k]
      /\ r[Len(q) + 1] = x
  OBVIOUS
<1> HIDE DEF r
<1>2. 1..Len(r) = (1..Len(q)) \cup {Len(q) + 1}
  BY <1>1
<1>3. Nos(r) = Nos(q) \cup {x.no}
  BY <1>1, <1>2 DEF Nos
<1>4. Once(q) /\ x.no \notin Nos(q) => Once(r)
  BY <1>1, <1>2 DEF Once, Nos
<1> QED BY <1>1, <1>3, <1>4 DEF r

LEMMA PrependedItem ==
    ASSUME NEW q \in Seq(QueueItems), NEW x \in QueueItems
    PROVE  /\ <<x>> \o q \in Seq(QueueItems) /\ Len(<<x>> \o q) = Len(q) + 1
           /\ Nos(<<x>> \o q) = Nos(q) \cup {x.no}
           /\ Once(q) /\ x.no \notin Nos(q) => Once(<<x>> \o q)
<1> DEFINE r == <<x>> \o q
<1>0. <<x>> \in Seq(QueueItems) /\ Len(<<x>>) = 1 /\ <<x>>[1] = x /\ Len(q) \in Nat
  OBVIOUS
<1>1. /\ r \in Seq(QueueItems) /\ Len(r) = Len(q) + 1
      /\ \A k \in 1..(Len(q) + 1) : r[k] = IF k <= 1 THEN <<x>>[k] ELSE q[k - 1]
  BY <1>0, ConcatProperties
<1> HIDE DEF r
<1>2. r[1] = x /\ \A k \in 1..Len(q) : r[k + 1] = q[k]
  BY <1>0, <1>1
<1>3. \A j \in 1..Len(r) : j = 1 \/ \E k \in 1..Len(q) : j = k + 1
  <2> SUFFICES ASSUME NEW j \in 1..Len(r), j # 1 PROVE \E k \in 1..Len(q) : j = k + 1
    OBVIOUS
  <2>1. j - 1 \in 1..Len(q) /\ j = (j - 1) + 1
    BY <1>0, <1>1
  <2> QED BY <2>1
<1>4. 1 \in 1..Len(r) /\ \A k \in 1..Len(q) : k + 1 \in 1..Len(r)
  BY <1>0, <1>1
<1>5. Nos(r) = Nos(q) \cup {x.no}
  <2>1. Nos(r) \subseteq Nos(q) \cup {x.no}
    <3> SUFFICES ASSUME NEW j \in 1..Len(r) PROVE r[j].no \in Nos(q) \cup {x.no}
      BY DEF Nos
    <3>1. CASE j = 1
      BY <1>2, <3>1
    <3>2. CASE j # 1
      <4>1. PICK k \in 1..Len(q) : j = k + 1
        BY <1>3, <3>2
      <4> QED BY <1>2, <4>1 DEF Nos
    <3> QED BY <3>1, <3>2
  <2>2. x.no \in Nos(r)
    BY <1>2, <1>4 DEF Nos
  <2>3. \A k \in 1..Len(q) : q[k].no \in Nos(r)
    <3> SUFFICES ASSUME NEW k \in 1..Len(q) PROVE q[k].no \in Nos(r)
      OBVIOUS
    <3>1. k + 1 \in 1..Len(r) /\ r[k + 1] = q[k]
      BY <1>2, <1>4
    <3> HIDE DEF Nos
    <3>2. r[k + 1].no \in Nos(r)
      BY <3>1 DEF Nos
    <3> QED BY <3>1, <3>2
  <2>4. Nos(q) \subseteq Nos(r)
    BY <2>3 DEF Nos
  <2> QED BY <2>1, <2>2, <2>4
<1>6. ASSUME Once(q), x.no \notin Nos(q) PROVE Once(r)
  <2> SUFFICES ASSUME NEW j \in 1..Len(r), NEW l \in 1..Len(r), r[j].no = r[l].no
               PROVE  j = l
    BY DEF Once
  <2>1. \A k \in 1..Len(q) : q[k].no # x.no
    BY <1>6 DEF Nos
  <2>2. CASE j = 1 \/ l = 1
    <3>1. \A k \in 1..Len(q) : r[k + 1].no # r[1].no
      BY <1>2, <2>1
    <3> QED BY <1>3, <2>2, <3>1
  <2>3. CASE j # 1 /\ l # 1
    <3>1. PICK k \in 1..Len(q) : j = k + 1
      BY <1>3, <2>3
    <3>2. PICK m \in 1..Len(q) : l = m + 1
      BY <1>3, <2>3
    <3>3. q[k].no = q[m].no
      BY <1>2, <3>1, <3>2
    <3> QED BY <1>6, <3>1, <3>2, <3>3 DEF Once
  <2> QED BY <2>2, <2>3
<1> QED BY <1>1, <1>5, <1>6 DEF r

(* What is left when the k-th item is taken out.                           *)
Removed(q, k) == SubSeq(q, 1, k - 1) \o SubSeq(q, k + 1, Len(q))

LEMMA RemovedItem ==
    ASSUME NEW q \in Seq(QueueItems), NEW k \in 1..Len(q)
    PROVE  /\ Removed(q, k) \in Seq(QueueItems) /\ Len(Removed(q, k)) = Len(q) - 1
           /\ Nos(q) = Nos(Removed(q, k)) \cup {q[k].no}
           /\ Once(q) => Once(Removed(q, k)) /\ q[k].no \notin Nos(Removed(q, k))
<1> DEFINE a == SubSeq(q, 1, k - 1)
           b == SubSeq(q, k + 1, Len(q))
           r == Removed(q, k)
<1>0. Len(q) \in Nat /\ k \in Nat /\ k >= 1 /\ k <= Len(q)
      /\ \A j \in 1..Len(q) : q[j] \in QueueItems
  OBVIOUS
<1>1. /\ a \in Seq(QueueItems) /\ Len(a) = k - 1
      /\ \A j \in 1..(k - 1) : a[j] = q[j]
  <2>1. \A j \in 1..(k - 1) : q[j] \in QueueItems
    BY <1>0
  <2>2. /\ a \in Seq(QueueItems) /\ Len(a) = IF 1 <= k - 1 THEN k - 1 - 1 + 1 ELSE 0
        /\ \A j \in 1..(k - 1 - 1 + 1) : a[j] = q[1 + j - 1]
    BY <1>0, <2>1, SubSeqProperties
  <2> HIDE DEF a
  <2> QED BY <1>0, <2>2
<1>2. /\ b \in Seq(QueueItems) /\ Len(b) = Len(q) - k
      /\ \A j \in 1..(Len(q) - k) : b[j] = q[k + j]
  <2>1. \A j \in (k + 1)..Len(q) : q[j] \in QueueItems
    BY <1>0
  <2>2. /\ b \in Seq(QueueItems)
        /\ Len(b) = IF k + 1 <= Len(q) THEN Len(q) - (k + 1) + 1 ELSE 0
        /\ \A j \in 1..(Len(q) - (k + 1) + 1) : b[j] = q[(k + 1) + j - 1]
    BY <1>0, <2>1, SubSeqProperties
  <2> HIDE DEF b
  <2> QED BY <1>0, <2>2
<1>3. /\ r \in Seq(QueueItems) /\ Len(r) = Len(a) + Len(b)
      /\ \A j \in 1..(Len(a) + Len(b)) : r[j] = IF j <= Len(a) THEN a[j] ELSE b[j - Len(a)]
  <2>1. r = a \o b
    BY DEF Removed
  <2> HIDE DEF a, b, r
  <2> QED BY <1>1, <1>2, <2>1, ConcatProperties
<1> HIDE DEF a, b, r
<1>4. Len(r) = Len(q) - 1
  BY <1>0, <1>1, <1>2, <1>3
<1>5. \A j \in 1..Len(r) : r[j] = IF j < k THEN q[j] ELSE q[j + 1]
  BY <1>0, <1>1, <1>2, <1>3
<1>6. \A j \in 1..Len(q) : \/ j = k
                           \/ j \in 1..Len(r) /\ r[j] = q[j] /\ j < k
                           \/ j - 1 \in 1..Len(r) /\ r[j - 1] = q[j] /\ j > k
  BY <1>0, <1>4, <1>5
<1>7. \A j \in 1..Len(r) : \E i \in 1..Len(q) :
         r[j] = q[i] /\ i # k /\ ((i = j /\ j < k) \/ (i = j + 1 /\ ~(j < k)))
  <2> SUFFICES ASSUME NEW j \in 1..Len(r)
               PROVE  \E i \in 1..Len(q) :
                        r[j] = q[i] /\ i # k /\ ((i = j /\ j < k) \/ (i = j + 1 /\ ~(j < k)))
    OBVIOUS
  <2>1. CASE j < k
    <3>1. j \in 1..Len(q)
      BY <1>0, <1>4
    <3>2. j # k /\ r[j] = q[j]
      BY <1>0, <1>5, <2>1
    <3> WITNESS j \in 1..Len(q)
    <3> QED BY <2>1, <3>2
  <2>2. CASE ~(j < k)
    <3>1. j + 1 \in 1..Len(q) /\ j + 1 # k /\ r[j] = q[j + 1]
      BY <1>0, <1>4, <1>5, <2>2
    <3> QED BY <2>2, <3>1
  <2> QED BY <2>1, <2>2
<1>8. Nos(q) = Nos(r) \cup {q[k].no}
  <2>1. \A j \in 1..Len(q) : q[j].no \in Nos(r) \cup {q[k].no}
    BY <1>6 DEF Nos
  <2>2. \A j \in 1..Len(r) : r[j].no \in Nos(q)
    BY <1>7 DEF Nos
  <2>3. q[k].no \in Nos(q)
    BY DEF Nos
  <2> QED BY <2>1, <2>2, <2>3 DEF Nos
<1>9. ASSUME Once(q) PROVE Once(r) /\ q[k].no \notin Nos(r)
  <2>1. Once(r)
    <3> SUFFICES ASSUME NEW j \in 1..Len(r), NEW l \in 1..Len(r), r[j].no = r[l].no
                 PROVE  j = l
      BY DEF Once
    <3>1. PICK i \in 1..Len(q) :
             r[j] = q[i] /\ ((i = j /\ j < k) \/ (i = j + 1 /\ ~(j < k)))
      BY <1>7
    <3>2. PICK m \in 1..Len(q) :
             r[l] = q[m] /\ ((m = l /\ l < k) \/ (m = l + 1 /\ ~(l < k)))
      BY <1>7
    <3>3. i = m
      BY <1>9, <3>1, <3>2 DEF Once
    <3> QED BY <1>0, <3>1, <3>2, <3>3
  <2>2. q[k].no \notin Nos(r)
    BY <1>7, <1>9 DEF Once, Nos
  <2> QED BY <2>1, <2>2
<1> QED BY <1>3, <1>4, <1>8, <1>9 DEF r

LEMMA TailItem ==
    ASSUME NEW q \in Seq(QueueItems), q # <<>>
    PROVE  /\ Tail(q) \in Seq(QueueItems) /\ Len(Tail(q)) = Len(q) - 1
           /\ Len(q) \in Nat \ {0} /\ Head(q) = q[1]
           /\ Nos(q) = Nos(Tail(q)) \cup {Head(q).no}
           /\ Once(q) => Once(Tail(q)) /\ Head(q).no \notin Nos(Tail(q))
<1> DEFINE r == Tail(q)
<1>1. /\ r \in Seq(QueueItems) /\ Len(r) = Len(q) - 1 /\ Len(q) \in Nat \ {0}
      /\ Head(q) = q[1]
      /\ \A j \in 1..Len(r) : r[j] = q[j + 1]
  BY HeadTailProperties
<1> HIDE DEF r
<1>2. \A j \in 1..Len(q) : j = 1 \/ (j - 1 \in 1..Len(r) /\ r[j - 1] = q[j])
  BY <1>1
<1>3. \A j \in 1..Len(r) : j + 1 \in 1..Len(q) /\ j + 1 # 1
  BY <1>1
<1>4. 1 \in 1..Len(q)
  BY <1>1
<1>5. Nos(q) = Nos(r) \cup {q[1].no}
  BY <1>1, <1>2, <1>3, <1>4 DEF Nos
<1>6. ASSUME Once(q) PROVE Once(r) /\ q[1].no \notin Nos(r)
  <2>1. \A j, l \in 1..Len(r) : r[j].no = r[l].no => j + 1 = l + 1
    BY <1>1, <1>3, <1>6 DEF Once
  <2>2. Once(r)
    BY <1>1, <2>1 DEF Once
  <2>3. q[1].no \notin Nos(r)
    BY <1>1, <1>3, <1>4, <1>6 DEF Once, Nos
  <2> QED BY <2>2, <2>3
<1> QED BY <1>1, <1>5, <1>6 DEF r

LEMMA RipenedItem ==
    ASSUME NEW q \in Seq(QueueItems), NEW k \in 1..Len(q)
    PROVE  LET r == [q EXCEPT ![k].due = TRUE]
           IN  /\ r \in Seq(QueueItems) /\ Len(r) = Len(q)
               /\ Nos(r) = Nos(q) /\ (Once(q) => Once(r))
<1> DEFINE r == [q EXCEPT ![k].due = TRUE]
<1>1. /\ r \in Seq(QueueItems) /\ Len(r) = Len(q)
      /\ \A j \in 1..Len(q) : r[j].no = q[j].no
  <2>1. \A j \in 1..Len(q) : q[j] \in QueueItems
    OBVIOUS
  <2>2. [q[k] EXCEPT !.due = TRUE] \in QueueItems
        /\ [q[k] EXCEPT !.due = TRUE].no = q[k].no
    BY <2>1 DEF QueueItems
  <2>3. r = [q EXCEPT ![k] = [q[k] EXCEPT !.due = TRUE]]
    OBVIOUS
  <2>4. ASSUME NEW x \in QueueItems
        PROVE  /\ [q EXCEPT ![k] = x] \in Seq(QueueItems)
               /\ Len([q EXCEPT ![k] = x]) = Len(q)
               /\ \A j \in 1..Len(q) : [q EXCEPT ![k] = x][j] = IF j = k THEN x ELSE q[j]
    BY ExceptSeq
  <2> HIDE DEF r
  <2> QED BY <2>2, <2>3, <2>4
<1> HIDE DEF r
<1>2. Nos(r) = Nos(q)
  BY <1>1 DEF Nos
<1>3. Once(q) => Once(r)
  BY <1>1 DEF Once
<1> QED BY <1>1, <1>2, <1>3 DEF r

-----------------------------------------------------------------------------
(* The invariant.  Requests name submitted messages, and an answer that    *)
(* counts as a delivery names a message that is stored or refused.         *)
WireLogged == \A a \in wire : a.no \in 1..Len(log)
ReplyMeans ==
    transport = "http" /\ reply \in {"ok", "conflict"} =>
      log[flight.no].id \in stored \/ refusing

Inv == TypeOK /\ Accounted /\ Bounded /\ WireLogged /\ ReplyMeans /\ SentIsHandled

InFlight == IF flight = None THEN {} ELSE {flight.no}

(* Accounted, in terms of the numbers that the buffer holds.               *)
LEMMA AccountedIs ==
    Accounted <=>
      /\ 1..Len(log) = sent \cup dropped \cup Nos(queue) \cup InFlight
      /\ sent \cap dropped = {}
      /\ (Nos(queue) \cup InFlight) \cap (sent \cup dropped) = {}
      /\ Once(queue) /\ Nos(queue) \cap InFlight = {}
<1>1. Held = Nos(queue) \cup InFlight
  BY DEF Held, Nos, InFlight
<1>2. (flight # None => \A k \in 1..Len(queue) : queue[k].no # flight.no)
        <=> Nos(queue) \cap InFlight = {}
  BY DEF Nos, InFlight
<1> QED BY <1>1, <1>2 DEF Accounted, Once

-----------------------------------------------------------------------------
(* One lemma for each action.                                              *)
Messages == [kind: Kinds, id: 1..MaxSubmissions]

LEMMA RoomIsLeft ==
    ASSUME Inv
    PROVE  /\ Room \in Seq(QueueItems) /\ Len(Room) \in Nat
           /\ Len(Room) + 1 <= MaxBuffer \/ Len(Room) + 1 <= Len(queue)
           /\ Nos(queue) = Nos(Room) \cup Lost /\ Nos(Room) \cap Lost = {}
           /\ Once(Room)
<1>1. queue \in Seq(QueueItems) /\ Len(queue) \in Nat /\ Once(queue) /\ MaxBuffer \in Nat \ {0}
  BY AccountedIs, PublisherAssumption DEF Inv, TypeOK
<1>2. CASE Full
  <2>1. queue # <<>> /\ Room = Tail(queue) /\ Lost = {Head(queue).no}
    BY <1>1, <1>2 DEF Full, Room, Lost
  <2>2. /\ Tail(queue) \in Seq(QueueItems) /\ Len(Tail(queue)) = Len(queue) - 1
        /\ Len(queue) \in Nat \ {0}
        /\ Nos(queue) = Nos(Tail(queue)) \cup {Head(queue).no}
        /\ Once(Tail(queue)) /\ Head(queue).no \notin Nos(Tail(queue))
    BY <1>1, <2>1, TailItem
  <2> QED BY <1>1, <2>1, <2>2
<1>3. CASE ~Full
  BY <1>1, <1>3 DEF Full, Room, Lost
<1> QED BY <1>2, <1>3

LEMMA Enqueues ==
    ASSUME Inv, NEW kind \in Kinds, NEW id \in 1..MaxSubmissions, Enqueue(kind, id)
    PROVE  /\ log' \in Seq(Messages) /\ Len(log') = Len(log) + 1 /\ Len(log) \in Nat
           /\ \A n \in 1..Len(log) : log'[n] = log[n]
           /\ queue' \in Seq(QueueItems) /\ Len(queue') \in Nat /\ Once(queue')
           /\ Nos(queue') = (Nos(queue) \ Lost) \cup {Len(log) + 1}
           /\ Lost \subseteq Nos(queue) /\ dropped' = dropped \cup Lost
           /\ Len(queue') <= MaxBuffer \/ Len(queue') <= Len(queue)
<1> DEFINE x == Item(Len(log) + 1, 0, TRUE)
           m == [kind |-> kind, id |-> id]
<1>1. log \in Seq(Messages) /\ Len(log) \in Nat /\ m \in Messages
  BY DEF Inv, TypeOK, Messages
<1>2. log' = Append(log, m) /\ queue' = Enqueued(kind, x) /\ dropped' = dropped \cup Lost
  BY DEF Enqueue
<1>3. x \in QueueItems /\ x.no = Len(log) + 1
  BY <1>1, PublisherAssumption DEF QueueItems, Item, Attempts
<1>4. /\ log' \in Seq(Messages) /\ Len(log') = Len(log) + 1
      /\ \A n \in 1..Len(log) : log'[n] = log[n]
  <2> HIDE DEF m
  <2> QED BY <1>1, <1>2
<1>5. Len(log) + 1 \notin Nos(queue)
  BY <1>1, AccountedIs DEF Inv
<1> HIDE DEF x
<1>6. /\ Room \in Seq(QueueItems) /\ Len(Room) \in Nat
      /\ Len(Room) + 1 <= MaxBuffer \/ Len(Room) + 1 <= Len(queue)
      /\ Nos(queue) = Nos(Room) \cup Lost /\ Nos(Room) \cap Lost = {}
      /\ Once(Room)
  BY RoomIsLeft
<1>7. /\ queue' \in Seq(QueueItems) /\ Len(queue') = Len(Room) + 1
      /\ Nos(queue') = Nos(Room) \cup {x.no} /\ Once(queue')
  <2>1. x.no \notin Nos(Room)
    BY <1>3, <1>5, <1>6
  <2>2. CASE kind = "heartbeat"
    BY <1>2, <1>3, <1>6, <2>1, <2>2, PrependedItem DEF Enqueued
  <2>3. CASE kind # "heartbeat"
    BY <1>2, <1>3, <1>6, <2>1, <2>3, AppendedItem DEF Enqueued
  <2> QED BY <2>2, <2>3
<1> QED BY <1>1, <1>2, <1>3, <1>4, <1>6, <1>7

(* A submission, whatever its thread does next.                            *)
LEMMA SubmissionKeeps ==
    ASSUME Inv, NEW kind \in Kinds, NEW id \in 1..MaxSubmissions, Enqueue(kind, id),
           main' \in {"running", "draining", "joining", "closed", "exited"},
           UNCHANGED <<transport, flight, reply, sent, worker, closing, backend>>
    PROVE  Inv'
<1>0. UNCHANGED <<transport, flight, reply, sent, worker, closing, wire, refusing, stored>>
  BY DEF backend
<1>1. /\ log' \in Seq(Messages) /\ Len(log') = Len(log) + 1 /\ Len(log) \in Nat
      /\ \A n \in 1..Len(log) : log'[n] = log[n]
      /\ queue' \in Seq(QueueItems) /\ Len(queue') \in Nat /\ Once(queue')
      /\ Nos(queue') = (Nos(queue) \ Lost) \cup {Len(log) + 1}
      /\ Lost \subseteq Nos(queue) /\ dropped' = dropped \cup Lost
      /\ Len(queue') <= MaxBuffer \/ Len(queue') <= Len(queue)
  BY Enqueues
<1>2. /\ 1..Len(log) = sent \cup dropped \cup Nos(queue) \cup InFlight
      /\ sent \cap dropped = {}
      /\ (Nos(queue) \cup InFlight) \cap (sent \cup dropped) = {}
      /\ Once(queue) /\ Nos(queue) \cap InFlight = {}
  BY AccountedIs DEF Inv
<1>3. 1..Len(log') = (1..Len(log)) \cup {Len(log) + 1} /\ Len(log) + 1 \notin 1..Len(log)
  BY <1>1
<1>4. InFlight' = InFlight
  BY <1>0 DEF InFlight
<1>5. Accounted'
  <2>1. /\ 1..Len(log') = sent' \cup dropped' \cup Nos(queue') \cup InFlight'
        /\ sent' \cap dropped' = {}
        /\ (Nos(queue') \cup InFlight') \cap (sent' \cup dropped') = {}
        /\ Nos(queue') \cap InFlight' = {}
    BY <1>0, <1>1, <1>2, <1>3, <1>4
  <2> QED BY <1>1, <2>1, AccountedIs DEF Accounted, Nos, InFlight, Once, Held
<1>6. TypeOK'
  <2>1. dropped' \subseteq 1..Len(log') /\ sent' \subseteq 1..Len(log')
    BY <1>0, <1>1, <1>2, <1>3
  <2> QED BY <1>0, <1>1, <2>1 DEF Inv, TypeOK, Messages
<1>7. Bounded'
  <2>1. Len(queue) \in Nat /\ MaxBuffer \in Nat
    BY PublisherAssumption DEF Inv, TypeOK
  <2> QED BY <1>0, <1>1, <2>1 DEF Inv, Bounded
<1>8. WireLogged'
  BY <1>0, <1>3 DEF Inv, WireLogged
<1>9. ReplyMeans' /\ SentIsHandled'
  <2>1. reply # None => flight.no \in 1..Len(log)
    BY <1>2 DEF Inv, TypeOK, InFlight
  <2>2. sent \subseteq 1..Len(log)
    BY <1>2
  <2>3. reply \in {"ok", "conflict"} => reply # None
    BY PublisherAssumption
  <2> QED BY <1>0, <1>1, <2>1, <2>2, <2>3 DEF Inv, ReplyMeans, SentIsHandled
<1> QED BY <1>5, <1>6, <1>7, <1>8, <1>9 DEF Inv

LEMMA SubmitKeeps == ASSUME Inv, Submit \/ Stop PROVE Inv'
<1>1. Len(log) \in Nat /\ MaxSubmissions \in Nat
  BY PublisherAssumption DEF Inv, TypeOK
<1>2. Len(log) < MaxSubmissions => NewId \in 1..MaxSubmissions
  BY <1>1 DEF NewId
<1>3. Len(log) < MaxSubmissions /\ Repeats => Len(log) \in 1..MaxSubmissions
  BY <1>1 DEF Repeats, Inv, TypeOK
<1>4. \A kind \in Kinds, id \in Nat : Enqueue(kind, id) => Len(log) < MaxSubmissions
  BY DEF Enqueue
<1>5. "raw" \in Kinds /\ "heartbeat" \in Kinds /\ NewId \in Nat
  BY <1>1 DEF Kinds, NewId
<1>6. CASE Stop
  BY <1>2, <1>4, <1>5, <1>6, SubmissionKeeps DEF Stop
<1>7. CASE Submit
  <2>1. UNCHANGED <<transport, flight, reply, sent, worker, closing, backend>>
        /\ main' \in {"running", "draining", "joining", "closed", "exited"}
    BY <1>7 DEF Submit
  <2>2. CASE \E kind \in Kinds : Enqueue(kind, NewId)
    BY <1>2, <1>4, <1>5, <2>1, <2>2, SubmissionKeeps
  <2>3. CASE Repeats /\ Enqueue("raw", Len(log))
    BY <1>1, <1>3, <1>4, <1>5, <2>1, <2>3, SubmissionKeeps
  <2> QED BY <1>7, <2>2, <2>3 DEF Submit
<1> QED BY <1>6, <1>7

LEMMA CloseKeeps == ASSUME Inv, Close PROVE Inv'
<1>1. /\ 1..Len(log) = sent \cup dropped \cup Nos(queue) \cup InFlight
      /\ sent \cap dropped = {}
      /\ (Nos(queue) \cup InFlight) \cap (sent \cup dropped) = {}
      /\ Once(queue) /\ Nos(queue) \cap InFlight = {}
  BY AccountedIs DEF Inv
<1>2. /\ queue' = <<>> /\ dropped' = dropped \cup Nos(queue) /\ closing' = TRUE
      /\ main' = "joining"
      /\ UNCHANGED <<transport, log, flight, reply, sent, worker, wire, refusing, stored>>
  BY DEF Close, Nos, backend
<1>3. Nos(<<>>) = {} /\ Once(<<>>) /\ <<>> \in Seq(QueueItems) /\ Len(<<>>) = 0
  BY DEF Nos, Once
<1>4. InFlight' = InFlight
  BY <1>2 DEF InFlight
<1>5. Accounted'
  <2>1. /\ 1..Len(log') = sent' \cup dropped' \cup Nos(queue') \cup InFlight'
        /\ sent' \cap dropped' = {}
        /\ (Nos(queue') \cup InFlight') \cap (sent' \cup dropped') = {}
        /\ Once(queue') /\ Nos(queue') \cap InFlight' = {}
    BY <1>1, <1>2, <1>3, <1>4
  <2> QED BY <2>1, AccountedIs DEF Accounted, Nos, InFlight, Once, Held
<1>6. TypeOK'
  BY <1>1, <1>2, <1>3 DEF Inv, TypeOK
<1>7. Bounded'
  <2>1. Len(queue) \in Nat /\ MaxBuffer \in Nat
    BY PublisherAssumption DEF Inv, TypeOK
  <2> QED BY <1>2, <1>3, <2>1 DEF Inv, Bounded
<1>8. WireLogged' /\ ReplyMeans' /\ SentIsHandled'
  BY <1>2 DEF Inv, WireLogged, ReplyMeans, SentIsHandled
<1> QED BY <1>5, <1>6, <1>7, <1>8 DEF Inv

LEMMA TakeKeeps == ASSUME Inv, Take PROVE Inv'
<1>1. /\ 1..Len(log) = sent \cup dropped \cup Nos(queue) \cup InFlight
      /\ sent \cap dropped = {}
      /\ (Nos(queue) \cup InFlight) \cap (sent \cup dropped) = {}
      /\ Once(queue) /\ Nos(queue) \cap InFlight = {}
  BY AccountedIs DEF Inv
<1>2. PICK k \in 1..Len(queue) : /\ flight' = Attempt(queue[k].no, queue[k].attempts)
                                 /\ queue' = Removed(queue, k)
  BY DEF Take, Without, Removed
<1>3. /\ flight = None /\ reply = None /\ wire' = wire \cup {flight'}
      /\ UNCHANGED <<transport, log, reply, sent, dropped, main, worker, closing,
                     refusing, stored>>
  BY DEF Take, Inv, TypeOK, books
<1>4. queue \in Seq(QueueItems) /\ Len(queue) \in Nat /\ MaxBuffer \in Nat \ {0}
      /\ queue[k] \in QueueItems
  BY PublisherAssumption DEF Inv, TypeOK
<1>5. flight' \in Flights /\ flight'.no = queue[k].no /\ flight' # None
  BY <1>2, <1>4, PublisherAssumption DEF Attempt, QueueItems, Flights, Attempts
<1>6. /\ queue' \in Seq(QueueItems) /\ Len(queue') = Len(queue) - 1
      /\ Nos(queue) = Nos(queue') \cup {queue[k].no}
      /\ Once(queue') /\ queue[k].no \notin Nos(queue')
  BY <1>1, <1>2, <1>4, RemovedItem
<1>7. InFlight = {} /\ InFlight' = {queue[k].no}
  BY <1>3, <1>5 DEF InFlight
<1>8. Accounted'
  <2>1. /\ 1..Len(log') = sent' \cup dropped' \cup Nos(queue') \cup InFlight'
        /\ sent' \cap dropped' = {}
        /\ (Nos(queue') \cup InFlight') \cap (sent' \cup dropped') = {}
        /\ Nos(queue') \cap InFlight' = {}
    BY <1>1, <1>3, <1>6, <1>7
  <2> QED BY <1>6, <2>1, AccountedIs DEF Accounted, Nos, InFlight, Once, Held
<1>9. TypeOK'
  BY <1>3, <1>5, <1>6 DEF Inv, TypeOK
<1>10. Bounded'
  BY <1>3, <1>4, <1>5, <1>6 DEF Inv, Bounded
<1>11. WireLogged'
  BY <1>1, <1>3, <1>5, <1>6 DEF Inv, WireLogged
<1>12. ReplyMeans' /\ SentIsHandled'
  <2>1. reply' \notin {"ok", "conflict"}
    BY <1>3, PublisherAssumption
  <2> QED BY <1>3, <2>1 DEF Inv, ReplyMeans, SentIsHandled
<1> QED BY <1>8, <1>9, <1>10, <1>11, <1>12 DEF Inv

(* Steps that leave the buffer and the books alone.                        *)
LEMMA BooksKept ==
    ASSUME Inv, UNCHANGED <<log, queue, flight, sent, dropped>>
    PROVE  Accounted' /\ Bounded'
BY DEF Inv, Accounted, Bounded, Held

LEMMA TurnAwayKeeps ==
    ASSUME Inv, TurnAway, reply' \in {"ok", "error"}, reply' = "ok" => transport = "mqtt",
           flight # None,
           UNCHANGED <<transport, log, queue, flight, sent, dropped, main, worker,
                       closing, refusing, stored>>
    PROVE  Inv'
<1>1. wire' \subseteq wire
  BY DEF TurnAway
<1>2. TypeOK'
  BY <1>1 DEF Inv, TypeOK, Answers
<1>3. WireLogged' /\ ReplyMeans' /\ SentIsHandled'
  BY <1>1 DEF Inv, WireLogged, ReplyMeans, SentIsHandled
<1> QED BY <1>2, <1>3, BooksKept DEF Inv

LEMMA HandleKeeps == ASSUME Inv, NEW a \in wire, Handle(a) PROVE Inv'
<1>1. /\ wire' \subseteq wire
      /\ UNCHANGED <<transport, log, queue, flight, sent, dropped, main, worker, closing, refusing>>
  BY DEF Handle, books
<1>2. log \in Seq(Messages) /\ a.no \in 1..Len(log) /\ log[a.no].id \in 1..MaxSubmissions
  <2>1. log \in Seq(Messages) /\ a.no \in 1..Len(log)
    BY DEF Inv, TypeOK, WireLogged, Messages
  <2>2. log[a.no] \in Messages
    BY <2>1
  <2> QED BY <2>1, <2>2 DEF Messages
<1>3. PICK outcome \in Outcomes(log[a.no].id) :
         stored' = outcome.stored /\ Answered(a, outcome.answer)
  BY DEF Handle
<1>4. /\ outcome.answer \in Answers /\ stored \subseteq outcome.stored
      /\ outcome.stored \subseteq 1..MaxSubmissions
      /\ outcome.answer \in {"ok", "conflict"} => log[a.no].id \in outcome.stored \/ refusing
  <2>1. CASE log[a.no].id \in stored \/ refusing
    <3>1. outcome = [answer |-> "conflict", stored |-> stored]
      BY <1>3, <2>1 DEF Outcomes
    <3>2. outcome.answer = "conflict" /\ outcome.stored = stored
      BY <3>1
    <3> QED BY <2>1, <3>2 DEF Answers, Inv, TypeOK
  <2>2. CASE log[a.no].id \notin stored /\ ~refusing
    <3>1. \/ outcome = [answer |-> "ok", stored |-> stored \cup {log[a.no].id}]
          \/ outcome \in [answer: {"invalid", "error"},
                          stored: {stored, stored \cup {log[a.no].id}}]
      BY <1>3, <2>2 DEF Outcomes
    <3> QED BY <1>2, <3>1 DEF Answers, Inv, TypeOK
  <2> QED BY <2>1, <2>2
<1>5. reply' = reply \/ (reply' = outcome.answer /\ a = flight)
  BY <1>3 DEF Answered
<1>6. a \in Flights /\ a # None
  BY PublisherAssumption DEF Inv, TypeOK, Flights, Attempts
<1>7. TypeOK'
  BY <1>1, <1>3, <1>4, <1>5, <1>6 DEF Inv, TypeOK
<1>8. WireLogged' /\ ReplyMeans' /\ SentIsHandled'
  BY <1>1, <1>3, <1>4, <1>5 DEF Inv, WireLogged, ReplyMeans, SentIsHandled
<1> QED BY <1>1, <1>7, <1>8, BooksKept DEF Inv

(* The attempt is over: where its number went.                             *)
LEMMA FinishKeeps == ASSUME Inv, Finish PROVE Inv'
<1>1. /\ 1..Len(log) = sent \cup dropped \cup Nos(queue) \cup InFlight
      /\ sent \cap dropped = {}
      /\ (Nos(queue) \cup InFlight) \cap (sent \cup dropped) = {}
      /\ Once(queue) /\ Nos(queue) \cap InFlight = {}
  BY AccountedIs DEF Inv
<1>2. /\ UNCHANGED <<transport, log, main, worker, closing, wire, refusing, stored>>
      /\ flight # None /\ reply # None /\ flight' = None /\ reply' = None
      /\ InFlight = {flight.no} /\ InFlight' = {}
  BY DEF Finish, Succeed, Reject, Retry, Done, backend, InFlight
<1>3. queue \in Seq(QueueItems) /\ Len(queue) \in Nat /\ MaxBuffer \in Nat /\ flight \in Flights
      /\ Len(queue) <= MaxBuffer
  BY <1>2, PublisherAssumption DEF Inv, TypeOK, Bounded
<1>4. WireLogged' /\ ReplyMeans'
  <2>1. reply' \notin {"ok", "conflict"}
    BY <1>2, PublisherAssumption
  <2> QED BY <1>2, <2>1 DEF Inv, WireLogged, ReplyMeans
<1>5. CASE Succeed
  <2>1. sent' = sent \cup {flight.no} /\ UNCHANGED <<queue, dropped>> /\ reply \in {"ok", "conflict"}
    BY <1>5 DEF Succeed, Succeeds
  <2>2. /\ 1..Len(log') = sent' \cup dropped' \cup Nos(queue') \cup InFlight'
        /\ sent' \cap dropped' = {}
        /\ (Nos(queue') \cup InFlight') \cap (sent' \cup dropped') = {}
        /\ Once(queue') /\ Nos(queue') \cap InFlight' = {}
    BY <1>1, <1>2, <2>1 DEF Nos, Once
  <2>3. Accounted'
    BY <2>2, AccountedIs DEF Accounted, Nos, InFlight, Once, Held
  <2>4. TypeOK'
    BY <1>1, <1>2, <2>1, <2>2 DEF Inv, TypeOK
  <2>5. Bounded'
    BY <1>2, <1>3, <2>1 DEF Bounded
  <2>6. SentIsHandled'
    BY <1>2, <2>1 DEF Inv, SentIsHandled, ReplyMeans
  <2> QED BY <1>4, <2>3, <2>4, <2>5, <2>6 DEF Inv
<1>6. CASE Reject
  <2>1. dropped' = dropped \cup {flight.no} /\ UNCHANGED <<queue, sent>>
    BY <1>6 DEF Reject
  <2>2. /\ 1..Len(log') = sent' \cup dropped' \cup Nos(queue') \cup InFlight'
        /\ sent' \cap dropped' = {}
        /\ (Nos(queue') \cup InFlight') \cap (sent' \cup dropped') = {}
        /\ Once(queue') /\ Nos(queue') \cap InFlight' = {}
    BY <1>1, <1>2, <2>1 DEF Nos, Once
  <2>3. Accounted'
    BY <2>2, AccountedIs DEF Accounted, Nos, InFlight, Once, Held
  <2>4. TypeOK'
    BY <1>1, <1>2, <2>1, <2>2 DEF Inv, TypeOK
  <2>5. Bounded'
    BY <1>2, <1>3, <2>1 DEF Bounded
  <2>6. SentIsHandled'
    BY <1>2, <2>1 DEF Inv, SentIsHandled
  <2> QED BY <1>4, <2>3, <2>4, <2>5, <2>6 DEF Inv
<1>7. CASE Retry
  <2> DEFINE x == Item(flight.no, flight.attempts + 1, FALSE)
  <2>1. queue' = Append(queue, x) /\ UNCHANGED <<sent, dropped>>
        /\ ~Exhausted(flight.attempts + 1)
    BY <1>7 DEF Retry
  <2>2. x \in QueueItems /\ x.no = flight.no
    <3>1. flight.no \in Nat \ {0} /\ flight.attempts \in Nat
      BY <1>3 DEF Flights, Attempts
    <3>2. flight.attempts + 1 \in Attempts
      BY <2>1, <3>1, PublisherAssumption DEF Exhausted, Attempts
    <3> QED BY <3>1, <3>2 DEF Item, QueueItems
  <2> HIDE DEF x
  <2>3. /\ queue' \in Seq(QueueItems) /\ Len(queue') = Len(queue) + 1
        /\ Nos(queue') = Nos(queue) \cup {flight.no} /\ Once(queue')
    BY <1>1, <1>2, <1>3, <2>1, <2>2, AppendedItem
  <2>4. /\ 1..Len(log') = sent' \cup dropped' \cup Nos(queue') \cup InFlight'
        /\ sent' \cap dropped' = {}
        /\ (Nos(queue') \cup InFlight') \cap (sent' \cup dropped') = {}
        /\ Once(queue') /\ Nos(queue') \cap InFlight' = {}
    BY <1>1, <1>2, <2>1, <2>3
  <2>5. Accounted'
    BY <2>4, AccountedIs DEF Accounted, Nos, InFlight, Once, Held
  <2>6. TypeOK'
    BY <1>1, <1>2, <2>1, <2>3 DEF Inv, TypeOK
  <2>7. Bounded'
    BY <1>2, <1>3, <2>3 DEF Bounded
  <2>8. SentIsHandled'
    BY <1>2, <2>1 DEF Inv, SentIsHandled
  <2> QED BY <1>4, <2>5, <2>6, <2>7, <2>8 DEF Inv
<1> QED BY <1>5, <1>6, <1>7 DEF Finish

LEMMA RipenKeeps == ASSUME Inv, Ripen PROVE Inv'
<1>1. PICK k \in 1..Len(queue) : queue' = [queue EXCEPT ![k].due = TRUE]
  BY DEF Ripen
<1>2. queue \in Seq(QueueItems)
  BY DEF Inv, TypeOK
<1>3. queue' \in Seq(QueueItems) /\ Len(queue') = Len(queue)
      /\ Nos(queue') = Nos(queue) /\ (Once(queue) => Once(queue'))
  BY <1>1, <1>2, RipenedItem
<1>4. UNCHANGED <<transport, log, flight, reply, sent, dropped, main, worker, closing,
                  wire, refusing, stored>>
  BY DEF Ripen, books, backend
<1>5. Accounted'
  <2>1. InFlight' = InFlight
    BY <1>4 DEF InFlight
  <2>2. /\ 1..Len(log') = sent' \cup dropped' \cup Nos(queue') \cup InFlight'
        /\ sent' \cap dropped' = {}
        /\ (Nos(queue') \cup InFlight') \cap (sent' \cup dropped') = {}
        /\ Once(queue') /\ Nos(queue') \cap InFlight' = {}
    BY <1>3, <1>4, <2>1, AccountedIs DEF Inv
  <2> QED BY <2>2, AccountedIs DEF Accounted, Nos, InFlight, Once, Held
<1>6. TypeOK' /\ Bounded'
  BY <1>3, <1>4 DEF Inv, TypeOK, Bounded
<1>7. WireLogged' /\ ReplyMeans' /\ SentIsHandled'
  BY <1>4 DEF Inv, WireLogged, ReplyMeans, SentIsHandled
<1> QED BY <1>5, <1>6, <1>7 DEF Inv

LEMMA QuietKeeps ==
    ASSUME Inv, Join \/ Exit \/ WorkerEnds \/ Refuse \/ UNCHANGED vars
    PROVE  Inv'
<1>1. /\ UNCHANGED <<transport, log, queue, flight, reply, sent, dropped, wire, stored>>
      /\ (refusing => refusing') /\ refusing' \in BOOLEAN /\ closing' = closing
      /\ main' \in {main, "closed", "exited"} /\ worker' \in {worker, "ended"}
  BY DEF Join, Exit, WorkerEnds, Refuse, vars, books, buffers, backend, Inv, TypeOK
<1>2. TypeOK'
  BY <1>1 DEF Inv, TypeOK
<1>3. WireLogged' /\ ReplyMeans' /\ SentIsHandled'
  BY <1>1 DEF Inv, WireLogged, ReplyMeans, SentIsHandled
<1> QED BY <1>1, <1>2, <1>3, BooksKept DEF Inv

LEMMA InvStep == Inv /\ [Next]_vars => Inv'
<1> SUFFICES ASSUME Inv, [Next]_vars PROVE Inv'
  OBVIOUS
<1>1. CASE Submit \/ Stop
  BY <1>1, SubmitKeeps
<1>2. CASE Close
  BY <1>2, CloseKeeps
<1>3. CASE Take
  BY <1>3, TakeKeeps
<1>4. CASE TimeOut \/ Acknowledge
  <2>1. flight # None
    BY <1>4, PublisherAssumption DEF TimeOut, Acknowledge, Inv, TypeOK, Flights, Attempts
  <2>2. /\ TurnAway /\ reply' \in {"ok", "error"} /\ (reply' = "ok" => transport = "mqtt")
        /\ UNCHANGED <<transport, log, queue, flight, sent, dropped, main, worker,
                       closing, refusing, stored>>
    BY <1>4 DEF TimeOut, Acknowledge, books
  <2> QED BY <2>1, <2>2, TurnAwayKeeps
<1>5. CASE Finish
  BY <1>5, FinishKeeps
<1>6. CASE Ripen
  BY <1>6, RipenKeeps
<1>7. CASE \E a \in wire : Handle(a)
  BY <1>7, HandleKeeps
<1>8. CASE Join \/ Exit \/ WorkerEnds \/ Refuse \/ UNCHANGED vars
  BY <1>8, QuietKeeps
<1> QED BY <1>1, <1>2, <1>3, <1>4, <1>5, <1>6, <1>7, <1>8
        DEF Next, Worker, MainThread, Backend

LEMMA InvInit == Init => Inv
<1> SUFFICES ASSUME Init PROVE Inv
  OBVIOUS
<1>1. Len(<<>>) = 0 /\ 1..0 = {}
  OBVIOUS
<1>2. TypeOK
  <2>1. /\ log \in Seq(Messages) /\ queue \in Seq(QueueItems)
        /\ flight \in Flights \cup {None} /\ reply \in Answers \cup {None}
    BY DEF Init
  <2> QED BY <2>1 DEF Init, TypeOK, Messages
<1>3. Accounted
  BY <1>1 DEF Init, Accounted, Held
<1>4. Bounded
  BY <1>1, PublisherAssumption DEF Init, Bounded
<1>5. WireLogged /\ ReplyMeans /\ SentIsHandled
  BY PublisherAssumption DEF Init, WireLogged, ReplyMeans, SentIsHandled
<1> QED BY <1>2, <1>3, <1>4, <1>5 DEF Inv

-----------------------------------------------------------------------------
(* The strengthened invariant holds in every reachable state.              *)
LEMMA InvHolds == Spec => []Inv
BY InvInit, InvStep, PTL DEF Spec

(* TypeCorrect: the publisher's state keeps its types, whatever it is      *)
(* given and however the backend answers.                                  *)
THEOREM TypeCorrect == Spec => []TypeOK
BY InvHolds, PTL DEF Inv

(* NothingIsLost: every submission is sent, dropped or held, in exactly    *)
(* one of these places and there once, for every interleaving of _submit,  *)
(* _run and close and every fate of a request.                             *)
THEOREM NothingIsLost == Spec => []Accounted
BY InvHolds, PTL DEF Inv

(* BufferBounded: although retries ignore the limit of the buffer, buffer  *)
(* and worker never hold more than max_buffer + 1 items.                   *)
THEOREM BufferBounded == Spec => []Bounded
BY InvHolds, PTL DEF Inv

(* SentWasHandled: a message counted as sent over HTTP is stored, or the   *)
(* backend refuses messages; no timeout, retry or late answer is taken for *)
(* a delivery.                                                             *)
THEOREM SentWasHandled == Spec => []SentIsHandled
BY InvHolds, PTL DEF Inv

-----------------------------------------------------------------------------
(* The publisher implements the ledger: what is pending there is what the  *)
(* buffer and the worker hold here.                                        *)
LEMMA PendingIsHeld ==
    ASSUME Inv PROVE Ledger!Pending = Nos(queue) \cup InFlight
BY AccountedIs DEF Inv, Ledger!Pending

LEMMA EnqueueIsSubmit ==
    ASSUME Inv, NEW kind \in Kinds, NEW id \in 1..MaxSubmissions, Enqueue(kind, id), UNCHANGED sent
    PROVE  Ledger!Submit
<1>1. Len(log') = Len(log) + 1 /\ Lost \subseteq Nos(queue) /\ dropped' = dropped \cup Lost
  BY Enqueues
<1>2. Lost = {} \/ \E n \in Lost : Lost = {n}
  BY DEF Lost
<1>3. Lost \subseteq Ledger!Pending
  BY <1>1, PendingIsHeld
<1>4. UNCHANGED dropped \/ \E n \in Ledger!Pending : dropped' = dropped \cup {n}
  BY <1>1, <1>2, <1>3
<1> QED BY <1>1, <1>4 DEF Ledger!Submit

LEMMA LedgerStep ==
    ASSUME Inv, [Next]_vars
    PROVE  Ledger!Next \/ UNCHANGED <<Len(log), sent, dropped>>
<1>1. CASE Submit \/ Stop
  <2>1. Len(log) \in Nat /\ MaxSubmissions \in Nat
    BY PublisherAssumption DEF Inv, TypeOK
  <2>2. \E kind \in Kinds, id \in 1..MaxSubmissions : Enqueue(kind, id)
    <3>1. Len(log) < MaxSubmissions => NewId \in 1..MaxSubmissions
      BY <2>1 DEF NewId
    <3>2. Len(log) < MaxSubmissions /\ Repeats => Len(log) \in 1..MaxSubmissions
      BY <2>1 DEF Repeats, Inv, TypeOK
    <3>3. \A kind \in Kinds, id \in Nat : Enqueue(kind, id) => Len(log) < MaxSubmissions
      BY DEF Enqueue
    <3>4. "raw" \in Kinds /\ "heartbeat" \in Kinds /\ NewId \in Nat
      BY <2>1 DEF Kinds, NewId
    <3>5. \/ \E kind \in Kinds : Enqueue(kind, NewId)
          \/ Repeats /\ Enqueue("raw", Len(log))
      BY <1>1, <3>4 DEF Submit, Stop
    <3> QED BY <2>1, <3>1, <3>2, <3>3, <3>4, <3>5
  <2>3. UNCHANGED sent
    BY <1>1 DEF Submit, Stop
  <2> QED BY <2>2, <2>3, EnqueueIsSubmit DEF Ledger!Next
<1>2. CASE Close
  <2>1. dropped' = dropped \cup Nos(queue) /\ UNCHANGED <<log, sent>>
    BY <1>2 DEF Close, Nos
  <2>2. Nos(queue) \in SUBSET Ledger!Pending
    BY PendingIsHeld
  <2>3. Ledger!GiveUp
    BY <2>1, <2>2 DEF Ledger!GiveUp
  <2> QED BY <2>3 DEF Ledger!Next
<1>3. CASE Finish
  <2>1. flight.no \in Ledger!Pending /\ UNCHANGED log
    BY <1>3, PendingIsHeld DEF Finish, InFlight
  <2>2. CASE Succeed
    BY <2>1, <2>2 DEF Succeed, Ledger!Deliver, Ledger!Next
  <2>3. CASE Reject
    <3>1. dropped' = dropped \cup {flight.no} /\ UNCHANGED sent
      BY <2>3 DEF Reject
    <3>2. {flight.no} \in SUBSET Ledger!Pending
      BY <2>1
    <3>3. Ledger!GiveUp
      BY <2>1, <3>1, <3>2 DEF Ledger!GiveUp
    <3> QED BY <3>3 DEF Ledger!Next
  <2>4. CASE Retry
    BY <2>1, <2>4 DEF Retry
  <2> QED BY <1>3, <2>2, <2>3, <2>4 DEF Finish
<1>4. CASE Take \/ TimeOut \/ Acknowledge \/ Ripen \/ \E a \in wire : Handle(a)
  <2>1. UNCHANGED <<log, sent, dropped>>
    BY <1>4 DEF Take, TimeOut, Acknowledge, Ripen, Handle, books
  <2> QED BY <2>1
<1>5. CASE Join \/ Exit \/ WorkerEnds \/ Refuse \/ UNCHANGED vars
  <2>1. UNCHANGED <<log, sent, dropped>>
    BY <1>5 DEF Join, Exit, WorkerEnds, Refuse, vars, books
  <2> QED BY <2>1
<1> QED BY <1>1, <1>2, <1>3, <1>4, <1>5 DEF Next, Worker, MainThread, Backend

(* KeepsItsPromise: for any limits the publisher implements DeliveryLedger *)
(* -- a submission is settled once, and for good.                          *)
THEOREM KeepsItsPromise == Spec => ImplementsLedger
<1>1. Init => Ledger!Init
  BY DEF Init, Ledger!Init
<1>2. Inv /\ [Next]_vars => [Ledger!Next]_<<Len(log), sent, dropped>>
  BY LedgerStep
<1> QED BY <1>1, <1>2, InvHolds, PTL DEF Spec, ImplementsLedger, Ledger!Spec
=============================================================================
