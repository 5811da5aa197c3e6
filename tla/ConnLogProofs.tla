---------------------------- MODULE ConnLogProofs ----------------------------
(***************************************************************************)
(* Proofs about ConnLog, for any number of viewers and events and every    *)
(* capacity, age limit and channel size.                                   *)
(***************************************************************************)
EXTENDS ConnLog, SequenceTheorems, WellFoundedInduction, TLAPS

-----------------------------------------------------------------------------
(***************************************************************************)
(* The inductive invariant.                                                *)
(***************************************************************************)
\* b is the tail of a log of n events and, unless the clock was set back, none of
\* it is from the future and it is chronological.
Ring(b, n) ==
    /\ Len(b) <= Cap /\ Len(b) <= n
    /\ \A i \in DOMAIN b : b[i].id = n - Len(b) + i /\ (backs = 0 => b[i].time <= now)
    /\ \A i, j \in DOMAIN b : i < j /\ backs = 0 => b[i].time <= b[j].time

RingInv == Ring(buf, seq)

\* A channel is registered while its handler streams, and is open then.
StreamInv ==
    /\ subs = {v \in Viewers : pc[v] = "stream"}
    /\ NoSendOnClosed

Increasing(s) == \A i, j \in DOMAIN s : i < j => s[i] < s[j]
UpTo(s, n) == \A i \in DOMAIN s : s[i] <= n

\* What a page has or will get was recorded, in this order.
OrderInv == \A v \in Viewers : Increasing(Received(v)) /\ UpTo(Received(v), seq)

IInv == TypeOK /\ RingInv /\ StreamInv /\ OrderInv

-----------------------------------------------------------------------------
(***************************************************************************)
(* Lemmas about the ring and about sequences.                              *)
(***************************************************************************)
\* A set of naturals that is not empty has a least element.
LEMMA MinExists ==
    ASSUME NEW S \in SUBSET Nat, S # {}
    PROVE  Min(S) \in S /\ \A y \in S : Min(S) <= y
<1>1. \E x \in S : \A y \in S : ~(<<y, x>> \in OpToRel(<, Nat))
  BY NatLessThanWellFounded, WFMin, Zenon
<1>2. PICK x \in S : \A y \in S : ~(<<y, x>> \in OpToRel(<, Nat))
  BY <1>1
<1>3. \A y \in S : x <= y
  <2> SUFFICES ASSUME NEW y \in S PROVE x <= y
    OBVIOUS
  <2>1. <<y, x>> \notin OpToRel(<, Nat)
    BY <1>2
  <2>2. ~(y < x)
    BY <2>1 DEF OpToRel
  <2> QED
    BY <2>2
<1> QED
  BY <1>3 DEF Min

\* pruneLocked returns the ring without its first k events, for some k.
LEMMA PruneDrops ==
    ASSUME NEW b \in Seq(Events)
    PROVE  /\ Prune(b) \in Seq(Events)
           /\ \E k \in 0..Len(b) : /\ Len(Prune(b)) = Len(b) - k
                                   /\ \A i \in 1..(Len(b) - k) : Prune(b)[i] = b[i + k]
<1> DEFINE fresh == {i \in DOMAIN b : b[i].time >= now - Ttl}
<1>1. DOMAIN b = 1..Len(b) /\ Len(b) \in Nat
  OBVIOUS
<1>2. CASE fresh = {}
  <2>1. Prune(b) = <<>>
    BY <1>2 DEF Prune
  <2>2. <<>> \in Seq(Events) /\ Len(<<>>) = 0
    OBVIOUS
  <2>3. Len(b) \in 0..Len(b)
    BY <1>1
  <2>4. /\ Len(Prune(b)) = Len(b) - Len(b)
        /\ \A i \in 1..(Len(b) - Len(b)) : Prune(b)[i] = b[i + Len(b)]
    BY <1>1, <2>1, <2>2
  <2> QED
    BY <2>1, <2>2, <2>3, <2>4
<1>3. CASE fresh # {}
  <2> DEFINE m == Min(fresh)
  <2>1. m \in 1..Len(b)
    <3>1. fresh \in SUBSET Nat
      BY <1>1
    <3>2. m \in fresh
      BY <1>3, <3>1, MinExists
    <3> QED
      BY <1>1, <3>2
  <2> HIDE DEF m
  <2>2. Prune(b) = SubSeq(b, m, Len(b))
    BY <1>3 DEF Prune, m
  <2>3. /\ SubSeq(b, m, Len(b)) \in Seq(Events)
        /\ Len(SubSeq(b, m, Len(b))) = Len(b) - m + 1
        /\ \A i \in 1..(Len(b) - m + 1) : SubSeq(b, m, Len(b))[i] = b[m + i - 1]
    BY <1>1, <2>1, SubSeqProperties
  <2>4. m - 1 \in 0..Len(b)
    BY <1>1, <2>1
  <2>5. /\ Len(Prune(b)) = Len(b) - (m - 1)
        /\ \A i \in 1..(Len(b) - (m - 1)) : Prune(b)[i] = b[i + (m - 1)]
    BY <1>1, <2>1, <2>2, <2>3
  <2> QED
    BY <2>2, <2>3, <2>4, <2>5
<1> QED
  BY <1>2, <1>3

\* The append of Record adds the event at the end, after dropping at most the oldest.
LEMMA PushDrops ==
    ASSUME NEW b \in Seq(Events), NEW e \in Events, Len(b) <= Cap
    PROVE  /\ Push(b, e) \in Seq(Events)
           /\ \E k \in 0..Len(b) :
                /\ Len(Push(b, e)) = Len(b) - k + 1 /\ Len(b) - k + 1 <= Cap
                /\ \A i \in 1..(Len(b) - k) : Push(b, e)[i] = b[i + k]
                /\ Push(b, e)[Len(b) - k + 1] = e
<1>1. Len(b) \in Nat /\ Cap \in Nat \ {0}
  BY ConnLogAssumption
<1>2. CASE Len(b) < Cap
  <2>1. Push(b, e) = Append(b, e)
    BY <1>2 DEF Push
  <2>2. /\ Append(b, e) \in Seq(Events) /\ Len(Append(b, e)) = Len(b) + 1
        /\ \A i \in 1..Len(b) : Append(b, e)[i] = b[i]
        /\ Append(b, e)[Len(b) + 1] = e
    BY AppendProperties
  <2>3. /\ 0 \in 0..Len(b)
        /\ Len(Push(b, e)) = Len(b) - 0 + 1 /\ Len(b) - 0 + 1 <= Cap
        /\ \A i \in 1..(Len(b) - 0) : Push(b, e)[i] = b[i + 0]
        /\ Push(b, e)[Len(b) - 0 + 1] = e
    BY <1>1, <1>2, <2>1, <2>2
  <2> QED
    BY <2>1, <2>2, <2>3
<1>3. CASE ~(Len(b) < Cap)
  <2> DEFINE t == Tail(b)
  <2>1. b # <<>> /\ Len(b) = Cap /\ Len(b) >= 1
    BY <1>1, <1>3
  <2>2. t \in Seq(Events) /\ Len(t) = Len(b) - 1 /\ \A i \in 1..Len(t) : t[i] = b[i + 1]
    BY <2>1, HeadTailProperties
  <2>3. Push(b, e) = Append(t, e)
    BY <1>3 DEF Push
  <2> HIDE DEF t
  <2>4. /\ Append(t, e) \in Seq(Events) /\ Len(Append(t, e)) = Len(t) + 1
        /\ \A i \in 1..Len(t) : Append(t, e)[i] = t[i]
        /\ Append(t, e)[Len(t) + 1] = e
    BY <2>2, AppendProperties
  <2>5. /\ 1 \in 0..Len(b)
        /\ Len(Push(b, e)) = Len(b) - 1 + 1 /\ Len(b) - 1 + 1 <= Cap
        /\ \A i \in 1..(Len(b) - 1) : Push(b, e)[i] = b[i + 1]
        /\ Push(b, e)[Len(b) - 1 + 1] = e
    BY <1>1, <2>1, <2>2, <2>3, <2>4
  <2> QED
    BY <2>3, <2>4, <2>5
<1> QED
  BY <1>2, <1>3

\* Appending a larger number keeps a sequence increasing.
LEMMA AppendIncreases ==
    ASSUME NEW s \in Seq(Nat), NEW n \in Nat, Increasing(s), UpTo(s, n)
    PROVE  Increasing(Append(s, n + 1)) /\ UpTo(Append(s, n + 1), n + 1)
<1>1. /\ DOMAIN Append(s, n + 1) = 1..(Len(s) + 1) /\ DOMAIN s = 1..Len(s) /\ Len(s) \in Nat
      /\ \A i \in 1..Len(s) : Append(s, n + 1)[i] = s[i] /\ s[i] \in Nat
      /\ Append(s, n + 1)[Len(s) + 1] = n + 1
  BY AppendProperties
<1>2. \A i \in 1..(Len(s) + 1) : i \in 1..Len(s) \/ i = Len(s) + 1
  BY <1>1
<1> HIDE DEF Increasing, UpTo
<1>3. \A i, j \in 1..Len(s) : i < j => s[i] < s[j]
  BY <1>1 DEF Increasing
<1>4. \A i \in 1..Len(s) : s[i] <= n
  BY <1>1 DEF UpTo
<1>5. UpTo(Append(s, n + 1), n + 1)
  BY <1>1, <1>2, <1>4 DEF UpTo
<1>6. Increasing(Append(s, n + 1))
  BY <1>1, <1>2, <1>3, <1>4 DEF Increasing
<1> QED
  BY <1>5, <1>6

\* Offering and delivering do not change the order of what is offered.
LEMMA ConcatAppend ==
    ASSUME NEW s \in Seq(Ids), NEW t \in Seq(Ids), NEW e \in Ids
    PROVE  s \o Append(t, e) = Append(s \o t, e)
<1>1. Append(t, e) = t \o <<e>> /\ Append(s \o t, e) = (s \o t) \o <<e>>
  BY AppendIsConcat, ConcatProperties
<1>2. <<e>> \in Seq(Ids)
  OBVIOUS
<1> QED
  BY <1>1, <1>2, ConcatAssociative

LEMMA MoveHead ==
    ASSUME NEW S, NEW s \in Seq(S), NEW t \in Seq(S), t # <<>>
    PROVE  Append(s, Head(t)) \o Tail(t) = s \o t
<1>1. /\ Head(t) \in S /\ Tail(t) \in Seq(S) /\ Len(Tail(t)) = Len(t) - 1
      /\ \A i \in 1..Len(Tail(t)) : Tail(t)[i] = t[i + 1]
  BY HeadTailProperties
<1>2. Len(s) \in Nat /\ Len(t) \in Nat /\ Len(t) >= 1
  OBVIOUS
<1> DEFINE a == Append(s, Head(t))
<1>3. /\ a \in Seq(S) /\ Len(a) = Len(s) + 1 /\ a[Len(s) + 1] = t[1]
      /\ \A i \in 1..Len(s) : a[i] = s[i]
  BY <1>1, AppendProperties
<1> HIDE DEF a
<1> DEFINE x == a \o Tail(t)  y == s \o t
<1>4. x \in Seq(S) /\ y \in Seq(S) /\ Len(x) = Len(y) /\ Len(y) = Len(s) + Len(t)
  <2>1. x \in Seq(S) /\ Len(x) = Len(a) + Len(Tail(t))
    BY <1>1, <1>3, ConcatProperties
  <2>2. y \in Seq(S) /\ Len(y) = Len(s) + Len(t)
    BY ConcatProperties
  <2> HIDE DEF x, y
  <2> QED
    BY <1>1, <1>2, <1>3, <2>1, <2>2
<1>5. \A i \in 1..Len(y) : x[i] = y[i]
  BY <1>1, <1>2, <1>3, ConcatProperties
<1> HIDE DEF x, y
<1>6. x = y
  BY <1>4, <1>5, SeqEqual
<1> QED
  BY <1>6 DEF x, y, a

LEMMA PrefixOfConcat ==
    ASSUME NEW s \in Seq(Ids), NEW t \in Seq(Ids)
    PROVE  DOMAIN s \subseteq DOMAIN (s \o t) /\ \A i \in DOMAIN s : (s \o t)[i] = s[i]
<1>1. DOMAIN s = 1..Len(s) /\ Len(s) \in Nat /\ Len(t) \in Nat
  OBVIOUS
<1> DEFINE r == s \o t
<1>2. /\ r \in Seq(Ids) /\ Len(r) = Len(s) + Len(t)
      /\ \A i \in 1..Len(r) : r[i] = IF i <= Len(s) THEN s[i] ELSE t[i - Len(s)]
  BY ConcatProperties, Zenon
<1> HIDE DEF r
<1>3. DOMAIN r = 1..Len(r)
  BY <1>2
<1>4. \A i \in 1..Len(s) : i \in 1..Len(r) /\ i <= Len(s)
  BY <1>1, <1>2
<1>5. DOMAIN s \subseteq DOMAIN r /\ \A i \in DOMAIN s : r[i] = s[i]
  BY <1>1, <1>2, <1>3, <1>4
<1> QED
  BY <1>5 DEF r

\* What a page receives is a sequence of ids.
LEMMA ReceivedType ==
    ASSUME TypeOK, NEW v \in Viewers
    PROVE  Received(v) \in Seq(Nat)
<1>1. shown[v] \in Seq(Nat) /\ chan[v] \in Seq(Nat)
  <2>1. shown[v] \in Seq(Ids) /\ chan[v] \in Seq(Ids)
    BY DEF TypeOK
  <2>2. Ids \subseteq Nat
    BY DEF Ids
  <2>3. Seq(Ids) \subseteq Seq(Nat)
    BY <2>2, SeqMonotonic, Zenon
  <2> QED
    BY <2>1, <2>3
<1> QED
  BY <1>1, ConcatProperties DEF Received

\* Pruning and recording keep the ring the tail of the log.
LEMMA PruneRing ==
    ASSUME TypeOK, NEW b \in Seq(Events), NEW n \in Nat, Ring(b, n)
    PROVE  Ring(Prune(b), n)
<1>1. PICK k \in 0..Len(b) : /\ Len(Prune(b)) = Len(b) - k
                             /\ \A i \in 1..(Len(b) - k) : Prune(b)[i] = b[i + k]
  BY PruneDrops
<1>2. /\ DOMAIN Prune(b) = 1..(Len(b) - k)
      /\ DOMAIN b = 1..Len(b) /\ Len(b) \in Nat
  <2>1. Prune(b) \in Seq(Events)
    BY PruneDrops
  <2> QED
    BY <1>1, <2>1
<1>3. \A i \in 1..(Len(b) - k) : i + k \in 1..Len(b)
  BY <1>2
<1>4. Len(Prune(b)) <= Cap /\ Len(Prune(b)) <= n
  BY <1>1, <1>2, ConnLogAssumption DEF Ring
<1>5. \A i \in 1..(Len(b) - k) :
        Prune(b)[i].id = n - Len(Prune(b)) + i /\ (backs = 0 => Prune(b)[i].time <= now)
  <2> SUFFICES ASSUME NEW i \in 1..(Len(b) - k)
               PROVE  /\ Prune(b)[i].id = n - Len(Prune(b)) + i
                      /\ (backs = 0 => Prune(b)[i].time <= now)
    OBVIOUS
  <2>1. b[i + k].id = n - Len(b) + (i + k) /\ (backs = 0 => b[i + k].time <= now)
    BY <1>2, <1>3 DEF Ring
  <2> QED
    BY <1>1, <1>2, <2>1
<1>6. \A i, j \in 1..(Len(b) - k) : i < j /\ backs = 0 => Prune(b)[i].time <= Prune(b)[j].time
  <2> SUFFICES ASSUME NEW i \in 1..(Len(b) - k), NEW j \in 1..(Len(b) - k), i < j, backs = 0
               PROVE  Prune(b)[i].time <= Prune(b)[j].time
    OBVIOUS
  <2>1. b[i + k].time <= b[j + k].time
    BY <1>2, <1>3 DEF Ring
  <2> QED
    BY <1>1, <2>1
<1> QED
  BY <1>2, <1>4, <1>5, <1>6 DEF Ring

LEMMA PushRing ==
    ASSUME TypeOK, NEW b \in Seq(Events), NEW n \in Nat, Ring(b, n),
           NEW e \in Events, e.id = n + 1, e.time = now
    PROVE  Push(b, e) \in Seq(Events) /\ Ring(Push(b, e), n + 1)
<1>0. Len(b) <= Cap
  BY DEF Ring
<1>1. PICK k \in 0..Len(b) :
        /\ Len(Push(b, e)) = Len(b) - k + 1 /\ Len(b) - k + 1 <= Cap
        /\ \A i \in 1..(Len(b) - k) : Push(b, e)[i] = b[i + k]
        /\ Push(b, e)[Len(b) - k + 1] = e
  BY <1>0, PushDrops
<1>2. /\ Push(b, e) \in Seq(Events) /\ DOMAIN Push(b, e) = 1..(Len(b) - k + 1)
      /\ DOMAIN b = 1..Len(b) /\ Len(b) \in Nat
  BY <1>0, <1>1, PushDrops
<1>3. \A i \in 1..(Len(b) - k + 1) : i \in 1..(Len(b) - k) \/ i = Len(b) - k + 1
  BY <1>2
<1>4. \A i \in 1..(Len(b) - k) : i + k \in 1..Len(b)
  BY <1>2
<1>5. Len(Push(b, e)) <= Cap /\ Len(Push(b, e)) <= n + 1
  BY <1>1, <1>2 DEF Ring
<1>6. now \in Nat
  BY ConnLogAssumption DEF TypeOK
<1>7. \A i \in 1..(Len(b) - k) :
        Push(b, e)[i].id = n + 1 - Len(Push(b, e)) + i /\ (backs = 0 => Push(b, e)[i].time <= now)
  <2> SUFFICES ASSUME NEW i \in 1..(Len(b) - k)
               PROVE  /\ Push(b, e)[i].id = n + 1 - Len(Push(b, e)) + i
                      /\ (backs = 0 => Push(b, e)[i].time <= now)
    OBVIOUS
  <2>1. b[i + k].id = n - Len(b) + (i + k) /\ (backs = 0 => b[i + k].time <= now)
    BY <1>2, <1>4 DEF Ring
  <2> QED
    BY <1>1, <1>2, <2>1
<1>8. \A i \in 1..(Len(b) - k + 1) :
        Push(b, e)[i].id = n + 1 - Len(Push(b, e)) + i /\ (backs = 0 => Push(b, e)[i].time <= now)
  <2> SUFFICES ASSUME NEW i \in 1..(Len(b) - k + 1)
               PROVE  /\ Push(b, e)[i].id = n + 1 - Len(Push(b, e)) + i
                      /\ (backs = 0 => Push(b, e)[i].time <= now)
    OBVIOUS
  <2>1. CASE i = Len(b) - k + 1
    BY <1>1, <1>2, <1>6, <2>1
  <2> QED
    BY <1>3, <1>7, <2>1
<1>9. \A i, j \in 1..(Len(b) - k + 1) :
        i < j /\ backs = 0 => Push(b, e)[i].time <= Push(b, e)[j].time
  <2> SUFFICES ASSUME NEW i \in 1..(Len(b) - k + 1), NEW j \in 1..(Len(b) - k + 1), i < j,
                      backs = 0
               PROVE  Push(b, e)[i].time <= Push(b, e)[j].time
    OBVIOUS
  <2>1. CASE j = Len(b) - k + 1
    BY <1>1, <1>8, <2>1
  <2>2. CASE j \in 1..(Len(b) - k)
    <3>1. i \in 1..(Len(b) - k)
      BY <1>2, <2>2
    <3>2. i + k \in DOMAIN b /\ j + k \in DOMAIN b
      BY <1>2, <1>4, <2>2, <3>1
    <3>3. i + k < j + k
      BY <1>2, <2>2, <3>1
    <3>4. \A x, y \in DOMAIN b : x < y => b[x].time <= b[y].time
      BY DEF Ring
    <3>5. b[i + k].time <= b[j + k].time
      BY <3>2, <3>3, <3>4
    <3> QED
      BY <1>1, <2>2, <3>1, <3>5
  <2> QED
    BY <1>3, <2>1, <2>2
<1>10. Ring(Push(b, e), n + 1)
  <2> DEFINE p == Push(b, e)
  <2>1. /\ DOMAIN p = 1..(Len(b) - k + 1) /\ Len(p) <= Cap /\ Len(p) <= n + 1
        /\ \A i \in 1..(Len(b) - k + 1) :
             p[i].id = n + 1 - Len(p) + i /\ (backs = 0 => p[i].time <= now)
        /\ \A i, j \in 1..(Len(b) - k + 1) : i < j /\ backs = 0 => p[i].time <= p[j].time
    BY <1>2, <1>5, <1>8, <1>9
  <2> HIDE DEF p
  <2>2. Ring(p, n + 1)
    <3>1. \A i \in DOMAIN p : p[i].id = n + 1 - Len(p) + i /\ (backs = 0 => p[i].time <= now)
      BY <2>1
    <3>2. \A i, j \in DOMAIN p : i < j /\ backs = 0 => p[i].time <= p[j].time
      BY <2>1
    <3> QED
      BY <2>1, <3>1, <3>2 DEF Ring
  <2> QED
    BY <2>2 DEF p
<1> QED
  BY <1>2, <1>10

-----------------------------------------------------------------------------
(***************************************************************************)
(* Every step keeps the invariant.                                         *)
(***************************************************************************)
\* Records, reads and time keep the ring the tail of the log.
LEMMA RingStep == TypeOK /\ RingInv /\ [Next]_vars => RingInv'
<1> SUFFICES ASSUME TypeOK, RingInv, [Next]_vars PROVE RingInv'
  OBVIOUS
<1> USE ConnLogAssumption DEF RingInv, stream, clock
<1>1. CASE Record
  <2> DEFINE e == [id |-> seq + 1, time |-> now]
  <2>0. Prune(buf) \in Seq(Events)
    BY PruneDrops DEF TypeOK
  <2>1. e \in Events /\ seq \in Nat
    BY <1>1 DEF Record, TypeOK, Events, Ids
  <2>2. Ring(Prune(buf), seq)
    BY <2>1, PruneRing DEF TypeOK
  <2>3. Ring(Push(Prune(buf), e), seq + 1)
    BY <2>0, <2>1, <2>2, PushRing
  <2>4. seq' = seq + 1 /\ UNCHANGED <<now, backs>> /\ buf' = Push(Prune(buf), e)
    BY <1>1 DEF Record
  <2> QED
    BY <2>3, <2>4 DEF Ring
<1>2. CASE Read
  <2>1. Ring(Prune(buf), seq)
    BY PruneRing DEF TypeOK
  <2>2. UNCHANGED <<seq, now, backs>> /\ buf' = Prune(buf)
    BY <1>2 DEF Read
  <2> QED
    BY <2>1, <2>2 DEF Ring
<1>3. CASE Tick
  <2>1. UNCHANGED <<seq, buf, backs>> /\ now' = now + 1 /\ now \in Nat
    BY <1>3 DEF Tick, TypeOK
  <2>2. \A i \in DOMAIN buf : buf[i].time \in Nat /\ (backs = 0 => buf[i].time <= now)
    <3>1. buf \in Seq(Events) /\ DOMAIN buf = 1..Len(buf)
      BY DEF TypeOK
    <3>2. \A i \in 1..Len(buf) : buf[i] \in Events
      BY <3>1, ElementOfSeq, Zenon
    <3>3. \A x \in Events : x.time \in Nat
      BY DEF Events
    <3>4. \A i \in DOMAIN buf : backs = 0 => buf[i].time <= now
      BY DEF Ring
    <3> QED
      BY <3>1, <3>2, <3>3, <3>4
  <2>3. \A i \in DOMAIN buf : backs = 0 => buf[i].time <= now + 1
    BY <2>1, <2>2
  <2> QED
    BY <2>1, <2>3 DEF Ring
<1>4. ASSUME NEW v \in Viewers, OpenStream(v) PROVE RingInv'
  <2>1. Ring(Prune(buf), seq)
    BY PruneRing DEF TypeOK
  <2>2. UNCHANGED <<seq, now, backs>> /\ buf' = Prune(buf)
    BY <1>4 DEF OpenStream
  <2> QED
    BY <2>1, <2>2 DEF Ring
<1>5. ASSUME NEW v \in Viewers, Subscribe(v) PROVE RingInv'
  BY <1>5 DEF Subscribe, Ring
<1>6. ASSUME NEW v \in Viewers, Deliver(v) PROVE RingInv'
  BY <1>6 DEF Deliver, Ring
<1>7. ASSUME NEW v \in Viewers, Leave(v) PROVE RingInv'
  BY <1>7 DEF Leave, Ring
<1>8. CASE UNCHANGED vars
  BY <1>8 DEF vars, Ring
<1>9. ASSUME NEW t \in 0..MaxTime, SetBack(t) PROVE RingInv'
  <2>1. UNCHANGED <<seq, buf>> /\ backs' # 0
    BY <1>9 DEF SetBack, TypeOK
  <2> QED
    BY <2>1 DEF Ring
<1> QED
  BY <1>1, <1>2, <1>3, <1>4, <1>5, <1>6, <1>7, <1>8, <1>9
  DEF Next

\* Every step keeps the types and the capacity of the channels.
LEMMA TypeStep == TypeOK /\ RingInv /\ [Next]_vars => TypeOK'
<1> SUFFICES ASSUME TypeOK, RingInv, [Next]_vars PROVE TypeOK'
  OBVIOUS
<1> USE ConnLogAssumption DEF TypeOK, stream, clock
<1>1. CASE Record
  <2>1. seq' \in 0..MaxEvents /\ seq' \in Ids /\ seq \in Nat
    BY <1>1 DEF Record, Ids
  <2>2. buf' \in Seq(Events)
    <3> DEFINE e == [id |-> seq', time |-> now]
    <3>1. e \in Events /\ e.id = seq + 1 /\ e.time = now
      BY <1>1, <2>1 DEF Record, Events
    <3>2. Prune(buf) \in Seq(Events) /\ Ring(Prune(buf), seq)
      BY <2>1, PruneDrops, PruneRing DEF RingInv
    <3> HIDE DEF e
    <3>3. Push(Prune(buf), e) \in Seq(Events)
      BY <2>1, <3>1, <3>2, PushRing
    <3> QED
      BY <1>1, <3>3 DEF Record, e
  <2>3. \A w \in Viewers : Offer(chan[w], seq') \in Seq(Ids) /\ Len(Offer(chan[w], seq')) <= ChanCap
    BY <2>1, AppendProperties DEF Offer
  <2>4. chan' \in [Viewers -> Seq(Ids)] /\ \A w \in Viewers : Len(chan'[w]) <= ChanCap
    BY <1>1, <2>3 DEF Record
  <2> QED
    BY <1>1, <2>1, <2>2, <2>4 DEF Record
<1>2. CASE Read
  BY <1>2, PruneDrops DEF Read
<1>3. CASE Tick
  BY <1>3 DEF Tick
<1>4. ASSUME NEW v \in Viewers, OpenStream(v) PROVE TypeOK'
  <2>1. buf' \in Seq(Events)
    BY <1>4, PruneDrops DEF OpenStream
  <2>2. [i \in DOMAIN buf' |-> buf'[i].id] \in Seq(Ids)
    <3>1. DOMAIN buf' = 1..Len(buf') /\ Len(buf') \in Nat
      BY <2>1
    <3>2. \A i \in 1..Len(buf') : buf'[i].id \in Ids
      <4>1. \A i \in 1..Len(buf') : buf'[i] \in Events
        BY <2>1, ElementOfSeq
      <4> QED
        BY <4>1 DEF Events
    <3> QED
      BY <3>1, <3>2, IsASeq
  <2> QED
    BY <1>4, <2>1, <2>2 DEF OpenStream
<1>5. ASSUME NEW v \in Viewers, Subscribe(v) PROVE TypeOK'
  <2>1. <<>> \in Seq(Ids) /\ Len(<<>>) = 0
    OBVIOUS
  <2> QED
    BY <1>5, <2>1 DEF Subscribe
<1>6. ASSUME NEW v \in Viewers, Deliver(v) PROVE TypeOK'
  <2>1. /\ Head(chan[v]) \in Ids /\ Tail(chan[v]) \in Seq(Ids)
        /\ Len(Tail(chan[v])) = Len(chan[v]) - 1
    BY <1>6, HeadTailProperties DEF Deliver
  <2>2. Append(shown[v], Head(chan[v])) \in Seq(Ids)
    BY <2>1, AppendProperties
  <2>3. chan' \in [Viewers -> Seq(Ids)] /\ shown' \in [Viewers -> Seq(Ids)]
    BY <1>6, <2>1, <2>2 DEF Deliver
  <2>4. \A w \in Viewers : Len(chan'[w]) <= ChanCap
    BY <1>6, <2>1 DEF Deliver
  <2> QED
    BY <1>6, <2>3, <2>4 DEF Deliver
<1>7. ASSUME NEW v \in Viewers, Leave(v) PROVE TypeOK'
  BY <1>7 DEF Leave
<1>8. CASE UNCHANGED vars
  BY <1>8 DEF vars
<1>9. ASSUME NEW t \in 0..MaxTime, SetBack(t) PROVE TypeOK'
  BY <1>9 DEF SetBack
<1> QED
  BY <1>1, <1>2, <1>3, <1>4, <1>5, <1>6, <1>7, <1>8, <1>9
  DEF Next

\* Registration and closing stay in step with the handlers.
LEMMA StreamStep == TypeOK /\ StreamInv /\ [Next]_vars => StreamInv'
<1> SUFFICES ASSUME TypeOK, StreamInv, [Next]_vars PROVE StreamInv'
  OBVIOUS
<1> USE DEF TypeOK, StreamInv, NoSendOnClosed, stream
<1>1. CASE Record
  BY <1>1 DEF Record
<1>2. CASE Read
  BY <1>2 DEF Read
<1>3. CASE Tick
  BY <1>3 DEF Tick
<1>4. ASSUME NEW v \in Viewers, OpenStream(v) PROVE StreamInv'
  BY <1>4 DEF OpenStream
<1>5. ASSUME NEW v \in Viewers, Subscribe(v) PROVE StreamInv'
  BY <1>5 DEF Subscribe
<1>6. ASSUME NEW v \in Viewers, Deliver(v) PROVE StreamInv'
  BY <1>6 DEF Deliver
<1>7. ASSUME NEW v \in Viewers, Leave(v) PROVE StreamInv'
  BY <1>7 DEF Leave
<1>8. CASE UNCHANGED vars
  BY <1>8 DEF vars
<1>9. ASSUME NEW t \in 0..MaxTime, SetBack(t) PROVE StreamInv'
  BY <1>9 DEF SetBack
<1> QED
  BY <1>1, <1>2, <1>3, <1>4, <1>5, <1>6, <1>7, <1>8, <1>9
  DEF Next

\* Snapshots, offers and deliveries keep what a page receives in order.
LEMMA OrderStep == TypeOK /\ RingInv /\ StreamInv /\ OrderInv /\ [Next]_vars => OrderInv'
<1> SUFFICES ASSUME TypeOK, RingInv, StreamInv, OrderInv, [Next]_vars PROVE OrderInv'
  OBVIOUS
<1> USE ConnLogAssumption DEF OrderInv
<1>1. CASE Record
  <2> SUFFICES ASSUME NEW w \in Viewers
               PROVE  Increasing(Received(w)') /\ UpTo(Received(w)', seq')
    BY DEF OrderInv
  <2>1. seq' = seq + 1 /\ UNCHANGED <<shown, pc>> /\ seq \in Nat
    BY <1>1 DEF Record, TypeOK
  <2>2. Received(w) \in Seq(Nat) /\ Increasing(Received(w)) /\ UpTo(Received(w), seq)
    BY ReceivedType DEF TypeOK
  <2>3. Received(w)' = Received(w) \/ Received(w)' = Append(Received(w), seq + 1)
    <3>1. CASE pc[w] = "stream"
      <4>1. w \in subs
        BY <3>1 DEF StreamInv
      <4>2. chan'[w] = chan[w] \/ chan'[w] = Append(chan[w], seq + 1)
        BY <1>1, <2>1, <4>1 DEF Record, Offer
      <4>3. shown[w] \o Append(chan[w], seq + 1) = Append(shown[w] \o chan[w], seq + 1)
        <5>1. seq + 1 \in Ids /\ shown[w] \in Seq(Ids) /\ chan[w] \in Seq(Ids)
          BY <1>1 DEF Record, TypeOK, Ids
        <5> QED
          BY <5>1, ConcatAppend
      <4> QED
        BY <2>1, <3>1, <4>2, <4>3 DEF Received
    <3>2. CASE pc[w] # "stream"
      BY <2>1, <3>2 DEF Received
    <3> QED
      BY <3>1, <3>2
  <2>4. UpTo(Received(w), seq + 1)
    BY <2>1, <2>2 DEF UpTo
  <2> QED
    BY <2>1, <2>2, <2>3, <2>4, AppendIncreases
<1>2. CASE Read
  <2>1. seq' = seq /\ \A w \in Viewers : Received(w)' = Received(w)
    BY <1>2 DEF Read, Received, stream
  <2> QED
    BY <2>1
<1>3. CASE Tick
  <2>1. seq' = seq /\ \A w \in Viewers : Received(w)' = Received(w)
    BY <1>3 DEF Tick, Received, stream
  <2> QED
    BY <2>1
<1>4. ASSUME NEW v \in Viewers, OpenStream(v) PROVE OrderInv'
  <2> SUFFICES ASSUME NEW w \in Viewers
               PROVE  Increasing(Received(w)') /\ UpTo(Received(w)', seq')
    BY DEF OrderInv
  <2>1. seq' = seq /\ chan' = chan
    BY <1>4 DEF OpenStream
  <2>2. CASE w # v
    <3>1. Received(w)' = Received(w)
      BY <1>4, <2>2 DEF OpenStream, Received, TypeOK
    <3> QED
      BY <2>1, <3>1
  <2>3. CASE w = v
    <3> DEFINE b == Prune(buf)
    <3>0. buf \in Seq(Events) /\ seq \in Nat
      BY DEF TypeOK
    <3>1. b \in Seq(Events) /\ Ring(b, seq) /\ seq \in Nat
      BY <3>0, PruneDrops, PruneRing DEF RingInv
    <3>2. Received(w)' = Received(w) \/ Received(w)' = [i \in DOMAIN b |-> b[i].id]
      <4>1. \/ UNCHANGED <<shown, pc>>
            \/ /\ shown' = [shown EXCEPT ![v] = [i \in DOMAIN b |-> b[i].id]]
               /\ pc' = [pc EXCEPT ![v] = "subscribe"]
        BY <1>4 DEF OpenStream
      <4>2. CASE UNCHANGED <<shown, pc>>
        BY <2>1, <4>2 DEF Received
      <4>3. CASE /\ shown' = [shown EXCEPT ![v] = [i \in DOMAIN b |-> b[i].id]]
                 /\ pc' = [pc EXCEPT ![v] = "subscribe"]
        <5>1. pc'[w] = "subscribe" /\ shown'[w] = [i \in DOMAIN b |-> b[i].id]
          BY <2>3, <4>3, Zenon DEF TypeOK
        <5> QED
          BY <5>1 DEF Received
      <4> QED
        BY <4>1, <4>2, <4>3
    <3> HIDE DEF b
    <3>3. DOMAIN b = 1..Len(b) /\ Len(b) \in Nat /\ \A i \in DOMAIN b : b[i].id = seq - Len(b) + i
      BY <3>1 DEF Ring
    <3> DEFINE r == [i \in DOMAIN b |-> b[i].id]
    <3>4. Increasing(r)
      BY <3>1, <3>3 DEF Increasing
    <3>5. UpTo(r, seq)
      BY <3>1, <3>3 DEF UpTo
    <3> QED
      BY <2>1, <3>2, <3>4, <3>5
  <2> QED
    BY <2>2, <2>3
<1>5. ASSUME NEW v \in Viewers, Subscribe(v) PROVE OrderInv'
  <2> SUFFICES ASSUME NEW w \in Viewers
               PROVE  Increasing(Received(w)') /\ UpTo(Received(w)', seq')
    BY DEF OrderInv
  <2>1. seq' = seq /\ shown' = shown
    BY <1>5 DEF Subscribe
  <2>2. CASE w # v
    <3>1. Received(w)' = Received(w)
      BY <1>5, <2>2 DEF Subscribe, Received, TypeOK
    <3> QED
      BY <2>1, <3>1
  <2>3. CASE w = v
    <3>1. Received(w) = shown[w] /\ Received(w)' = shown[w] \o <<>>
      BY <1>5, <2>1, <2>3 DEF Subscribe, Received, TypeOK
    <3>2. shown[w] \o <<>> = shown[w]
      BY ConcatEmptySeq DEF TypeOK
    <3> QED
      BY <2>1, <3>1, <3>2
  <2> QED
    BY <2>2, <2>3
<1>6. ASSUME NEW v \in Viewers, Deliver(v) PROVE OrderInv'
  <2> SUFFICES ASSUME NEW w \in Viewers
               PROVE  Increasing(Received(w)') /\ UpTo(Received(w)', seq')
    BY DEF OrderInv
  <2>1. seq' = seq /\ pc' = pc
    BY <1>6 DEF Deliver
  <2>2. CASE w # v
    <3>1. Received(w)' = Received(w)
      BY <1>6, <2>2 DEF Deliver, Received, TypeOK
    <3> QED
      BY <2>1, <3>1
  <2>3. CASE w = v
    <3>1. /\ shown[w] \in Seq(Ids) /\ chan[w] \in Seq(Ids) /\ chan[w] # <<>>
          /\ Received(w) = shown[w] \o chan[w]
          /\ Received(w)' = Append(shown[w], Head(chan[w])) \o Tail(chan[w])
      BY <1>6, <2>1, <2>3 DEF Deliver, Received, TypeOK
    <3>2. Received(w)' = Received(w)
      BY <3>1, MoveHead
    <3> QED
      BY <2>1, <3>2
  <2> QED
    BY <2>2, <2>3
<1>7. ASSUME NEW v \in Viewers, Leave(v) PROVE OrderInv'
  <2> SUFFICES ASSUME NEW w \in Viewers
               PROVE  Increasing(Received(w)') /\ UpTo(Received(w)', seq')
    BY DEF OrderInv
  <2>1. seq' = seq /\ shown' = shown /\ chan' = chan
    BY <1>7 DEF Leave
  <2>2. CASE w # v
    <3>1. Received(w)' = Received(w)
      BY <1>7, <2>2 DEF Leave, Received, TypeOK
    <3> QED
      BY <2>1, <3>1
  <2>3. CASE w = v
    <3>1. /\ shown[w] \in Seq(Ids) /\ chan[w] \in Seq(Ids)
          /\ Received(w) = shown[w] \o chan[w] /\ Received(w)' = shown[w]
      BY <1>7, <2>1, <2>3 DEF Leave, Received, TypeOK
    <3>2. /\ DOMAIN shown[w] \subseteq DOMAIN Received(w)
          /\ \A i \in DOMAIN shown[w] : Received(w)[i] = shown[w][i]
      <4>1. /\ DOMAIN shown[w] \subseteq DOMAIN (shown[w] \o chan[w])
            /\ \A i \in DOMAIN shown[w] : (shown[w] \o chan[w])[i] = shown[w][i]
        BY <3>1, PrefixOfConcat
      <4> QED
        BY <3>1, <4>1, Zenon
    <3> QED
      BY <2>1, <3>1, <3>2 DEF Increasing, UpTo
  <2> QED
    BY <2>2, <2>3
<1>8. CASE UNCHANGED vars
  <2>1. seq' = seq /\ \A w \in Viewers : Received(w)' = Received(w)
    BY <1>8 DEF vars, Received, stream
  <2> QED
    BY <2>1
<1>9. ASSUME NEW t \in 0..MaxTime, SetBack(t) PROVE OrderInv'
  <2>1. seq' = seq /\ \A w \in Viewers : Received(w)' = Received(w)
    BY <1>9 DEF SetBack, Received, stream
  <2> QED
    BY <2>1
<1> QED
  BY <1>1, <1>2, <1>3, <1>4, <1>5, <1>6, <1>7, <1>8, <1>9
  DEF Next

-----------------------------------------------------------------------------
\* The log starts empty.
LEMMA InitInv == Init => IInv
<1> SUFFICES ASSUME Init PROVE IInv
  OBVIOUS
<1> USE ConnLogAssumption DEF Init
<1>1. /\ <<>> \in Seq(Events) /\ <<>> \in Seq(Ids) /\ Len(<<>>) = 0 /\ DOMAIN <<>> = {}
  OBVIOUS
<1>2. TypeOK
  BY <1>1 DEF TypeOK
<1>3. RingInv
  BY <1>1 DEF RingInv, Ring
<1>4. StreamInv
  BY DEF StreamInv, NoSendOnClosed
<1>5. OrderInv
  BY <1>1 DEF OrderInv, Received, Increasing, UpTo
<1> QED
  BY <1>2, <1>3, <1>4, <1>5 DEF IInv

\* The invariant, for every behaviour.
LEMMA Invariance == Spec => []IInv
<1>1. IInv /\ [Next]_vars => IInv'
  BY TypeStep, RingStep, StreamStep, OrderStep DEF IInv
<1> QED
  BY InitInv, <1>1, PTL DEF Spec

\* The log is well typed, and no channel holds more than its buffer.
THEOREM TypeCorrect == Spec => []TypeOK
<1>1. IInv => TypeOK
  BY DEF IInv
<1> QED
  BY Invariance, <1>1, PTL

\* Whatever records, reads, expiry and changes of the clock interleave, the ring is
\* the tail of the log, and chronological as long as the clock was never set back,
\* for every capacity and age limit.
THEOREM RingIsTheTail == Spec => []RingIsTail
<1>1. IInv => RingIsTail
  BY DEF IInv, RingInv, Ring, RingIsTail
<1> QED
  BY Invariance, <1>1, PTL

\* No page is shown an event twice or out of order, for any number of pages that
\* come and go and any buffer size.
THEOREM PagesInOrder == Spec => []ShownInOrder
<1>1. IInv => ShownInOrder
  BY DEF IInv, OrderInv, Increasing, ShownInOrder
<1> QED
  BY Invariance, <1>1, PTL

\* Record never sends on a channel that unsubscribe has closed.
THEOREM NeverSendsOnClosed == Spec => []NoSendOnClosed
<1>1. IInv => NoSendOnClosed
  BY DEF IInv, StreamInv
<1> QED
  BY Invariance, <1>1, PTL

-----------------------------------------------------------------------------
(***************************************************************************)
(* The connection log is an EventLog.                                      *)
(***************************************************************************)
\* The oldest event that is remembered.
First == seq - Len(buf) + 1

\* The log starts empty.
LEMMA LogInit == Init => Abstract!EInit
  BY DEF Init, Abstract!EInit

\* pruneLocked moves the oldest event remembered forward, and leaves the ring the
\* tail of the log.
LEMMA PruneForgets ==
    ASSUME TypeOK, RingInv
    PROVE  /\ seq - Len(Prune(buf)) + 1 \in First..(seq + 1)
           /\ Prune(buf) \in Seq(Events) /\ Ring(Prune(buf), seq)
<1>1. buf \in Seq(Events) /\ seq \in Nat /\ Len(buf) \in Nat
  BY ConnLogAssumption DEF TypeOK
<1>2. PICK k \in 0..Len(buf) : Len(Prune(buf)) = Len(buf) - k
  BY <1>1, PruneDrops
<1>3. Prune(buf) \in Seq(Events) /\ Ring(Prune(buf), seq)
  BY <1>1, PruneDrops, PruneRing DEF RingInv
<1>4. seq - Len(Prune(buf)) + 1 \in First..(seq + 1)
  BY <1>1, <1>2 DEF First
<1> QED
  BY <1>3, <1>4

\* Every step of a connection, a reader or a stream is a step of EventLog.
LEMMA LogStep == IInv /\ [Next]_vars => [Abstract!ENext]_(Abstract!eVars)
<1> SUFFICES ASSUME IInv, [Next]_vars PROVE [Abstract!ENext]_(Abstract!eVars)
  OBVIOUS
<1> USE ConnLogAssumption
<1>0. /\ TypeOK /\ RingInv /\ StreamInv /\ OrderInv
      /\ seq \in Nat /\ buf \in Seq(Events) /\ Len(buf) \in Nat
  BY DEF IInv, TypeOK
<1>1. ASSUME Record PROVE Abstract!ERecord
  <2> DEFINE e == [id |-> seq + 1, time |-> now]
             b == Prune(buf)
  <2>1. seq' = seq + 1 /\ shown' = shown /\ buf' = Push(b, e)
    BY <1>1 DEF Record
  <2>2. e \in Events
    BY <1>0, <1>1 DEF Record, TypeOK, Events, Ids
  <2>3. b \in Seq(Events) /\ Ring(b, seq) /\ seq - Len(b) + 1 \in First..(seq + 1)
    BY <1>0, PruneForgets
  <2> HIDE DEF e, b
  <2>4. Len(b) <= Cap /\ Len(b) \in Nat
    BY <2>3 DEF Ring
  <2>5. PICK k \in 0..Len(b) : /\ Len(Push(b, e)) = Len(b) - k + 1
                               /\ Len(b) - k + 1 <= Cap
    BY <2>2, <2>3, <2>4, PushDrops
  <2>6. /\ First' \in First..seq'
        /\ seq' - First' < Cap
    BY <1>0, <2>1, <2>3, <2>4, <2>5 DEF First
  <2> QED
    BY <2>1, <2>6 DEF Abstract!ERecord, First
<1>2. ASSUME Read PROVE Abstract!EForget
  <2>1. seq' = seq /\ shown' = shown /\ buf' = Prune(buf)
    BY <1>2 DEF Read, stream
  <2>2. First' \in First..(seq + 1)
    BY <1>0, <2>1, PruneForgets DEF First
  <2> QED
    BY <2>1, <2>2 DEF Abstract!EForget, First
<1>3. ASSUME NEW v \in Viewers, OpenStream(v) PROVE Abstract!EOpen(v) \/ Abstract!EForget
  <2>1. /\ seq' = seq /\ buf' = Prune(buf)
        /\ \/ shown' = [shown EXCEPT ![v] = [i \in DOMAIN buf' |-> buf'[i].id]]
           \/ shown' = shown
    BY <1>3 DEF OpenStream
  <2>2. First' \in First..(seq + 1) /\ buf' \in Seq(Events) /\ Ring(buf', seq)
    BY <1>0, <2>1, PruneForgets DEF First
  <2>3. DOMAIN buf' = 1..Len(buf') /\ Len(buf') \in Nat
    BY <2>2
  <2>4. DOMAIN buf' = 1..(seq - First' + 1)
    BY <1>0, <2>1, <2>3 DEF First
  <2>5. \A i \in DOMAIN buf' : buf'[i].id = First' + i - 1
    <3>1. \A i \in DOMAIN buf' : buf'[i].id = seq - Len(buf') + i
      BY <2>2 DEF Ring
    <3> QED
      BY <1>0, <2>1, <2>3, <3>1 DEF First
  <2>6. [i \in DOMAIN buf' |-> buf'[i].id] = [i \in 1..(seq - First' + 1) |-> First' + i - 1]
    BY <2>4, <2>5
  <2> QED
    BY <2>1, <2>2, <2>6 DEF Abstract!EOpen, Abstract!EForget, First
<1>4. ASSUME NEW v \in Viewers, Deliver(v) PROVE \E id \in 1..seq : Abstract!EShow(v, id)
  <2> DEFINE id == Head(chan[v])
             r == shown[v] \o chan[v]
             n == Len(shown[v]) + 1
  <2>1. /\ shown[v] \in Seq(Ids) /\ chan[v] \in Seq(Ids) /\ chan[v] # <<>>
        /\ Received(v) = r
        /\ shown' = [shown EXCEPT ![v] = Append(@, id)] /\ UNCHANGED <<seq, buf>>
    BY <1>0, <1>4 DEF Deliver, Received, TypeOK
  <2>2. Len(shown[v]) \in Nat /\ Len(chan[v]) \in Nat /\ Len(chan[v]) >= 1 /\ id = chan[v][1]
    BY <2>1
  <2>3. /\ r \in Seq(Ids) /\ Len(r) = Len(shown[v]) + Len(chan[v])
        /\ \A i \in 1..Len(r) :
             r[i] = IF i <= Len(shown[v]) THEN shown[v][i] ELSE chan[v][i - Len(shown[v])]
    BY <2>1, ConcatProperties, Zenon
  <2>4. Increasing(r) /\ UpTo(r, seq)
    BY <1>0, <2>1 DEF OrderInv
  <2> HIDE DEF r
  <2>5. DOMAIN r = 1..Len(r) /\ DOMAIN shown[v] = 1..Len(shown[v])
    BY <2>1, <2>3
  <2> DEFINE s == Len(shown[v])
             c == Len(chan[v])
  <2>5a. s \in Nat /\ c \in Nat /\ c >= 1 /\ Len(r) = s + c
    BY <2>2, <2>3
  <2>5b. s + 1 \in 1..(s + c) /\ ~(s + 1 <= s) /\ (s + 1) - s = 1
    <3> HIDE DEF s, c
    <3> QED
      BY <2>5a
  <2>5c. \A i \in 1..s : i \in 1..(s + c) /\ i <= s /\ i < s + 1
    <3> HIDE DEF s, c
    <3> QED
      BY <2>5a
  <2>6. n \in 1..Len(r) /\ ~(n <= Len(shown[v])) /\ n - Len(shown[v]) = 1
    BY <2>5a, <2>5b, Zenon
  <2>7. r[n] = id
    BY <2>2, <2>3, <2>6
  <2>8. \A i \in 1..Len(shown[v]) : i \in 1..Len(r) /\ i <= Len(shown[v]) /\ i < n
    BY <2>5a, <2>5c, Zenon
  <2>9. \A i \in DOMAIN shown[v] : r[i] = shown[v][i]
    BY <2>3, <2>5, <2>8
  <2>10. \A i \in DOMAIN shown[v] : shown[v][i] < id
    BY <2>4, <2>5, <2>6, <2>7, <2>8, <2>9 DEF Increasing
  <2>11. id \in 1..seq
    <3>1. id \in Ids /\ id <= seq
      <4>1. id \in Ids
        BY <2>1, HeadTailProperties
      <4>2. id <= seq
        BY <2>4, <2>5, <2>6, <2>7 DEF UpTo
      <4> QED
        BY <4>1, <4>2
    <3> QED
      BY <1>0, <3>1 DEF Ids
  <2> HIDE DEF id
  <2>12. Abstract!EShow(v, id)
    BY <2>1, <2>10 DEF Abstract!EShow
  <2> QED
    BY <2>11, <2>12
<1>5. ASSUME NEW v \in Viewers, Subscribe(v) \/ Leave(v) PROVE UNCHANGED Abstract!eVars
  BY <1>5 DEF Subscribe, Leave, Abstract!eVars
<1>6. ASSUME Tick \/ UNCHANGED vars PROVE UNCHANGED Abstract!eVars
  BY <1>6 DEF Tick, vars, stream, Abstract!eVars
<1>7. ASSUME NEW t \in 0..MaxTime, SetBack(t) PROVE UNCHANGED Abstract!eVars
  BY <1>7 DEF SetBack, stream, Abstract!eVars
<1> QED
  BY <1>1, <1>2, <1>3, <1>4, <1>5, <1>6, <1>7 DEF Next, Abstract!ENext

\* In every behaviour, for every capacity, age limit and channel size, the ring and
\* its streams keep what EventLog promises a page.
THEOREM LogIsEventLog == Spec => IsEventLog
  BY LogInit, LogStep, Invariance, PTL DEF Spec, IsEventLog, Abstract!ESpec
=============================================================================
