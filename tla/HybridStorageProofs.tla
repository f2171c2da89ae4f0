------------------------ MODULE HybridStorageProofs ------------------------
(***************************************************************************)
(* The count behind join(), the mirroring of writes, the choice of a       *)
(* victim and the finality of delete(), for every set of keys, every queue *)
(* size and every number of writes.                                        *)
(***************************************************************************)
EXTENDS HybridStorage, SequenceTheorems, FiniteSetTheorems, WellFoundedInduction,
        TLAPS

----------------------------------------------------------------------------
(* The inductive invariant *)

\* The sentinel is in the queue only when close() has put it there, and then
\* alone: before that, close() has seen the queue joined.
SentinelAlone ==
    /\ phase # "stopping" => \A i \in 1..Len(queue) : queue[i] \in Write
    /\ phase = "stopping" =>
          /\ queue = <<>> \/ queue = <<Stop>>
          /\ writer \in {"get", "done"}

\* The writer holds a write exactly between taking it and being done with it,
\* and there is a writer from open() to close() unless delete() came between.
WriterBusy ==
    /\ inflight # None <=> writer \in {"apply", "sleep"}
    /\ writer = "done" => phase = "stopping"
    /\ writer = "sleep" => failed
    /\ writer = "off" => queue = <<>> /\ (phase = "closed" \/ purged)
    /\ phase = "closed" \/ purged => writer = "off"
    /\ phase \in {"open", "flushing"} => ~closing
    /\ phase = "stopping" => closing

\* Where the version that the local store has of a key is: the last of the
\* queued writes of the key, else the one in flight, else in the backend.
Mirrored(k) ==
    \/ \E i \in 1..Len(queue) :
          /\ queue[i] = [key |-> k, version |-> local[k]]
          /\ \A j \in 1..Len(queue) : i < j => queue[j].key # k
    \/ /\ \A j \in 1..Len(queue) : queue[j].key # k
       /\ inflight # None /\ inflight = [key |-> k, version |-> local[k]]
    \/ /\ \A j \in 1..Len(queue) : queue[j].key # k
       /\ inflight # None => inflight.key # k
       /\ backend[k] = local[k]

AllMirrored ==
    phase \in {"open", "flushing"} /\ ~purged /\ ~failed /\ lost = {} =>
        \A k \in Keys : Mirrored(k)

StorageInv ==
    /\ JoinExact
    /\ SentinelAlone
    /\ WriterBusy
    /\ PurgeFinal
    /\ AllMirrored

----------------------------------------------------------------------------
(* The queue *)

Item == Write \cup {Stop}

\* A set of numbers that is not empty has a least element.
LEMMA Least ==
    ASSUME NEW T \in SUBSET Nat, T # {}
    PROVE  \E x \in T : \A y \in T : x <= y
<1> DEFINE R == OpToRel(<, Nat)
<1>1. IsWellFoundedOn(R, Nat)
  BY NatLessThanWellFounded, Zenon
<1>2. \A x, y \in Nat : x < y => <<x, y>> \in R
  BY DEF OpToRel
<1> HIDE DEF R
<1>3. PICK x \in T : \A y \in T : ~(<<y, x>> \in R)
  BY <1>1, WFMin
<1>4. \A y \in T : ~(y < x)
  BY <1>2, <1>3
<1> QED BY <1>4

\* The victim of _make_room() is one of the queued writes, and one that may
\* not be dropped only if all are of that kind.
LEMMA VictimLemma ==
    ASSUME queue \in Seq(Item), queue # <<>>,
           \A i \in 1..Len(queue) : queue[i] \in Write
    PROVE  /\ Victim \in 1..Len(queue)
           /\ queue[Victim].key \in Durable =>
                 \A i \in 1..Len(queue) : queue[i].key \in Durable
<1> DEFINE spare == {i \in 1..Len(queue) : queue[i].key \in Cache}
<1>1. Len(queue) \in Nat /\ 1 <= Len(queue)
  BY EmptySeq
<1>2. \A i \in 1..Len(queue) : queue[i].key \in Durable \cup Cache
  BY DEF Write, Keys
<1>3. CASE spare = {}
  <2>1. Victim = 1
    BY <1>3 DEF Victim
  <2> QED BY <2>1, <1>1, <1>2, <1>3
<1>4. CASE spare # {}
  <2>1. spare \in SUBSET Nat
    BY <1>1
  <2>2. \E i \in spare : \A j \in spare : i <= j
    BY <2>1, <1>4, Least
  <2>3. Victim = CHOOSE i \in spare : \A j \in spare : i <= j
    BY <1>4 DEF Victim
  <2>4. Victim \in spare
    BY <2>2, <2>3
  <2> QED BY <2>4, StorageAssumption
<1> QED BY <1>3, <1>4

\* Taking one item out of the queue leaves the others.
LEMMA WithoutLemma ==
    ASSUME queue \in Seq(Item), NEW v \in 1..Len(queue)
    PROVE  /\ Without(v) \in Seq(Item)
           /\ Len(Without(v)) = Len(queue) - 1
           /\ \A j \in 1..Len(Without(v)) :
                 \E m \in 1..Len(queue) : Without(v)[j] = queue[m]
<1> DEFINE lo == SubSeq(queue, 1, v - 1)
           hi == SubSeq(queue, v + 1, Len(queue))
<1>1. Len(queue) \in Nat /\ v \in Nat /\ 1 <= v /\ v <= Len(queue)
  OBVIOUS
<1>2. \A i \in 1..Len(queue) : queue[i] \in Item
  BY ElementOfSeq
<1>3. /\ lo \in Seq(Item) /\ Len(lo) = v - 1
      /\ \A i \in 1..(v - 1) : lo[i] = queue[i]
  <2>1. \A i \in 1..(v - 1) : queue[i] \in Item
    BY <1>1, <1>2
  <2> QED BY <1>1, <2>1, SubSeqProperties
<1>4. /\ hi \in Seq(Item) /\ Len(hi) = Len(queue) - v
      /\ \A i \in 1..(Len(queue) - v) : hi[i] = queue[v + i]
  <2>1. \A i \in (v + 1)..Len(queue) : queue[i] \in Item
    BY <1>1, <1>2
  <2> QED BY <1>1, <2>1, SubSeqProperties
<1> HIDE DEF lo, hi
<1>5. /\ lo \o hi \in Seq(Item)
      /\ Len(lo \o hi) = Len(lo) + Len(hi)
      /\ \A i \in 1..Len(lo) + Len(hi) :
            (lo \o hi)[i] = IF i <= Len(lo) THEN lo[i] ELSE hi[i - Len(lo)]
  BY <1>3, <1>4, ConcatProperties
<1>6. Without(v) = lo \o hi
  BY DEF Without, lo, hi
<1>7. Len(Without(v)) = Len(queue) - 1
  BY <1>1, <1>3, <1>4, <1>5, <1>6
<1>8. ASSUME NEW j \in 1..Len(Without(v))
      PROVE  \E m \in 1..Len(queue) : Without(v)[j] = queue[m]
  <2>1. CASE j < v
    BY <2>1, <1>1, <1>3, <1>4, <1>5, <1>6, <1>7
  <2>2. CASE ~(j < v)
    <3>1. j - (v - 1) \in 1..(Len(queue) - v) /\ j + 1 \in 1..Len(queue)
      BY <2>2, <1>1, <1>7
    <3>2. Without(v)[j] = hi[j - (v - 1)]
      BY <2>2, <1>1, <1>3, <1>4, <1>5, <1>6, <1>7
    <3>3. hi[j - (v - 1)] = queue[v + (j - (v - 1))]
      BY <3>1, <1>4
    <3>4. v + (j - (v - 1)) = j + 1
      BY <1>1
    <3> QED BY <3>1, <3>2, <3>3, <3>4
  <2> QED BY <2>1, <2>2
<1> QED BY <1>5, <1>6, <1>7, <1>8

----------------------------------------------------------------------------
(* One lemma per action *)

LEMMA InitInv == Init => StorageInv
<1> SUFFICES ASSUME Init PROVE StorageInv
  OBVIOUS
<1>1. queue \in Seq(Item) /\ Len(queue) = 0
  BY EmptySeq DEF Init
<1>a. 0 \in 0..MaxWrites /\ 0 <= QueueMax
  BY StorageAssumption
<1>b. local \in [Keys -> 0..MaxWrites] /\ backend \in [Keys -> 0..MaxWrites]
  BY <1>a DEF Init
<1>2. TypeOK
  BY <1>1, <1>a, <1>b DEF Init, TypeOK, Item
<1> QED BY <1>1, <1>2 DEF Init, StorageInv, JoinExact, SentinelAlone, WriterBusy,
                    PurgeFinal, AllMirrored

LEMMA OpenInv ==
    ASSUME StorageInv, Open
    PROVE  StorageInv'
<1> USE DEF Open
<1>1. writer = "off" /\ queue = <<>> /\ inflight = None
  BY DEF StorageInv, WriterBusy
<1>2. JoinExact'
  BY DEF StorageInv, JoinExact, TypeOK
<1>3. SentinelAlone' /\ WriterBusy' /\ PurgeFinal'
  BY <1>1 DEF StorageInv, SentinelAlone, WriterBusy, PurgeFinal
<1>4. AllMirrored'
  <2> SUFFICES ASSUME NEW k \in Keys PROVE Mirrored(k)'
    BY DEF AllMirrored
  <2>1. queue' = <<>> /\ inflight' = None /\ backend'[k] = local'[k]
    BY <1>1
  <2> QED BY <2>1 DEF Mirrored
<1> QED BY <1>2, <1>3, <1>4 DEF StorageInv

\* A write is queued, or not accepted any more, or takes the place of a
\* victim, which counts as lost.
LEMMA UpdateInv ==
    ASSUME StorageInv, NEW k \in Keys, Update(k)
    PROVE  StorageInv'
<1> DEFINE w == [key |-> k, version |-> writes + 1]
<1> USE DEF Update
<1>1. /\ w \in Write /\ w # Stop /\ w # None
      /\ w.key = k /\ w.version = writes + 1
      /\ writes + 1 \in 0..MaxWrites
  BY StorageAssumption DEF StorageInv, JoinExact, TypeOK, Write
<1>2. /\ queue \in Seq(Item) /\ Len(queue) \in Nat /\ Len(queue) <= QueueMax
      /\ unfinished \in Nat /\ dropped \in Nat
      /\ unfinished = Len(queue) + (IF inflight # None THEN 1 ELSE 0)
  BY DEF StorageInv, JoinExact, TypeOK, Item
<1>3. /\ local' \in [Keys -> 0..MaxWrites]
      /\ local'[k] = writes + 1
      /\ \A x \in Keys \ {k} : local'[x] = local[x]
  BY <1>1 DEF StorageInv, JoinExact, TypeOK
<1>4. writer # "off"
  BY DEF StorageInv, WriterBusy
<1>a. Enqueue(w)
  OBVIOUS
<1> HIDE DEF w
<1>5. CASE closing
  <2>1. UNCHANGED <<queue, unfinished, dropped, lost>>
    BY <1>5, <1>a DEF Enqueue
  <2>2. phase' = "stopping"
    BY <1>5 DEF StorageInv, WriterBusy, JoinExact, TypeOK
  <2>3. JoinExact'
    BY <1>1, <1>3, <2>1 DEF StorageInv, JoinExact, TypeOK
  <2>4. SentinelAlone' /\ WriterBusy' /\ PurgeFinal'
    BY <2>1 DEF StorageInv, SentinelAlone, WriterBusy, PurgeFinal
  <2>5. AllMirrored'
    BY <2>2 DEF AllMirrored
  <2> QED BY <2>3, <2>4, <2>5 DEF StorageInv
<1>6. CASE ~closing
  <2>1. phase \in {"open", "flushing"}
    BY <1>6 DEF StorageInv, WriterBusy, JoinExact, TypeOK
  <2>2. \A i \in 1..Len(queue) : queue[i] \in Write
    BY <2>1 DEF StorageInv, SentinelAlone
  <2>3. CASE Len(queue) < QueueMax
    <3>1. /\ queue' = Append(queue, w) /\ unfinished' = unfinished + 1
          /\ UNCHANGED <<dropped, lost>>
      BY <1>6, <2>3, <1>a DEF Enqueue
    <3>2. /\ queue' \in Seq(Item) /\ Len(queue') = Len(queue) + 1
          /\ \A i \in 1..Len(queue) : queue'[i] = queue[i]
          /\ queue'[Len(queue) + 1] = w
      BY <3>1, <1>1, <1>2, AppendProperties DEF Item
    <3>3. JoinExact'
      <4>1. TypeOK'
        BY <1>1, <1>2, <1>3, <2>3, <3>1, <3>2, StorageAssumption
           DEF StorageInv, JoinExact, TypeOK, Item
      <4> QED BY <4>1, <1>2, <3>1, <3>2 DEF JoinExact
    <3>4. SentinelAlone'
      BY <1>1, <1>2, <2>1, <2>2, <3>2 DEF SentinelAlone
    <3>5. WriterBusy' /\ PurgeFinal'
      BY <1>4, <3>1 DEF StorageInv, WriterBusy, PurgeFinal
    <3>6. AllMirrored'
      <4> SUFFICES ASSUME ~failed, lost = {}, NEW x \in Keys
                   PROVE  Mirrored(x)'
        BY <3>1 DEF AllMirrored
      <4>1. CASE x = k
        <5>1. Len(queue) + 1 \in 1..Len(queue')
          BY <1>2, <3>2
        <5>2. queue'[Len(queue) + 1] = [key |-> x, version |-> local'[x]]
          BY <4>1, <3>2, <1>3 DEF w
        <5>3. \A j \in 1..Len(queue') : ~(Len(queue) + 1 < j)
          BY <1>2, <3>2
        <5> QED BY <5>1, <5>2, <5>3 DEF Mirrored
      <4>2. CASE x # k
        <5>1. Mirrored(x)
          BY <2>1 DEF StorageInv, AllMirrored
        <5>2. local'[x] = local[x] /\ inflight' = inflight /\ backend' = backend
          BY <4>2, <1>3
        <5>3. \A j \in 1..Len(queue') :
                 (j \in 1..Len(queue) /\ queue'[j] = queue[j]) \/ queue'[j].key # x
          BY <4>2, <3>2, <1>1, <1>2
        <5>4. 1..Len(queue) \subseteq 1..Len(queue')
          BY <1>2, <3>2
        <5> QED BY <5>1, <5>2, <5>3, <5>4, <3>2 DEF Mirrored
      <4> QED BY <4>1, <4>2
    <3> QED BY <3>3, <3>4, <3>5, <3>6 DEF StorageInv
  <2>4. CASE ~(Len(queue) < QueueMax)
    <3> DEFINE v == Victim
    <3>1. /\ queue' = Append(Without(v), w)
          /\ unfinished' = unfinished + (Len(queue) - 1) - Len(queue) + 1
          /\ dropped' = dropped + 1
          /\ lost' = lost \cup {queue[v].key}
      BY <1>6, <2>4, <1>a DEF Enqueue, MakeRoom
    <3>2. Len(queue) = QueueMax /\ queue # <<>>
      BY <1>2, <2>4, StorageAssumption, EmptySeq
    <3>3. v \in 1..Len(queue)
      BY <1>2, <2>2, <3>2, VictimLemma
    <3> HIDE DEF v
    <3>4. /\ Without(v) \in Seq(Item) /\ Len(Without(v)) = Len(queue) - 1
          /\ \A j \in 1..Len(Without(v)) :
                \E m \in 1..Len(queue) : Without(v)[j] = queue[m]
      BY <1>2, <3>3, WithoutLemma
    <3>5. /\ queue' \in Seq(Item) /\ Len(queue') = Len(queue)
          /\ \A i \in 1..Len(queue) : queue'[i] \in Write
      <4> DEFINE q == Without(v)
      <4>1. /\ Append(q, w) \in Seq(Item) /\ Len(Append(q, w)) = Len(q) + 1
            /\ \A i \in 1..Len(q) : Append(q, w)[i] = q[i]
            /\ Append(q, w)[Len(q) + 1] = w
        BY <3>4, <1>1, AppendProperties DEF Item
      <4>2. \A i \in 1..Len(q) : q[i] \in Write
        BY <3>4, <2>2
      <4> HIDE DEF q
      <4>3. Len(queue') = Len(queue)
        BY <4>1, <3>1, <3>4, <1>2 DEF q
      <4>4. ASSUME NEW i \in 1..Len(queue)
            PROVE  queue'[i] \in Write
        <5>1. i \in 1..Len(q) \/ i = Len(q) + 1
          BY <3>4, <1>2 DEF q
        <5> QED BY <5>1, <4>1, <4>2, <3>1, <1>1 DEF q
      <4> QED BY <4>1, <4>3, <4>4, <3>1 DEF q
    <3>6. queue[v].key \in Keys
      BY <3>3, <2>2 DEF Write
    <3>7. lost' # {} /\ lost' \subseteq Keys
      BY <3>1, <3>6 DEF StorageInv, JoinExact, TypeOK
    <3>8. JoinExact'
      <4>1. TypeOK'
        BY <1>1, <1>2, <1>3, <3>1, <3>5, <3>7 DEF StorageInv, JoinExact, TypeOK, Item
      <4> QED BY <4>1, <1>2, <3>1, <3>5 DEF JoinExact
    <3>9. SentinelAlone'
      BY <2>1, <3>5 DEF SentinelAlone
    <3>10. WriterBusy' /\ PurgeFinal' /\ AllMirrored'
      BY <1>4, <3>7 DEF StorageInv, WriterBusy, PurgeFinal, AllMirrored
    <3> QED BY <3>8, <3>9, <3>10 DEF StorageInv
  <2> QED BY <2>3, <2>4
<1> QED BY <1>5, <1>6

\* The writer takes the oldest write, or the sentinel.
LEMMA TakeInv ==
    ASSUME StorageInv, Take
    PROVE  StorageInv'
<1> USE DEF Take, history
<1>1. /\ queue \in Seq(Item) /\ queue # <<>>
      /\ Len(queue) \in Nat /\ 1 <= Len(queue)
      /\ inflight = None
      /\ unfinished \in Nat /\ unfinished = Len(queue) /\ Len(queue) <= QueueMax
  BY EmptySeq DEF StorageInv, JoinExact, TypeOK, Item, WriterBusy
<1>2. /\ Head(queue) \in Item /\ Head(queue) = queue[1]
      /\ queue' \in Seq(Item) /\ Len(queue') = Len(queue) - 1
      /\ \A i \in 1..Len(queue') : queue'[i] = queue[i + 1]
  BY <1>1, HeadTailProperties
<1>3. phase # "closed" /\ ~purged
  BY DEF StorageInv, WriterBusy
<1>4. CASE Head(queue) = Stop
  <2>1. phase = "stopping" /\ queue = <<Stop>>
    BY <1>1, <1>2, <1>4, StorageAssumption DEF StorageInv, SentinelAlone
  <2>2. queue' = <<>> /\ Len(queue') = 0
    BY <2>1
  <2>3. /\ writer' = "done" /\ unfinished' = unfinished - 1 /\ inflight' = None
    BY <1>1, <1>4
  <2>a. unfinished' = 0
    BY <2>2, <2>3, <1>1, <1>2
  <2>4. TypeOK'
    BY <2>2, <2>3, <2>a, <1>2, StorageAssumption
       DEF StorageInv, JoinExact, TypeOK, Item
  <2>5. JoinExact'
    BY <2>2, <2>3, <2>4, <2>a DEF JoinExact
  <2>6. SentinelAlone' /\ WriterBusy' /\ PurgeFinal' /\ AllMirrored'
    BY <2>1, <2>2, <2>3, <1>3
       DEF StorageInv, SentinelAlone, WriterBusy, PurgeFinal, AllMirrored
  <2> QED BY <2>5, <2>6 DEF StorageInv
<1>5. CASE Head(queue) # Stop
  <2>1. /\ writer' = "apply" /\ inflight' = queue[1] /\ unfinished' = unfinished
        /\ inflight' \in Write /\ inflight' # None
    BY <1>2, <1>5, StorageAssumption DEF Item
  <2>2. phase # "stopping" /\ \A i \in 1..Len(queue) : queue[i] \in Write
    <3>1. phase # "stopping"
      BY <1>1, <1>2, <1>5 DEF StorageInv, SentinelAlone
    <3> QED BY <3>1 DEF StorageInv, SentinelAlone
  <2>3. \A i \in 1..Len(queue') : i + 1 \in 1..Len(queue)
    BY <1>1, <1>2
  <2>4. TypeOK'
    BY <2>1, <1>1, <1>2, StorageAssumption DEF StorageInv, JoinExact, TypeOK, Item
  <2>5. JoinExact'
    BY <2>1, <2>4, <1>1, <1>2 DEF JoinExact
  <2>6. SentinelAlone'
    BY <2>2, <2>3, <1>2 DEF SentinelAlone
  <2>7. WriterBusy' /\ PurgeFinal'
    BY <2>1, <1>3 DEF StorageInv, WriterBusy, PurgeFinal
  <2>8. AllMirrored'
    <3> SUFFICES ASSUME phase \in {"open", "flushing"}, ~failed, lost = {},
                        NEW x \in Keys
                 PROVE  Mirrored(x)'
      BY <1>3 DEF AllMirrored
    <3>1. Mirrored(x)
      BY <1>3 DEF StorageInv, AllMirrored
    <3>2. local' = local /\ backend' = backend
      OBVIOUS
    <3>3. ASSUME NEW i \in 1..Len(queue),
                 queue[i] = [key |-> x, version |-> local[x]],
                 \A j \in 1..Len(queue) : i < j => queue[j].key # x
          PROVE  Mirrored(x)'
      <4>1. CASE i = 1
        <5>1. \A j \in 1..Len(queue') : queue'[j].key # x
          BY <4>1, <3>3, <2>3, <1>2
        <5> QED BY <5>1, <4>1, <3>2, <3>3, <2>1 DEF Mirrored
      <4>2. CASE i > 1
        <5>1. i - 1 \in 1..Len(queue') /\ queue'[i - 1] = queue[i]
          BY <4>2, <1>1, <1>2
        <5>2. \A j \in 1..Len(queue') : i - 1 < j => queue'[j].key # x
          BY <3>3, <2>3, <1>1, <1>2
        <5> QED BY <5>1, <5>2, <3>2, <3>3 DEF Mirrored
      <4> QED BY <4>1, <4>2
    <3>4. CASE /\ \A j \in 1..Len(queue) : queue[j].key # x
               /\ backend[x] = local[x]
      <4>1. \A j \in 1..Len(queue') : queue'[j].key # x
        BY <3>4, <2>3, <1>2
      <4>2. inflight'.key # x
        BY <3>4, <2>1, <1>1
      <4> QED BY <4>1, <4>2, <3>2, <3>4 DEF Mirrored
    <3> QED BY <3>1, <3>3, <3>4, <1>1 DEF Mirrored
  <2> QED BY <2>5, <2>6, <2>7, <2>8 DEF StorageInv
<1> QED BY <1>4, <1>5

\* What the writer held is in the backend.
LEMMA ApplyOkInv ==
    ASSUME StorageInv, ApplyOk
    PROVE  StorageInv'
<1> USE DEF ApplyOk, history
<1>1. /\ inflight \in Write /\ inflight # None
      /\ inflight.key \in Keys /\ inflight.version \in 0..MaxWrites
      /\ inflight = [key |-> inflight.key, version |-> inflight.version]
  BY DEF StorageInv, JoinExact, TypeOK, WriterBusy, Write
<1>2. /\ unfinished \in Nat /\ unfinished = Len(queue) + 1 /\ Len(queue) \in Nat
  BY <1>1 DEF StorageInv, JoinExact, TypeOK
<1>3. /\ backend' \in [Keys -> 0..MaxWrites]
      /\ backend'[inflight.key] = inflight.version
      /\ \A x \in Keys \ {inflight.key} : backend'[x] = backend[x]
  BY <1>1 DEF StorageInv, JoinExact, TypeOK
<1>4. phase # "closed" /\ ~purged
  BY DEF StorageInv, WriterBusy
<1>5. TypeOK'
  BY <1>2, <1>3 DEF StorageInv, JoinExact, TypeOK
<1>6. JoinExact'
  BY <1>2, <1>5 DEF JoinExact
<1>7. SentinelAlone' /\ WriterBusy' /\ PurgeFinal'
  BY <1>4 DEF StorageInv, SentinelAlone, WriterBusy, PurgeFinal
<1>8. AllMirrored'
  <2> SUFFICES ASSUME phase \in {"open", "flushing"}, ~failed, lost = {},
                      NEW x \in Keys
               PROVE  Mirrored(x)'
    BY <1>4 DEF AllMirrored
  <2>1. Mirrored(x)
    BY <1>4 DEF StorageInv, AllMirrored
  <2>2. CASE inflight.key = x
    <3>1. CASE \A j \in 1..Len(queue) : queue[j].key # x
      <4>1. inflight.version = local[x]
        BY <2>1, <2>2, <3>1, <1>1 DEF Mirrored
      <4>2. backend'[x] = local'[x] /\ inflight' = None /\ queue' = queue
        BY <4>1, <2>2, <1>3
      <4> QED BY <3>1, <4>2 DEF Mirrored
    <3>2. CASE ~\A j \in 1..Len(queue) : queue[j].key # x
      <4>1. queue' = queue /\ local' = local
        OBVIOUS
      <4> QED BY <2>1, <3>2, <4>1 DEF Mirrored
    <3> QED BY <3>1, <3>2
  <2>3. CASE inflight.key # x
    <3>1. inflight # [key |-> x, version |-> local[x]] /\ backend'[x] = backend[x]
      BY <1>3, <2>3
    <3> QED BY <2>1, <2>3, <3>1 DEF Mirrored
  <2> QED BY <2>2, <2>3
<1> QED BY <1>6, <1>7, <1>8 DEF StorageInv

\* The backend fails the write.
LEMMA ApplyFailsInv ==
    ASSUME StorageInv, ApplyFails
    PROVE  StorageInv'
<1> USE DEF ApplyFails
<1>1. JoinExact' /\ PurgeFinal'
  BY DEF StorageInv, JoinExact, TypeOK, PurgeFinal
<1>2. SentinelAlone' /\ WriterBusy' /\ AllMirrored'
  BY DEF StorageInv, SentinelAlone, WriterBusy, AllMirrored
<1> QED BY <1>1, <1>2 DEF StorageInv

\* After its pause the writer queues the write again, or gives it up.
LEMMA RequeueInv ==
    ASSUME StorageInv, Requeue
    PROVE  StorageInv'
<1> USE DEF Requeue
<1>1. inflight \in Write /\ inflight # None /\ inflight.key \in Keys
  BY DEF StorageInv, JoinExact, TypeOK, WriterBusy, Write
<1>2. /\ queue \in Seq(Item) /\ Len(queue) \in Nat
      /\ unfinished \in Nat /\ unfinished = Len(queue) + 1
  BY <1>1 DEF StorageInv, JoinExact, TypeOK, Item
<1>3. phase \in {"open", "flushing"} /\ ~purged /\ failed
  BY DEF StorageInv, WriterBusy, SentinelAlone, JoinExact, TypeOK
<1>4. \A i \in 1..Len(queue) : queue[i] \in Write
  BY <1>3 DEF StorageInv, SentinelAlone
<1>5. CASE Len(queue) < QueueMax
  <2>1. queue' = Append(queue, inflight) /\ UNCHANGED <<unfinished, lost>>
    BY <1>5
  <2>2. /\ queue' \in Seq(Item) /\ Len(queue') = Len(queue) + 1
        /\ \A i \in 1..Len(queue) : queue'[i] = queue[i]
        /\ queue'[Len(queue) + 1] = inflight
    BY <2>1, <1>1, <1>2, AppendProperties DEF Item
  <2>3. TypeOK'
    BY <1>2, <1>5, <2>1, <2>2, StorageAssumption
       DEF StorageInv, JoinExact, TypeOK, Item
  <2>4. JoinExact'
    BY <2>1, <2>2, <2>3, <1>2 DEF JoinExact
  <2>5. SentinelAlone'
    BY <1>1, <1>2, <1>3, <1>4, <2>2 DEF SentinelAlone
  <2> QED BY <1>3, <2>1, <2>4, <2>5
             DEF StorageInv, WriterBusy, PurgeFinal, AllMirrored
<1>6. CASE ~(Len(queue) < QueueMax)
  <2>1. /\ queue' = queue /\ unfinished' = unfinished - 1
        /\ lost' = lost \cup {inflight.key}
    BY <1>6
  <2>2. TypeOK'
    BY <1>1, <1>2, <2>1 DEF StorageInv, JoinExact, TypeOK
  <2>3. JoinExact'
    BY <2>1, <2>2, <1>2 DEF JoinExact
  <2> QED BY <1>3, <1>4, <2>1, <2>3
             DEF StorageInv, SentinelAlone, WriterBusy, PurgeFinal, AllMirrored
<1> QED BY <1>5, <1>6

LEMMA CloseBeginInv ==
    ASSUME StorageInv, CloseBegin
    PROVE  StorageInv'
<1> USE DEF CloseBegin, history
<1>1. JoinExact' /\ PurgeFinal'
  BY DEF StorageInv, JoinExact, TypeOK, PurgeFinal
<1>2. SentinelAlone' /\ WriterBusy'
  BY DEF StorageInv, SentinelAlone, WriterBusy
<1>3. AllMirrored'
  BY DEF StorageInv, AllMirrored, Mirrored
<1> QED BY <1>1, <1>2, <1>3 DEF StorageInv

\* However much is left, giving it up leaves a storage that can be opened
\* again.
LEMMA GiveUpInv ==
    ASSUME StorageInv, GiveUp
    PROVE  StorageInv'
<1> USE DEF GiveUp, history
<1> DEFINE left == {i \in 1..Len(queue) : queue[i] # Stop}
<1>1. Cardinality(left) \in Nat
  <2>1. Len(queue) \in Nat
    BY DEF StorageInv, JoinExact, TypeOK
  <2>2. IsFiniteSet(1..Len(queue))
    BY <2>1, FS_Interval
  <2>3. IsFiniteSet(left)
    BY <2>2, FS_Subset
  <2> QED BY <2>3, FS_CardinalityType
<1>2. /\ writer' = "off" /\ queue' = <<>> /\ inflight' = None
      /\ unfinished' = 0 /\ phase' = "closed"
  BY DEF StorageInv, JoinExact, WriterBusy
<1>3. dropped' \in Nat
  <2>1. CASE writer = "off"
    BY <2>1 DEF StorageInv, JoinExact, TypeOK
  <2>2. CASE writer # "off"
    <3>1. dropped' = dropped + (IF inflight # None THEN 1 ELSE 0) + Cardinality(left)
      BY <2>2
    <3>2. dropped \in Nat
      BY DEF StorageInv, JoinExact, TypeOK
    <3> HIDE DEF left
    <3> QED BY <1>1, <3>1, <3>2
  <2> QED BY <2>1, <2>2
<1>4. TypeOK'
  BY <1>2, <1>3, StorageAssumption DEF StorageInv, JoinExact, TypeOK
<1>5. JoinExact'
  BY <1>2, <1>4 DEF JoinExact
<1>6. SentinelAlone' /\ WriterBusy' /\ PurgeFinal' /\ AllMirrored'
  BY <1>2 DEF StorageInv, SentinelAlone, WriterBusy, PurgeFinal, AllMirrored
<1> QED BY <1>5, <1>6 DEF StorageInv

\* The sentinel goes into a queue that has been seen empty.
LEMMA FlushDoneInv ==
    ASSUME StorageInv, FlushDone
    PROVE  StorageInv'
<1>1. CASE writer = "off"
  BY <1>1, GiveUpInv DEF FlushDone
<1>2. CASE writer # "off"
  <2>1. /\ queue \in Seq(Item) /\ Len(queue) \in Nat /\ Len(queue) = 0
        /\ inflight = None /\ unfinished = 0
    BY DEF StorageInv, JoinExact, TypeOK, Item, FlushDone
  <2>2. queue = <<>>
    BY <2>1, EmptySeq
  <2>3. /\ phase' = "stopping" /\ closing' = TRUE
        /\ queue' = <<Stop>> /\ unfinished' = 1
        /\ UNCHANGED <<local, backend, writer, inflight, dropped, writes, lost, failed,
                       purged>>
    BY <1>2, <2>1, <2>2 DEF FlushDone, history
  <2>4. queue' \in Seq(Item) /\ Len(queue') = 1
    BY <2>3 DEF Item
  <2>5. writer = "get" /\ ~purged
    BY <1>2, <2>1 DEF StorageInv, WriterBusy, JoinExact, TypeOK, FlushDone
  <2>6. TypeOK'
    BY <2>3, <2>4, StorageAssumption DEF StorageInv, JoinExact, TypeOK, Item
  <2>7. JoinExact'
    BY <2>1, <2>3, <2>4, <2>6 DEF JoinExact
  <2>8. SentinelAlone'
    BY <2>3, <2>5 DEF SentinelAlone
  <2>9. WriterBusy' /\ PurgeFinal' /\ AllMirrored'
    BY <2>3, <2>5, <2>1 DEF StorageInv, WriterBusy, PurgeFinal, AllMirrored
  <2> QED BY <2>7, <2>8, <2>9 DEF StorageInv
<1> QED BY <1>1, <1>2

\* delete() leaves nothing that could be written.
LEMMA DeleteInv ==
    ASSUME StorageInv, Delete
    PROVE  StorageInv'
<1> USE DEF Delete
<1>1. queue' = <<>> /\ inflight' = None /\ Len(queue') = 0
  OBVIOUS
<1>2. TypeOK'
  BY <1>1, StorageAssumption DEF StorageInv, JoinExact, TypeOK
<1>3. JoinExact'
  BY <1>1, <1>2 DEF JoinExact
<1>4. SentinelAlone' /\ WriterBusy' /\ PurgeFinal' /\ AllMirrored'
  BY <1>1 DEF StorageInv, SentinelAlone, WriterBusy, PurgeFinal, AllMirrored
<1> QED BY <1>3, <1>4 DEF StorageInv

----------------------------------------------------------------------------
(* The theorems *)

\* Whatever open(), writes, backend failures, close() and delete() do in
\* whatever order, StorageInv holds.
THEOREM StorageInvariant == Spec => []StorageInv
<1>1. StorageInv /\ [Next]_vars => StorageInv'
  <2> SUFFICES ASSUME StorageInv, [Next]_vars PROVE StorageInv'
    OBVIOUS
  <2>1. CASE UNCHANGED vars
    BY <2>1 DEF vars, StorageInv, JoinExact, TypeOK, SentinelAlone, WriterBusy,
                PurgeFinal, AllMirrored, Mirrored
  <2>2. ASSUME NEW k \in Keys, Update(k) PROVE StorageInv'
    BY <2>2, UpdateInv
  <2>3. CASE FlushTimeout
    BY <2>3, GiveUpInv DEF FlushTimeout
  <2>4. CASE Stopped
    BY <2>4, GiveUpInv DEF Stopped
  <2> QED BY <2>1, <2>2, <2>3, <2>4, OpenInv, TakeInv, ApplyOkInv, ApplyFailsInv,
             RequeueInv, CloseBeginInv, FlushDoneInv, DeleteInv DEF Next
<1> QED BY <1>1, InitInv, PTL DEF Spec

\* JoinExact of the run hybrid_storage: flush() waits for exactly the writes
\* that are queued or in flight, for every queue size.
THEOREM JoinExactTheorem == Spec => []JoinExact
<1>1. StorageInv => JoinExact
  BY DEF StorageInv
<1> QED BY <1>1, StorageInvariant, PTL

\* MirroredIfUndisturbed of the run hybrid_storage: when nothing failed and
\* nothing was discarded, an idle writer means that the backend is up to date.
THEOREM MirroredTheorem == Spec => []MirroredIfUndisturbed
<1>1. StorageInv => MirroredIfUndisturbed
  <2> SUFFICES ASSUME StorageInv, Idle, ~failed, lost = {}
               PROVE  backend = local
    BY DEF MirroredIfUndisturbed
  <2>1. ~purged /\ phase = "open" /\ queue = <<>> /\ inflight = None
    BY DEF StorageInv, WriterBusy, Idle
  <2>2. \A k \in Keys : Mirrored(k)
    BY <2>1 DEF StorageInv, AllMirrored
  <2>3. \A k \in Keys : backend[k] = local[k]
    BY <2>1, <2>2 DEF Mirrored
  <2> QED BY <2>3 DEF StorageInv, JoinExact, TypeOK
<1> QED BY <1>1, StorageInvariant, PTL

\* PurgeFinal of the run hybrid_storage: no write that was queued, in flight
\* or waiting for its retry puts a deleted session back.
THEOREM PurgeFinalTheorem == Spec => []PurgeFinal
<1>1. StorageInv => PurgeFinal
  BY DEF StorageInv
<1> QED BY <1>1, StorageInvariant, PTL

\* DurableLast of the run hybrid_storage: _make_room() gives up a durable
\* write only if nothing but durable writes is queued.
THEOREM DurableLastTheorem == Spec => DurableLast
<1> DEFINE Kept == \A k \in Durable : k \in lost' \ lost /\ dropped' # dropped =>
                      \A i \in 1..Len(queue) : queue[i].key \in Durable
<1>1. StorageInv /\ [Next]_vars => [Kept]_vars
  <2> SUFFICES ASSUME StorageInv, Next,
                      NEW k \in Durable, k \in lost' \ lost, dropped' # dropped
               PROVE  \A i \in 1..Len(queue) : queue[i].key \in Durable
    OBVIOUS
  <2>1. PICK x \in Keys : Update(x)
    <3>1. lost' # lost /\ dropped' # dropped
      OBVIOUS
    <3> QED BY <3>1 DEF Next, Open, Take, ApplyOk, ApplyFails, Requeue, CloseBegin,
                       FlushDone, FlushTimeout, Stopped, GiveUp, Delete, history
  <2> DEFINE w == [key |-> x, version |-> writes + 1]
  <2>2. Enqueue(w) /\ ~closing /\ phase # "closed"
    BY <2>1 DEF Update, Enqueue
  <2> HIDE DEF w
  <2>3. MakeRoom(w) /\ ~(Len(queue) < QueueMax)
    BY <2>2 DEF Enqueue
  <2>4. queue[Victim].key = k
    BY <2>3 DEF MakeRoom
  <2>5. phase \in {"open", "flushing"}
    BY <2>2 DEF StorageInv, WriterBusy, JoinExact, TypeOK
  <2>6. \A i \in 1..Len(queue) : queue[i] \in Write
    BY <2>5 DEF StorageInv, SentinelAlone
  <2>7. queue \in Seq(Item) /\ queue # <<>>
    BY <2>3, StorageAssumption DEF StorageInv, JoinExact, TypeOK, Item
  <2> QED BY <2>4, <2>6, <2>7, VictimLemma
<1> QED BY <1>1, StorageInvariant, PTL DEF Spec, DurableLast

=============================================================================
