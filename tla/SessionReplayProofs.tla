------------------------ MODULE SessionReplayProofs ------------------------
(***************************************************************************)
(* ReplayInv is inductive, for every window size and every set of ids.     *)
(***************************************************************************)
EXTENDS SessionReplay, SequenceTheorems, TLAPS

\* Message ids are integers.
LEMMA IdsAreInts == \A id \in MsgIds : id \in Int /\ 0 < id
  BY ReplayAssumption

\* Pruning keeps a sorted list sorted and above the new floor, loses no
\* delivered id, and never empties the list.
LEMMA PruneLemma ==
    ASSUME ReplayInv
    PROVE  /\ Window \in Seq(MsgIds)
           /\ Floor \in MsgIds \cup {0}
           /\ Len(Window) <= StoredMax
           /\ Window = <<>> => Floor = 0
           /\ \A i, j \in 1..Len(Window) : i < j => Window[i] < Window[j]
           /\ \A i \in 1..Len(Window) : Floor < Window[i]
           /\ \A id \in MsgIds : delivered[id] > 0 =>
                 \/ id <= Floor
                 \/ \E i \in 1..Len(Window) : Window[i] = id
<1> USE ReplayAssumption
<1>1. CASE ~Full
  BY <1>1 DEF ReplayInv, TypeOK, WindowSorted, FloorNeedsWindow,
              DeliveredRemembered, WindowBounded, Window, Floor, Full
<1>2. CASE Full
  <2>1. /\ Len(stored) \in Nat /\ StoredMax < Len(stored)
        /\ Cut \in Nat /\ 1 <= Cut /\ Cut < StoredMax
        /\ Len(stored) <= StoredMax + 1
    BY <1>2 DEF ReplayInv, TypeOK, WindowBounded, Full, Cut
  <2>2. /\ Window = SubSeq(stored, Cut + 1, Len(stored))
        /\ Floor = stored[Cut]
    BY <1>2 DEF Window, Floor
  <2>3. stored \in Seq(MsgIds)
    BY DEF ReplayInv, TypeOK
  <2>4. /\ Window \in Seq(MsgIds)
        /\ Len(Window) = Len(stored) - Cut
        /\ \A i \in 1..Len(Window) : Window[i] = stored[i + Cut]
    BY <2>1, <2>2, <2>3, SubSeqProperties
  <2>5. Floor \in MsgIds \cup {0}
    BY <2>1, <2>2, <2>3
  <2>6. Len(Window) <= StoredMax /\ Window # <<>>
    BY <2>1, <2>4
  <2>7. \A i, j \in 1..Len(stored) : i < j => stored[i] < stored[j]
    BY DEF ReplayInv, WindowSorted
  <2>8. \A i, j \in 1..Len(Window) : i < j => Window[i] < Window[j]
    BY <2>1, <2>4, <2>7
  <2>9. \A i \in 1..Len(Window) : Floor < Window[i]
    BY <2>1, <2>2, <2>4, <2>7
  <2>10. ASSUME NEW id \in MsgIds, delivered[id] > 0
         PROVE  \/ id <= Floor
                \/ \E i \in 1..Len(Window) : Window[i] = id
    <3>1. floor < stored[Cut]
      BY <2>1 DEF ReplayInv, WindowSorted
    <3>a. /\ id \in Int /\ floor \in Int
          /\ \A i \in 1..Len(stored) : stored[i] \in Int
      <4>1. id \in Int
        OBVIOUS
      <4>2. floor \in Int
        BY DEF ReplayInv, TypeOK
      <4>3. ASSUME NEW i \in 1..Len(stored)
            PROVE  stored[i] \in Int
        <5>1. stored[i] \in MsgIds
          BY <2>3
        <5> QED BY <5>1, IdsAreInts, Zenon
      <4> QED BY <4>1, <4>2, <4>3
    <3>b. Cut \in 1..Len(stored)
      BY <2>1
    <3>2. CASE id <= floor
      BY <3>1, <3>2, <3>a, <3>b, <2>2
    <3>3. ASSUME NEW i \in 1..Len(stored), stored[i] = id
          PROVE  \/ id <= Floor
                 \/ \E j \in 1..Len(Window) : Window[j] = id
      <4>1. CASE i <= Cut
        <5>1. i < Cut => stored[i] < stored[Cut]
          BY <3>b, <2>7
        <5> QED BY <4>1, <3>3, <3>a, <3>b, <5>1, <2>2
      <4>2. CASE i > Cut
        <5>1. /\ (i - Cut) \in 1..Len(Window)
              /\ Window[i - Cut] = id
          BY <4>2, <3>3, <2>1, <2>4
        <5> QED BY <5>1
      <4> QED BY <4>1, <4>2, <2>1
    <3> QED BY <2>10, <3>2, <3>3 DEF ReplayInv, DeliveredRemembered
  <2> QED BY <2>4, <2>5, <2>6, <2>8, <2>9, <2>10
<1> QED BY <1>1, <1>2


\* bisect.insort into a sorted list at the place bisect_left names gives a
\* sorted list of one more element, which holds the new id and every old one.
LEMMA InsortLemma ==
    ASSUME NEW w \in Seq(MsgIds), NEW id \in MsgIds, NEW k,
           BisectLeft(w, id, k),
           \A i, j \in 1..Len(w) : i < j => w[i] < w[j],
           \A i \in 1..Len(w) : w[i] # id
    PROVE  /\ Insort(w, id, k) \in Seq(MsgIds)
           /\ Len(Insort(w, id, k)) = Len(w) + 1
           /\ k + 1 \in 1..(Len(w) + 1)
           /\ Insort(w, id, k)[k + 1] = id
           /\ \A i \in 1..(Len(w) + 1) :
                 /\ i <= k => i \in 1..Len(w) /\ Insort(w, id, k)[i] = w[i]
                 /\ i > k + 1 => /\ i - 1 \in 1..Len(w)
                                 /\ Insort(w, id, k)[i] = w[i - 1]
           /\ \A i, j \in 1..(Len(w) + 1) :
                 i < j => Insort(w, id, k)[i] < Insort(w, id, k)[j]
<1> DEFINE lo == SubSeq(w, 1, k)
           hi == SubSeq(w, k + 1, Len(w))
           r == Insort(w, id, k)
<1>1. k \in 0..Len(w) /\ Len(w) \in Nat
  BY DEF BisectLeft
<1>2. /\ lo \in Seq(MsgIds) /\ Len(lo) = k
      /\ \A i \in 1..k : lo[i] = w[i]
  BY <1>1, SubSeqProperties
<1>3. /\ hi \in Seq(MsgIds) /\ Len(hi) = Len(w) - k
      /\ \A i \in 1..(Len(w) - k) : hi[i] = w[k + i]
  BY <1>1, SubSeqProperties
<1>4. /\ lo \o <<id>> \in Seq(MsgIds)
      /\ Len(lo \o <<id>>) = k + 1
      /\ \A i \in 1..k : (lo \o <<id>>)[i] = w[i]
      /\ (lo \o <<id>>)[k + 1] = id
  BY <1>1, <1>2
<1> DEFINE front == lo \o <<id>>
<1>5. r = front \o hi
  BY DEF Insort
<1>a. /\ front \in Seq(MsgIds) /\ Len(front) = k + 1
      /\ \A i \in 1..k : front[i] = w[i]
      /\ front[k + 1] = id
  BY <1>4
<1> HIDE DEF r, front, hi
<1>b. /\ front \o hi \in Seq(MsgIds)
      /\ Len(front \o hi) = Len(front) + Len(hi)
      /\ \A i \in 1..(Len(front) + Len(hi)) : (front \o hi)[i] =
            IF i <= Len(front) THEN front[i] ELSE hi[i - Len(front)]
  BY <1>3, <1>a, ConcatProperties
<1>c. (k + 1) + (Len(w) - k) = Len(w) + 1
  BY <1>1
<1>d. \A i \in 1..(Len(w) + 1) : r[i] =
         IF i <= k + 1 THEN front[i] ELSE hi[i - (k + 1)]
  BY <1>3, <1>5, <1>a, <1>b, <1>c
<1>6. r \in Seq(MsgIds) /\ Len(r) = Len(w) + 1
  BY <1>3, <1>5, <1>a, <1>b, <1>c
<1>7. k + 1 \in 1..(Len(w) + 1) /\ r[k + 1] = id
  BY <1>1, <1>a, <1>d
<1>8. ASSUME NEW i \in 1..(Len(w) + 1)
      PROVE  /\ i <= k => i \in 1..Len(w) /\ r[i] = w[i]
             /\ i > k + 1 => i - 1 \in 1..Len(w) /\ r[i] = w[i - 1]
  <2>1. CASE i <= k
    BY <2>1, <1>1, <1>a, <1>d
  <2>2. CASE i > k + 1
    <3>1. r[i] = hi[i - (k + 1)] /\ i - (k + 1) \in 1..(Len(w) - k)
      BY <2>2, <1>1, <1>d
    <3> QED BY <2>2, <1>1, <1>3, <3>1
  <2> QED BY <2>1, <2>2, <1>1
<1>9. ASSUME NEW i \in 1..Len(w)
      PROVE  w[i] \in Int
  <2>1. w[i] \in MsgIds
    OBVIOUS
  <2> QED BY <2>1, IdsAreInts, Zenon
<1>10. ASSUME NEW i \in 1..(Len(w) + 1), NEW j \in 1..(Len(w) + 1), i < j
       PROVE  r[i] < r[j]
  <2>1. id \in Int
    BY IdsAreInts
  <2>2. \A m \in 1..k : w[m] < id
    BY DEF BisectLeft
  <2>3. \A m \in (k + 1)..Len(w) : id < w[m]
    <3>1. TAKE m \in (k + 1)..Len(w)
    <3>2. m \in 1..Len(w) /\ id <= w[m] /\ w[m] # id
      BY <1>1 DEF BisectLeft
    <3> QED BY <3>2, <1>9, <2>1
  <2>4. CASE j <= k
    BY <2>4, <1>1, <1>8, <1>10
  <2>5. CASE j = k + 1
    <3>1. i \in 1..k /\ r[i] = w[i] /\ r[j] = id
      BY <2>5, <1>1, <1>7, <1>8, <1>10
    <3> QED BY <3>1, <2>2
  <2>6. CASE j > k + 1 /\ i = k + 1
    <3>1. j - 1 \in (k + 1)..Len(w) /\ r[j] = w[j - 1] /\ r[i] = id
      BY <2>6, <1>1, <1>7, <1>8
    <3> QED BY <3>1, <2>3
  <2>7. CASE j > k + 1 /\ i > k + 1
    <3>1. /\ i - 1 \in 1..Len(w) /\ j - 1 \in 1..Len(w) /\ i - 1 < j - 1
          /\ r[i] = w[i - 1] /\ r[j] = w[j - 1]
      BY <2>7, <1>1, <1>8, <1>10
    <3> QED BY <3>1
  <2>8. CASE j > k + 1 /\ i <= k
    <3>1. /\ i \in 1..Len(w) /\ j - 1 \in 1..Len(w) /\ i < j - 1
          /\ r[i] = w[i] /\ r[j] = w[j - 1]
      BY <2>8, <1>1, <1>8, <1>10
    <3> QED BY <3>1
  <2> QED BY <2>4, <2>5, <2>6, <2>7, <2>8, <1>1
<1> QED BY <1>6, <1>7, <1>8, <1>10 DEF r


\* The stamp of a message is an integer, so the clock offset stays one.
LEMMA OffsetType ==
    ASSUME TypeOK, NEW id \in MsgIds, NEW kind
    PROVE  SyncedOffset(id, kind) \in Int /\ Seconds(id) - now \in Int
<1>1. id \in Int /\ IdsPerSecond \in Nat \ {0}
  BY IdsAreInts, ReplayAssumption
<1>2. Seconds(id) \in Int
  BY <1>1 DEF Seconds
<1> QED BY <1>2 DEF SyncedOffset, TypeOK

\* The invariant holds before anything has been received.
LEMMA InitLemma == Init => ReplayInv
<1> SUFFICES ASSUME Init PROVE ReplayInv
  OBVIOUS
<1>a. delivered = [id \in MsgIds |-> 0]
  BY DEF Init
<1>b. stored = <<>> /\ floor = 0
  BY DEF Init
<1>c. stored \in Seq(MsgIds)
  BY <1>b
<1>d. delivered \in [MsgIds -> Nat]
  BY <1>a
<1>e. teardown \in BOOLEAN /\ up \in BOOLEAN
  BY DEF Init
<1>f. /\ breaches = 0 /\ now = 0 /\ offset = 0 /\ serverNow = 0 /\ deaf = 0
  BY DEF Init
<1>2. TypeOK
  BY <1>b, <1>c, <1>d, <1>e, <1>f, ReplayAssumption DEF TypeOK
<1>3. stored = <<>> /\ floor = 0 /\ \A id \in MsgIds : delivered[id] = 0
  BY <1>a, <1>b
<1>4. WindowSorted /\ FloorNeedsWindow /\ ClosedWindowEmpty
  BY <1>3 DEF WindowSorted, FloorNeedsWindow, ClosedWindowEmpty
<1>5. DeliveredRemembered /\ NoReplay
  BY <1>3 DEF DeliveredRemembered, NoReplay
<1>6. WindowBounded
  BY <1>3, ReplayAssumption DEF WindowBounded
<1> QED BY <1>2, <1>4, <1>5, <1>6 DEF ReplayInv

\* A message that is let through: it was not remembered, so it was not
\* delivered before, and it is remembered from now on.
LEMMA AcceptLemma ==
    ASSUME ReplayInv, NEW id \in MsgIds, NEW kind \in Kinds, Accept(id, kind)
    PROVE  ReplayInv'
<1> USE ReplayAssumption
<1>1. /\ Window \in Seq(MsgIds)
      /\ Floor \in MsgIds \cup {0}
      /\ Len(Window) <= StoredMax
      /\ Window = <<>> => Floor = 0
      /\ \A i, j \in 1..Len(Window) : i < j => Window[i] < Window[j]
      /\ \A i \in 1..Len(Window) : Floor < Window[i]
      /\ \A m \in MsgIds : delivered[m] > 0 =>
            \/ m <= Floor
            \/ \E i \in 1..Len(Window) : Window[i] = m
  BY PruneLemma
<1>2. id \in Int /\ 0 < id /\ Floor \in Int
  BY <1>1, IdsAreInts
<1>3. Floor < id /\ \A i \in 1..Len(Window) : Window[i] # id
  <2>1. CASE Window = <<>>
    BY <2>1, <1>1, <1>2
  <2>2. CASE Window # <<>>
    BY <2>2, <1>2 DEF Accept, Replayed
  <2> QED BY <2>1, <2>2
<1>4. PICK k \in 0..Len(Window) : /\ BisectLeft(Window, id, k)
                                  /\ stored' = Insort(Window, id, k)
  BY DEF Accept
<1> DEFINE w == Window
<1>w. /\ w \in Seq(MsgIds) /\ Len(w) \in Nat /\ k \in 0..Len(w)
      /\ Len(w) <= StoredMax
      /\ \A i \in 1..Len(w) : Floor < w[i]
      /\ \A m \in MsgIds : delivered[m] > 0 =>
            m <= Floor \/ \E i \in 1..Len(w) : w[i] = m
  BY <1>1
<1>5. /\ stored' \in Seq(MsgIds)
      /\ Len(stored') = Len(w) + 1
      /\ k + 1 \in 1..(Len(w) + 1)
      /\ stored'[k + 1] = id
      /\ \A i \in 1..(Len(w) + 1) :
            /\ i <= k => i \in 1..Len(w) /\ stored'[i] = w[i]
            /\ i > k + 1 => i - 1 \in 1..Len(w) /\ stored'[i] = w[i - 1]
      /\ \A i, j \in 1..(Len(w) + 1) : i < j => stored'[i] < stored'[j]
  BY <1>1, <1>3, <1>4, InsortLemma
<1>6. /\ floor' = Floor
      /\ delivered' = [delivered EXCEPT ![id] = @ + 1]
      /\ delivered \in [MsgIds -> Nat]
  BY DEF Accept, ReplayInv, TypeOK
<1> HIDE DEF w
<1>7. TypeOK'
  <2>1. TypeOK
    BY DEF ReplayInv
  <2>2. offset' \in Int
    BY <2>1, OffsetType DEF Accept
  <2> QED BY <1>1, <1>5, <1>6, <2>1, <2>2 DEF TypeOK, Accept
<1>8. WindowSorted'
  <2>1. \A i, j \in 1..Len(stored') : i < j => stored'[i] < stored'[j]
    BY <1>5
  <2>2. ASSUME NEW i \in 1..Len(stored')
        PROVE  floor' < stored'[i]
    <3>1. i \in 1..(Len(w) + 1)
      BY <1>5
    <3>2. i = k + 1 \/ i <= k \/ i > k + 1
      BY <3>1, <1>w
    <3>3. CASE i = k + 1
      BY <3>3, <1>3, <1>5, <1>6
    <3>4. CASE i <= k
      BY <3>1, <3>4, <1>5, <1>6, <1>w
    <3>5. CASE i > k + 1
      BY <3>1, <3>5, <1>5, <1>6, <1>w
    <3> QED BY <3>2, <3>3, <3>4, <3>5
  <2> QED BY <2>1, <2>2 DEF WindowSorted
<1>9. FloorNeedsWindow' /\ WindowBounded' /\ ClosedWindowEmpty'
  BY <1>5, <1>w DEF FloorNeedsWindow, WindowBounded, ClosedWindowEmpty,
                    Accept, Arrives
<1>10. delivered[id] = 0
  <2>1. ~(id <= Floor) /\ ~\E i \in 1..Len(w) : w[i] = id
    BY <1>2, <1>3 DEF w
  <2>2. ~(delivered[id] > 0)
    BY <2>1, <1>w
  <2> QED BY <2>2, <1>6
<1>11. NoReplay'
  BY <1>6, <1>10 DEF ReplayInv, NoReplay
<1>12. DeliveredRemembered'
  <2>1. SUFFICES ASSUME NEW m \in MsgIds, delivered'[m] > 0
                 PROVE  \/ m <= floor'
                        \/ \E i \in 1..Len(stored') : stored'[i] = m
    BY DEF DeliveredRemembered
  <2>2. CASE m = id
    BY <2>2, <1>5
  <2>3. CASE m # id
    <3>1. m <= Floor \/ \E i \in 1..Len(w) : w[i] = m
      BY <2>1, <2>3, <1>6, <1>w
    <3>2. ASSUME NEW i \in 1..Len(w), w[i] = m
          PROVE  \E j \in 1..Len(stored') : stored'[j] = m
      <4>1. CASE i <= k
        <5>1. i \in 1..(Len(w) + 1)
          BY <1>w
        <5>2. stored'[i] = m
          BY <5>1, <4>1, <3>2, <1>5
        <5> QED BY <5>1, <5>2, <1>5
      <4>2. CASE i > k
        <5>1. i + 1 \in 1..(Len(w) + 1) /\ i + 1 > k + 1
          BY <4>2, <1>w
        <5>2. stored'[i + 1] = w[(i + 1) - 1] /\ (i + 1) - 1 = i
          BY <5>1, <1>5, <1>w
        <5> QED BY <5>1, <5>2, <3>2, <1>5
      <4> QED BY <4>1, <4>2, <1>w
    <3> QED BY <3>1, <3>2, <1>6
  <2> QED BY <2>2, <2>3
<1> QED BY <1>7, <1>8, <1>9, <1>11, <1>12 DEF ReplayInv


\* A discarded message changes at most what pruning changes.
LEMMA DiscardLemma ==
    ASSUME ReplayInv, NEW id \in MsgIds, NEW kind \in Kinds,
           DiscardReplay(id, kind) \/ DiscardSkew(id, kind)
    PROVE  ReplayInv'
<1> USE ReplayAssumption
<1>1. /\ stored' = Window /\ floor' = Floor /\ delivered' = delivered
  BY DEF DiscardReplay, DiscardSkew
<1>2. TypeOK'
  <2>1. TypeOK
    BY DEF ReplayInv
  <2>2. offset' \in Int
    BY <2>1, OffsetType DEF DiscardReplay, DiscardSkew
  <2>3. breaches' \in 0..(MaxBreaches - 1) /\ deaf' \in Nat
    BY <2>1 DEF TypeOK, DiscardReplay, DiscardSkew
  <2>4. Window \in Seq(MsgIds) /\ Floor \in MsgIds \cup {0}
    BY PruneLemma
  <2>5. UNCHANGED <<teardown, up, now, serverNow>>
    BY DEF DiscardReplay, DiscardSkew
  <2> QED BY <1>1, <2>1, <2>2, <2>3, <2>4, <2>5 DEF TypeOK
<1>3. WindowSorted'
  BY <1>1, PruneLemma DEF WindowSorted
<1>4. FloorNeedsWindow' /\ DeliveredRemembered'
  BY <1>1, PruneLemma DEF FloorNeedsWindow, DeliveredRemembered
<1>5. NoReplay' /\ ClosedWindowEmpty'
  BY <1>1 DEF ReplayInv, NoReplay, ClosedWindowEmpty, DiscardReplay,
              DiscardSkew, Arrives
<1>6. WindowBounded'
  <2>1. Window \in Seq(MsgIds) /\ Len(Window) <= StoredMax
    BY PruneLemma
  <2> QED BY <1>1, <2>1 DEF WindowBounded
<1> QED BY <1>2, <1>3, <1>4, <1>5, <1>6 DEF ReplayInv

\* Opening or dropping a connection leaves an empty window and no history.
LEMMA ResetLemma ==
    ASSUME ReplayInv, Start \/ Stop
    PROVE  ReplayInv'
<1> USE ReplayAssumption
<1>1. stored' = <<>> /\ floor' = 0
  BY DEF Start, Stop, ReplayInv, ClosedWindowEmpty
<1>2. \A id \in MsgIds : delivered'[id] = 0
  <2>1. CASE Start
    <3>1. stored = <<>> /\ floor = 0 /\ delivered' = delivered
      BY <2>1 DEF Start, ReplayInv, ClosedWindowEmpty, FloorNeedsWindow
    <3>2. ASSUME NEW id \in MsgIds PROVE delivered[id] = 0
      <4>1. ~(id <= floor) /\ ~\E i \in 1..Len(stored) : stored[i] = id
        BY <3>1, IdsAreInts
      <4>2. ~(delivered[id] > 0) /\ delivered[id] \in Nat
        BY <4>1 DEF ReplayInv, DeliveredRemembered, TypeOK
      <4> QED BY <4>2
    <3> QED BY <3>1, <3>2
  <2>2. CASE Stop
    BY <2>2 DEF Stop
  <2> QED BY <2>1, <2>2
<1>3. TypeOK'
  <2>1. stored' \in Seq(MsgIds)
    BY <1>1
  <2>2. delivered' \in [MsgIds -> Nat]
    BY DEF Start, Stop, ReplayInv, TypeOK
  <2>3. breaches' \in 0..(MaxBreaches - 1)
    BY DEF Start, Stop, ReplayInv, TypeOK
  <2>4. teardown' \in BOOLEAN /\ up' \in BOOLEAN
    BY DEF Start, Stop, ReplayInv, TypeOK
  <2>5. UNCHANGED <<now, offset, serverNow, deaf>>
    BY DEF Start, Stop
  <2> QED BY <1>1, <2>1, <2>2, <2>3, <2>4, <2>5 DEF ReplayInv, TypeOK
<1>4. WindowSorted' /\ FloorNeedsWindow' /\ ClosedWindowEmpty' /\ WindowBounded'
  BY <1>1 DEF WindowSorted, FloorNeedsWindow, ClosedWindowEmpty, WindowBounded
<1>5. DeliveredRemembered' /\ NoReplay'
  BY <1>2 DEF DeliveredRemembered, NoReplay
<1> QED BY <1>3, <1>4, <1>5 DEF ReplayInv

\* Steps that leave the window alone.
LEMMA QuietLemma ==
    ASSUME ReplayInv, BrokenPacket \/ Tick \/ Suspend \/ UNCHANGED vars
    PROVE  ReplayInv'
<1> USE ReplayAssumption
<1>1. UNCHANGED <<stored, floor, delivered, up>>
  BY DEF BrokenPacket, Tick, Suspend, vars
<1>2. TypeOK'
  <2>1. teardown' \in BOOLEAN
    BY DEF BrokenPacket, Tick, Suspend, vars, ReplayInv, TypeOK
  <2>2. now' \in Nat /\ serverNow' \in Nat /\ deaf' \in Nat
    BY DEF BrokenPacket, Tick, Suspend, vars, ReplayInv, TypeOK
  <2>3. UNCHANGED <<breaches, offset>>
    BY DEF BrokenPacket, Tick, Suspend, vars
  <2> QED BY <1>1, <2>1, <2>2, <2>3 DEF ReplayInv, TypeOK
<1>3. WindowSorted' /\ DeliveredRemembered'
  BY <1>1 DEF ReplayInv, WindowSorted, DeliveredRemembered
<1>4. FloorNeedsWindow' /\ ClosedWindowEmpty' /\ NoReplay' /\ WindowBounded'
  BY <1>1 DEF ReplayInv, FloorNeedsWindow, ClosedWindowEmpty, NoReplay,
              WindowBounded
<1> QED BY <1>2, <1>3, <1>4 DEF ReplayInv

(***************************************************************************)
(* ReplayInv is an invariant of the session's inbound checks, for every    *)
(* window size, id set and clock behaviour.                                *)
(***************************************************************************)
THEOREM ReplayInvariant == Spec => []ReplayInv
<1>1. Init => ReplayInv
  BY InitLemma
<1>2. ReplayInv /\ [Next]_vars => ReplayInv'
  <2>1. SUFFICES ASSUME ReplayInv, [Next]_vars PROVE ReplayInv'
    OBVIOUS
  <2>2. ASSUME NEW id \in MsgIds, NEW kind \in Kinds, DiscardReplay(id, kind)
        PROVE  ReplayInv'
    BY <2>1, <2>2, DiscardLemma
  <2>3. ASSUME NEW id \in MsgIds, NEW kind \in Kinds, DiscardSkew(id, kind)
        PROVE  ReplayInv'
    BY <2>1, <2>3, DiscardLemma
  <2>4. ASSUME NEW id \in MsgIds, NEW kind \in Kinds, Accept(id, kind)
        PROVE  ReplayInv'
    BY <2>1, <2>4, AcceptLemma
  <2>5. CASE BrokenPacket
    BY <2>1, <2>5, QuietLemma
  <2>6. CASE Start
    BY <2>1, <2>6, ResetLemma
  <2>7. CASE Stop
    BY <2>1, <2>7, ResetLemma
  <2>8. CASE Tick
    BY <2>1, <2>8, QuietLemma
  <2>9. CASE Suspend
    BY <2>1, <2>9, QuietLemma
  <2>10. CASE UNCHANGED vars
    BY <2>1, <2>10, QuietLemma
  <2> QED
    BY <2>1, <2>2, <2>3, <2>4, <2>5, <2>6, <2>7, <2>8, <2>9, <2>10 DEF Next
<1> QED BY <1>1, <1>2, PTL DEF Spec

(***************************************************************************)
(* No message id is processed twice on one connection, whatever order and  *)
(* however often the server's messages arrive and however often the window *)
(* is pruned in between.                                                   *)
(***************************************************************************)
THEOREM NoReplayTheorem == Spec => []NoReplay
<1>1. ReplayInv => NoReplay
  BY DEF ReplayInv
<1> QED BY <1>1, ReplayInvariant, PTL

\* The memory the window takes is bounded by STORED_MSG_IDS_MAX_SIZE + 1 ids.
THEOREM WindowBoundedTheorem == Spec => []WindowBounded
<1>1. ReplayInv => WindowBounded
  BY DEF ReplayInv
<1> QED BY <1>1, ReplayInvariant, PTL

----------------------------------------------------------------------------
(* The skew check *)

\* The local estimate of the server's time, as of a message that is at most
\* MaxDelay old.
InStep == serverNow - (now + offset) \in 0..MaxDelay

\* While the estimate is off, every message lost is counted towards the next
\* resynchronisation; the first message of a connection is never lost.
DeafInv ==
    MaxDelay <= SkewAhead /\ MaxDelay <= SkewBehind =>
        /\ deaf <= MaxBreaches
        /\ stored = <<>> \/ InStep \/ deaf <= breaches

\* A message that sets the clock sets it well.
LEMMA SyncInStep ==
    ASSUME TypeOK, NEW id \in MsgIds, Arrives(id)
    PROVE  /\ Seconds(id) \in Int
           /\ serverNow - Seconds(id) \in 0..MaxDelay
           /\ serverNow - (now + (Seconds(id) - now)) \in 0..MaxDelay
<1>1. Seconds(id) \in Int
  BY IdsAreInts, ReplayAssumption DEF Seconds
<1> QED BY <1>1, ReplayAssumption DEF TypeOK, Arrives

\* With the clock in step no message is out of step.
LEMMA InStepHears ==
    ASSUME TypeOK, MaxDelay <= SkewAhead, MaxDelay <= SkewBehind, InStep,
           NEW id \in MsgIds, NEW kind, Arrives(id)
    PROVE  ~OutOfStep(id, kind)
<1>1. CASE kind # "content" \/ stored = <<>>
  <2>1. stored = <<>> => Window = <<>>
    BY ReplayAssumption DEF Window, Full
  <2> QED BY <1>1, <2>1 DEF OutOfStep
<1>2. CASE kind = "content" /\ stored # <<>>
  <2>1. SyncedOffset(id, kind) = offset
    BY <1>2 DEF SyncedOffset
  <2>2. /\ Seconds(id) \in Int /\ serverNow - Seconds(id) \in 0..MaxDelay
        /\ now \in Int /\ offset \in Int /\ serverNow \in Int
        /\ MaxDelay \in Int /\ SkewAhead \in Int /\ SkewBehind \in Int
    BY SyncInStep, ReplayAssumption DEF TypeOK
  <2>3. /\ Seconds(id) - (now + offset) <= SkewAhead
        /\ Seconds(id) - (now + offset) >= -SkewBehind
    BY <2>2 DEF InStep
  <2> QED BY <2>1, <2>2, <2>3 DEF OutOfStep
<1> QED BY <1>1, <1>2

\* A lost message is one more breach, or sets the clock.
LEMMA SkewDeaf ==
    ASSUME TypeOK, DeafInv, NEW id \in MsgIds, NEW kind \in Kinds, DiscardSkew(id, kind)
    PROVE  DeafInv'
<1> SUFFICES ASSUME MaxDelay <= SkewAhead, MaxDelay <= SkewBehind
             PROVE  deaf' <= MaxBreaches /\ (InStep' \/ deaf' <= breaches')
  BY DEF DeafInv
<1>1. Arrives(id) /\ OutOfStep(id, kind)
  BY DEF DiscardSkew
<1>2. deaf <= breaches
  <2>1. stored # <<>>
    BY <1>1, ReplayAssumption DEF OutOfStep, Window, Full
  <2>2. ~InStep
    BY <1>1, InStepHears
  <2> QED BY <2>1, <2>2 DEF DeafInv
<1>3. /\ breaches \in Int /\ deaf \in Int /\ MaxBreaches \in Int
      /\ breaches <= MaxBreaches - 1
  BY ReplayAssumption DEF TypeOK
<1>4. deaf' = deaf + 1 /\ serverNow' = serverNow /\ now' = now
  BY DEF DiscardSkew
<1>5. CASE breaches + 1 >= MaxBreaches
  <2>1. offset' = Seconds(id) - now
    BY <1>5 DEF DiscardSkew
  <2>2. InStep'
    BY <1>1, <1>4, <2>1, SyncInStep DEF InStep
  <2> QED BY <1>2, <1>3, <1>4, <2>2
<1>6. CASE ~(breaches + 1 >= MaxBreaches)
  <2>1. breaches' = breaches + 1
    BY <1>6 DEF DiscardSkew
  <2> QED BY <1>2, <1>3, <1>4, <2>1
<1> QED BY <1>5, <1>6

LEMMA ReplayDeaf ==
    ASSUME TypeOK, DeafInv, NEW id \in MsgIds, NEW kind \in Kinds, DiscardReplay(id, kind)
    PROVE  DeafInv'
<1>1. UNCHANGED <<breaches, deaf, now, serverNow>> /\ Arrives(id)
  BY DEF DiscardReplay
<1>2. stored # <<>>
  BY ReplayAssumption DEF DiscardReplay, Replayed, Window, Full
<1>3. CASE offset' = offset
  BY <1>1, <1>2, <1>3 DEF DeafInv, InStep
<1>4. CASE offset' = Seconds(id) - now
  <2>1. InStep'
    BY <1>1, <1>4, SyncInStep DEF InStep
  <2> QED BY <1>1, <2>1 DEF DeafInv
<1> QED BY <1>3, <1>4 DEF DiscardReplay, SyncedOffset

LEMMA StepDeaf ==
    ASSUME ReplayInv, DeafInv, [Next]_vars
    PROVE  DeafInv'
<1> USE ReplayAssumption
<1>1. TypeOK /\ ClosedWindowEmpty
  BY DEF ReplayInv
<1>2. ASSUME NEW id \in MsgIds, NEW kind \in Kinds,
             DiscardReplay(id, kind) \/ DiscardSkew(id, kind)
      PROVE  DeafInv'
  BY <1>1, <1>2, SkewDeaf, ReplayDeaf
<1>3. ASSUME NEW id \in MsgIds, NEW kind \in Kinds, Accept(id, kind)
      PROVE  DeafInv'
  BY <1>3 DEF Accept, DeafInv
<1>4. CASE BrokenPacket \/ UNCHANGED vars
  BY <1>4 DEF BrokenPacket, vars, DeafInv, InStep
<1>5. CASE Start
  BY <1>1, <1>5 DEF Start, ClosedWindowEmpty, DeafInv
<1>6. CASE Stop
  BY <1>6 DEF Stop, DeafInv
<1>7. CASE Tick
  <2>1. serverNow' - (now' + offset') = serverNow - (now + offset)
    BY <1>1, <1>7 DEF Tick, TypeOK
  <2> QED BY <1>7, <2>1 DEF Tick, DeafInv, InStep
<1>8. CASE Suspend
  BY <1>1, <1>8 DEF Suspend, DeafInv, TypeOK
<1> QED BY <1>2, <1>3, <1>4, <1>5, <1>6, <1>7, <1>8 DEF Next

(***************************************************************************)
(* However the host's clock and the server's drift apart and however often *)
(* the session reconnects, handle_packet drops at most MAX_SKEW_BREACHES   *)
(* messages in a row for skew.                                             *)
(***************************************************************************)
THEOREM DeafnessBoundedTheorem == Spec => []DeafnessBounded
<1>1. Init => DeafInv
  BY ReplayAssumption DEF Init, DeafInv
<1>2. ReplayInv /\ DeafInv /\ [Next]_vars => DeafInv'
  BY StepDeaf
<1>3. DeafInv => DeafnessBounded
  BY DEF DeafInv, DeafnessBounded
<1> QED BY <1>1, <1>2, <1>3, ReplayInvariant, PTL DEF Spec

=============================================================================
