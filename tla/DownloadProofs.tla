--------------------------- MODULE DownloadProofs ---------------------------
(***************************************************************************)
(* The read-ahead budget that downloads share, and what a download that    *)
(* returns has delivered, for any number of transfers and workers, any     *)
(* number of slots, and files of any size.                                 *)
(***************************************************************************)
EXTENDS Download, FiniteSetTheorems, TLAPS

----------------------------------------------------------------------------
(* The inductive invariant, one transfer at a time *)

Active(t) == pc[t] \notin {"drop", "closed"}

\* Workers exist, and chunks are taken from the queue, once _launch() is done.
Launched(t) ==
    /\ IF launch[t] = "done" THEN \A w \in Workers : worker[<<t, w>>] # "off"
       ELSE work[t] = 1 /\ \A w \in Workers : worker[<<t, w>>] = "off"
    /\ pc[t] = "idle" => launch[t] = "wait"
    /\ pc[t] \in {"loop", "wait", "yield"} => launch[t] = "done"
    /\ Active(t) => launch[t] # "cancelled" /\ outcome[t] = "none"
    /\ ~Active(t) => launch[t] # "wait"

\* No chunk is fetched twice: those that were, and those that are being
\* fetched, have left the queue and are different.
Distinct(t) ==
    /\ \A c \in received[t] : c < work[t]
    /\ \A w \in Fetching(t) : /\ chunk[<<t, w>>] \in Chunks /\ chunk[<<t, w>>] < work[t]
                              /\ chunk[<<t, w>>] \notin received[t]
    /\ \A v, w \in Fetching(t) : chunk[<<t, v>>] = chunk[<<t, w>>] => v = w

\* Workers are cancelled when their transfer ends, all that have not ended.
Cancels(t) ==
    /\ \A w \in Workers : <<t, w>> \in cancelled => ~Over(t, w) /\ ~Active(t)
    /\ ~Active(t) /\ outcome[t] # "orphaned" =>
          \A w \in Workers : Over(t, w) \/ <<t, w>> \in cancelled
    /\ outcome[t] = "orphaned" => pc[t] = "closed"

Holds(t) ==
    IF pc[t] = "closed" /\ outcome[t] # "orphaned" THEN held[t] = 0
    ELSE held[t] = Cardinality(Fetching(t))
                   + (IF t \in Files THEN 0 ELSE Cardinality(received[t]))

\* A chunk that has left the queue is not lost while the download goes on, and
\* a worker ends only when all that the file has were taken.
Covers(t) ==
    /\ pc[t] \in {"idle", "first", "given"} => next[t] = 0
    /\ pc[t] \in {"pending", "loop", "wait", "yield"} => next[t] \in Chunks
    /\ Active(t) =>
         /\ \A w \in Workers : worker[<<t, w>>] = "done" =>
               \A c \in Chunks : c <= Short[t] => c < work[t]
         /\ \A c \in Chunks : c < work[t] =>
               \/ c \in received[t] \/ Failed(t)
               \/ \E w \in Fetching(t) : chunk[<<t, w>>] = c
               \/ t \notin Files /\ (c < next[t] \/ (pc[t] = "yield" /\ c = next[t]))

Returns(t) ==
    outcome[t] = "returned" /\ Full(t, 0) =>
        /\ pc[t] = "closed"
        /\ \A c \in Chunks : c <= Short[t] =>
              IF t \in Files THEN c \in received[t] ELSE c <= next[t]

TransferInv(t) ==
    Launched(t) /\ Distinct(t) /\ Cancels(t) /\ Holds(t) /\ Covers(t) /\ Returns(t)

DownloadInv ==
    /\ TypeOK
    /\ free + Cardinality(Taken) = Size
    /\ \A t \in Transfers : TransferInv(t)

----------------------------------------------------------------------------
(* The budget *)

TakenBy(h) == {s \in Transfers \X (1..Size) : s[2] <= h[s[1]]}

Budget ==
    /\ held \in [Transfers -> 0..Size] /\ free \in 0..Size
    /\ free + Cardinality(Taken) = Size

\* The slots taken are finitely many, and those of a transfer among them.
LEMMA TakenFinite ==
    ASSUME NEW h \in [Transfers -> 0..Size]
    PROVE  /\ IsFiniteSet(TakenBy(h)) /\ Cardinality(TakenBy(h)) \in Nat
           /\ \A t \in Transfers : /\ {t} \X (1..h[t]) \subseteq TakenBy(h)
                                   /\ Cardinality({t} \X (1..h[t])) = h[t]
                                   /\ h[t] <= Cardinality(TakenBy(h))
<1>1. IsFiniteSet(Transfers) /\ Size \in Nat
  BY DownloadAssumption
<1>2. IsFiniteSet(1..Size)
  BY <1>1, FS_Interval
<1>3. IsFiniteSet(Transfers \X (1..Size))
  BY <1>1, <1>2, FS_Product
<1>4. TakenBy(h) \subseteq Transfers \X (1..Size)
  BY DEF TakenBy
<1>5. IsFiniteSet(TakenBy(h)) /\ Cardinality(TakenBy(h)) \in Nat
  BY <1>3, <1>4, FS_Subset, FS_CardinalityType
<1>6. ASSUME NEW t \in Transfers
      PROVE  /\ {t} \X (1..h[t]) \subseteq TakenBy(h)
             /\ Cardinality({t} \X (1..h[t])) = h[t]
             /\ h[t] <= Cardinality(TakenBy(h))
  <2>1. h[t] \in Nat /\ h[t] <= Size
    BY <1>1
  <2>2. {t} \X (1..h[t]) \subseteq TakenBy(h)
    BY <1>1, <2>1 DEF TakenBy
  <2>3. IsFiniteSet(1..h[t]) /\ Cardinality(1..h[t]) = h[t]
    BY <2>1, FS_Interval
  <2>4. IsFiniteSet({t}) /\ Cardinality({t}) = 1
    BY FS_Singleton
  <2>5. Cardinality({t} \X (1..h[t])) = 1 * h[t]
    BY <2>3, <2>4, FS_Product
  <2>6. Cardinality({t} \X (1..h[t])) = h[t]
    BY <2>1, <2>5
  <2>7. Cardinality({t} \X (1..h[t])) <= Cardinality(TakenBy(h))
    BY <1>5, <2>2, FS_Subset
  <2> QED
    BY <2>2, <2>6, <2>7
<1> QED
  BY <1>5, <1>6

\* A worker takes a slot.
LEMMA TakeSlot ==
    ASSUME Budget, NEW t \in Transfers, free > 0,
           held' = [held EXCEPT ![t] = @ + 1], free' = free - 1
    PROVE  Budget' /\ \A u \in Transfers : held'[u] = IF u = t THEN held[t] + 1 ELSE held[u]
<1>1. Size \in Nat /\ held[t] \in Nat /\ free \in Nat /\ held[t] <= Size
  BY DownloadAssumption DEF Budget
<1>2. Taken = TakenBy(held) /\ Taken' = TakenBy(held')
  BY DEF Taken, TakenBy
<1>3. held[t] <= Cardinality(Taken) /\ IsFiniteSet(Taken) /\ Cardinality(Taken) \in Nat
  BY <1>2, TakenFinite DEF Budget
<1>4. held[t] + 1 \in 0..Size
  BY <1>1, <1>3 DEF Budget
<1>5. held' \in [Transfers -> 0..Size]
  BY <1>4 DEF Budget
<1>6. \A u \in Transfers : held'[u] = IF u = t THEN held[t] + 1 ELSE held[u]
  BY DEF Budget
<1>7. Taken' = Taken \cup {<<t, held[t] + 1>>} /\ <<t, held[t] + 1>> \notin Taken
  <2>1. \A u \in Transfers, n \in 1..Size :
           n <= held'[u] <=> n <= held[u] \/ (u = t /\ n = held[t] + 1)
    BY <1>1, <1>6 DEF Budget
  <2>2. <<t, held[t] + 1>> \in Transfers \X (1..Size)
    BY <1>1, <1>4
  <2> QED
    BY <1>1, <2>1, <2>2 DEF Taken
<1>8. Cardinality(Taken') = Cardinality(Taken) + 1
  BY <1>3, <1>7, FS_AddElement
<1> QED
  BY <1>1, <1>3, <1>5, <1>6, <1>8 DEF Budget

\* Release() gives back a slot that is held, and else none.
LEMMA ReleaseSlot ==
    ASSUME Budget, NEW t \in Transfers, Release(t)
    PROVE  /\ Budget'
           /\ \A u \in Transfers :
                 held'[u] = IF u = t /\ held[t] > 0 THEN held[t] - 1 ELSE held[u]
<1>1. Size \in Nat /\ held[t] \in Nat /\ free \in Nat /\ held[t] <= Size
  BY DownloadAssumption DEF Budget
<1>2. Taken = TakenBy(held) /\ Taken' = TakenBy(held')
  BY DEF Taken, TakenBy
<1>3. held[t] <= Cardinality(Taken) /\ IsFiniteSet(Taken) /\ Cardinality(Taken) \in Nat
  BY <1>2, TakenFinite DEF Budget
<1>4. CASE held[t] > 0
  <2>1. held' = [held EXCEPT ![t] = @ - 1] /\ free' = free + 1
    BY <1>4 DEF Release
  <2>2. held[t] - 1 \in 0..Size
    BY <1>1, <1>4
  <2>3. held' \in [Transfers -> 0..Size]
    BY <2>1, <2>2 DEF Budget
  <2>4. \A u \in Transfers : held'[u] = IF u = t THEN held[t] - 1 ELSE held[u]
    BY <2>1 DEF Budget
  <2>5. Taken' = Taken \ {<<t, held[t]>>} /\ <<t, held[t]>> \in Taken
    <3>1. \A u \in Transfers, n \in 1..Size :
             n <= held'[u] <=> n <= held[u] /\ ~(u = t /\ n = held[t])
      BY <1>1, <2>4 DEF Budget
    <3>2. <<t, held[t]>> \in Transfers \X (1..Size)
      BY <1>1, <1>4
    <3> QED
      BY <1>1, <3>1, <3>2 DEF Taken
  <2>6. Cardinality(Taken') = Cardinality(Taken) - 1
    BY <1>3, <2>5, FS_RemoveElement
  <2>7. free' \in 0..Size /\ free' + Cardinality(Taken') = Size
    BY <1>1, <1>3, <1>4, <2>1, <2>6 DEF Budget
  <2> QED
    BY <1>4, <2>3, <2>4, <2>7 DEF Budget
<1>5. CASE ~(held[t] > 0)
  BY <1>2, <1>5 DEF Release, slots, Budget
<1> QED
  BY <1>4, <1>5

\* The end of a transfer gives back all it holds.
LEMMA ReleaseAllSlots ==
    ASSUME Budget, NEW t \in Transfers, ReleaseAll(t)
    PROVE  Budget' /\ \A u \in Transfers : held'[u] = IF u = t THEN 0 ELSE held[u]
<1>1. Size \in Nat /\ held[t] \in Nat /\ free \in Nat /\ held[t] <= Size
  BY DownloadAssumption DEF Budget
<1>2. Taken = TakenBy(held) /\ Taken' = TakenBy(held')
  BY DEF Taken, TakenBy
<1> DEFINE mine == {t} \X (1..held[t])
<1>3. /\ mine \subseteq Taken /\ Cardinality(mine) = held[t]
      /\ held[t] <= Cardinality(Taken) /\ IsFiniteSet(Taken) /\ Cardinality(Taken) \in Nat
  BY <1>2, TakenFinite DEF Budget
<1>4. held' = [held EXCEPT ![t] = 0] /\ free' = free + held[t]
  BY DEF ReleaseAll
<1>5. held' \in [Transfers -> 0..Size]
  BY <1>1, <1>4 DEF Budget
<1>6. \A u \in Transfers : held'[u] = IF u = t THEN 0 ELSE held[u]
  BY <1>4 DEF Budget
<1>7. Taken' = Taken \ mine
  <2>1. \A u \in Transfers, n \in 1..Size :
           n <= held'[u] <=> n <= held[u] /\ ~(u = t /\ n \in 1..held[t])
    BY <1>1, <1>6 DEF Budget
  <2> QED
    BY <1>1, <2>1 DEF Taken
<1> HIDE DEF mine
<1>8. Cardinality(Taken') = Cardinality(Taken) - held[t]
  <2>1. IsFiniteSet(mine) /\ Taken \cap mine = mine
    BY <1>3, FS_Subset
  <2>2. Cardinality(Taken \ mine) = Cardinality(Taken) - Cardinality(Taken \cap mine)
    BY <1>3, <2>1, FS_Difference
  <2> QED
    BY <1>3, <1>7, <2>1, <2>2
<1> QED
  BY <1>1, <1>3, <1>4, <1>5, <1>6, <1>8 DEF Budget

\* A step that leaves the slots alone.
LEMMA SameSlots ==
    ASSUME Budget, UNCHANGED slots
    PROVE  Budget' /\ held' = held
  BY DEF Budget, slots, Taken

----------------------------------------------------------------------------
(* One transfer moves, the others do not *)

\* Everything about u but data_ready is as it was.
Same(u) ==
    /\ pc'[u] = pc[u] /\ launch'[u] = launch[u] /\ work'[u] = work[u]
    /\ received'[u] = received[u] /\ next'[u] = next[u] /\ held'[u] = held[u]
    /\ outcome'[u] = outcome[u]
    /\ \A w \in Workers : /\ worker'[<<u, w>>] = worker[<<u, w>>]
                          /\ chunk'[<<u, w>>] = chunk[<<u, w>>]
                          /\ <<u, w>> \in cancelled' <=> <<u, w>> \in cancelled

\* What a worker of one transfer changes in a function of all workers.
LEMMA PairUpdate ==
    ASSUME NEW S, NEW f \in [Transfers \X Workers -> S],
           NEW t \in Transfers, NEW w \in Workers, NEW x \in S
    PROVE  /\ [f EXCEPT ![<<t, w>>] = x] \in [Transfers \X Workers -> S]
           /\ \A u \in Transfers, v \in Workers :
                 [f EXCEPT ![<<t, w>>] = x][<<u, v>>] =
                     IF u = t /\ v = w THEN x ELSE f[<<u, v>>]
<1>1. [f EXCEPT ![<<t, w>>] = x] \in [Transfers \X Workers -> S]
  OBVIOUS
<1>2. ASSUME NEW u \in Transfers, NEW v \in Workers
      PROVE  [f EXCEPT ![<<t, w>>] = x][<<u, v>>] =
                 IF u = t /\ v = w THEN x ELSE f[<<u, v>>]
  <2>1. <<u, v>> \in Transfers \X Workers /\ (<<u, v>> = <<t, w>> <=> u = t /\ v = w)
    OBVIOUS
  <2> QED
    BY <2>1
<1> QED
  BY <1>1, <1>2

\* A transfer that nobody touches keeps its invariant.
LEMMA Frame ==
    ASSUME NEW u \in Transfers, TransferInv(u), Same(u)
    PROVE  TransferInv(u)'
<1>1. Fetching(u)' = Fetching(u) /\ (Failed(u)' <=> Failed(u)) /\ (Active(u)' <=> Active(u))
  BY DEF Same, Fetching, Failed, Active
<1>2. \A w \in Workers : Over(u, w)' <=> Over(u, w)
  BY DEF Same, Over
<1>3. Launched(u)'
  BY <1>1 DEF Same, TransferInv, Launched
<1>4. Distinct(u)'
  <2>1. \A w \in Fetching(u) : chunk'[<<u, w>>] = chunk[<<u, w>>]
    BY DEF Same, Fetching
  <2> QED
    BY <1>1, <2>1 DEF Same, TransferInv, Distinct
<1>5. Cancels(u)'
  BY <1>1, <1>2 DEF Same, TransferInv, Cancels
<1>6. Holds(u)'
  BY <1>1 DEF Same, TransferInv, Holds
<1>7. Covers(u)'
  <2>1. \A w \in Fetching(u) : chunk'[<<u, w>>] = chunk[<<u, w>>]
    BY DEF Same, Fetching
  <2> QED
    BY <1>1, <2>1 DEF Same, TransferInv, Covers
<1>8. Returns(u)'
  BY DEF Same, TransferInv, Returns, Full
<1> QED
  BY <1>3, <1>4, <1>5, <1>6, <1>7, <1>8 DEF TransferInv

\* The invariant after a step of transfer t.
LEMMA OneTransfer ==
    ASSUME DownloadInv, NEW t \in Transfers, TypeOK', Budget', TransferInv(t)',
           \A u \in Transfers : u # t => Same(u)
    PROVE  DownloadInv'
<1>1. \A u \in Transfers : TransferInv(u)'
  BY Frame DEF DownloadInv
<1> QED
  BY <1>1 DEF DownloadInv, Budget

\* What the invariant says of a transfer.
LEMMA Parts ==
    ASSUME DownloadInv, NEW t \in Transfers
    PROVE  /\ TypeOK /\ Budget /\ TransferInv(t)
           /\ Launched(t) /\ Distinct(t) /\ Cancels(t) /\ Holds(t) /\ Covers(t) /\ Returns(t)
           /\ Size \in Nat /\ held[t] \in Nat /\ received[t] \in SUBSET Chunks
           /\ work[t] \in 1..Last + 1 /\ next[t] \in 0..Last + 1 /\ Last \in Nat \ {0}
           /\ IsFiniteSet(Fetching(t)) /\ Cardinality(Fetching(t)) \in Nat
           /\ IsFiniteSet(received[t]) /\ Cardinality(received[t]) \in Nat
<1>1. TypeOK /\ Budget /\ TransferInv(t)
  BY DEF DownloadInv, Budget, TypeOK
<1>2. /\ Size \in Nat /\ held[t] \in Nat /\ received[t] \in SUBSET Chunks
      /\ work[t] \in 1..Last + 1 /\ next[t] \in 0..Last + 1 /\ Last \in Nat \ {0}
  BY <1>1, DownloadAssumption DEF TypeOK
<1>3. IsFiniteSet(Fetching(t))
  BY DownloadAssumption, FS_Subset DEF Fetching
<1>4. IsFiniteSet(received[t])
  <2>1. IsFiniteSet(Chunks)
    BY <1>2, FS_Interval DEF Chunks
  <2> QED
    BY <1>2, <2>1, FS_Subset
<1> QED
  BY <1>1, <1>2, <1>3, <1>4, FS_CardinalityType DEF TransferInv

\* A step that leaves the workers and what was received alone, and whatever
\* the transfer holds.
Quiet(t) ==
    /\ received'[t] = received[t] /\ work'[t] = work[t] /\ held'[t] = held[t]
    /\ \A w \in Workers : /\ worker'[<<t, w>>] = worker[<<t, w>>]
                          /\ chunk'[<<t, w>>] = chunk[<<t, w>>]
                          /\ <<t, w>> \in cancelled' <=> <<t, w>> \in cancelled

\* Its workers are then where they were.
LEMMA QuietLemma ==
    ASSUME NEW t \in Transfers, Quiet(t), Distinct(t)
    PROVE  /\ Fetching(t)' = Fetching(t) /\ (Failed(t)' <=> Failed(t)) /\ Distinct(t)'
           /\ \A w \in Workers : Over(t, w)' <=> Over(t, w)
           /\ \A w \in Fetching(t) : chunk'[<<t, w>>] = chunk[<<t, w>>]
<1>1. Fetching(t)' = Fetching(t) /\ (Failed(t)' <=> Failed(t))
  BY DEF Quiet, Fetching, Failed
<1>2. \A w \in Workers : Over(t, w)' <=> Over(t, w)
  BY DEF Quiet, Over
<1>3. \A w \in Fetching(t) : chunk'[<<t, w>>] = chunk[<<t, w>>]
  BY DEF Quiet, Fetching
<1>4. Distinct(t)'
  BY <1>1, <1>3 DEF Quiet, Distinct
<1> QED
  BY <1>1, <1>2, <1>3, <1>4

----------------------------------------------------------------------------
(* get_file() *)

\* A transfer that goes on: its workers are left alone, and a chunk that was
\* handed out stays handed out.
LEMMA GoesOn ==
    ASSUME DownloadInv, NEW t \in Transfers, Active(t),
           NEW p \in {"first", "given", "pending", "loop", "wait", "yield"},
           NEW n \in 0..Last + 1,
           pc' = [pc EXCEPT ![t] = p], next' = [next EXCEPT ![t] = n],
           ready' \in [Transfers -> BOOLEAN],
           UNCHANGED <<launch, tasks, received, slots, outcome>>,
           p \in {"loop", "wait", "yield"} => launch[t] = "done",
           p \in {"first", "given"} => n = 0,
           p \in {"pending", "loop", "wait", "yield"} => n \in Chunks,
           t \notin Files =>
               \A c \in Chunks : c < next[t] \/ (pc[t] = "yield" /\ c = next[t])
                                 => c < n \/ (p = "yield" /\ c = n)
    PROVE  DownloadInv'
<1>1. TypeOK /\ Budget /\ TransferInv(t)
  BY Parts
<1>2. TypeOK'
  BY <1>1 DEF TypeOK, tasks, slots
<1>3. Budget' /\ held' = held
  BY <1>1, SameSlots
<1>4. /\ pc'[t] = p /\ next'[t] = n
      /\ \A u \in Transfers : u # t => pc'[u] = pc[u] /\ next'[u] = next[u]
  BY <1>1 DEF TypeOK
<1>5. \A u \in Transfers : u # t => Same(u)
  BY <1>3, <1>4 DEF Same, tasks
<1>6. Quiet(t)
  BY <1>3 DEF Quiet, tasks
<1>7. /\ Fetching(t)' = Fetching(t) /\ (Failed(t)' <=> Failed(t)) /\ Distinct(t)'
      /\ \A w \in Workers : Over(t, w)' <=> Over(t, w)
      /\ \A w \in Fetching(t) : chunk'[<<t, w>>] = chunk[<<t, w>>]
  BY <1>1, <1>6, QuietLemma DEF TransferInv
<1>8. Active(t)'
  BY <1>4 DEF Active
<1>9. Launched(t)'
  BY <1>1, <1>4, <1>8 DEF TransferInv, Launched, tasks
<1>10. Cancels(t)'
  BY <1>1, <1>4, <1>7, <1>8 DEF TransferInv, Cancels, Launched, tasks
<1>11. Holds(t)'
  BY <1>1, <1>3, <1>4, <1>7 DEF TransferInv, Holds, Active
<1>12. Covers(t)'
  BY <1>1, <1>4, <1>7 DEF TransferInv, Covers, tasks
<1>13. Returns(t)'
  BY <1>1 DEF TransferInv, Launched, Returns
<1> QED
  BY <1>2, <1>3, <1>5, <1>7, <1>9, <1>10, <1>11, <1>12, <1>13, OneTransfer DEF TransferInv

LEMMA StartInv ==
    ASSUME DownloadInv, NEW t \in Transfers, Start(t)
    PROVE  DownloadInv'
<1>1. TypeOK
  BY Parts
<1>2. next' = [next EXCEPT ![t] = next[t]] /\ next[t] \in 0..Last + 1
  BY <1>1 DEF Start, TypeOK
<1>3. Active(t) /\ pc[t] = "idle" /\ ready' \in [Transfers -> BOOLEAN]
  BY <1>1 DEF Start, Active, TypeOK
<1>4. next[t] = 0
  BY <1>3, Parts DEF Covers
<1> QED
  BY <1>2, <1>3, <1>4, GoesOn DEF Start

\* Workers are cancelled: those of t that have not ended.
LEMMA CancelWorkersLemma ==
    ASSUME NEW t \in Transfers, cancelled \subseteq Transfers \X Workers, CancelWorkers(t)
    PROVE  /\ cancelled' \subseteq Transfers \X Workers
           /\ \A u \in Transfers, w \in Workers :
                 <<u, w>> \in cancelled' <=>
                     <<u, w>> \in cancelled \/ (u = t /\ ~Over(t, w))
  BY DEF CancelWorkers

\* _drop_prefetch() begins.
LEMMA DropInv ==
    ASSUME DownloadInv, NEW t \in Transfers, pc[t] \in {"first", "given"},
           NEW how \in {"raised", "returned", "left"}, Drop(t, how),
           how = "returned" => ~Full(t, 0)
    PROVE  DownloadInv'
<1>1. TypeOK /\ Budget /\ TransferInv(t)
  BY Parts
<1>2. /\ pc' = [pc EXCEPT ![t] = "drop"] /\ outcome' = [outcome EXCEPT ![t] = how]
      /\ launch' = [launch EXCEPT ![t] = IF @ = "wait" THEN "cancelled" ELSE @]
      /\ CancelWorkers(t)
      /\ UNCHANGED <<worker, chunk, work, received, next, ready, slots>>
  BY DEF Drop
<1>3. /\ cancelled' \subseteq Transfers \X Workers
      /\ \A u \in Transfers, w \in Workers :
            <<u, w>> \in cancelled' <=> <<u, w>> \in cancelled \/ (u = t /\ ~Over(t, w))
  BY <1>1, <1>2, CancelWorkersLemma DEF TypeOK
<1>4. Budget' /\ held' = held
  BY <1>1, <1>2, SameSlots
<1>5. TypeOK'
  BY <1>1, <1>2, <1>3 DEF TypeOK, slots
<1>6. /\ pc'[t] = "drop" /\ outcome'[t] = how
      /\ launch'[t] = IF launch[t] = "wait" THEN "cancelled" ELSE launch[t]
      /\ \A u \in Transfers : u # t => /\ pc'[u] = pc[u] /\ outcome'[u] = outcome[u]
                                       /\ launch'[u] = launch[u]
  BY <1>1, <1>2 DEF TypeOK
<1>7. \A u \in Transfers : u # t => Same(u)
  BY <1>2, <1>3, <1>4, <1>6 DEF Same
<1>8. Active(t) /\ ~Active(t)'
  BY <1>6 DEF Active
<1>9. Fetching(t)' = Fetching(t) /\ \A w \in Workers : Over(t, w)' <=> Over(t, w)
  BY <1>2 DEF Fetching, Over
<1>10. Launched(t)'
  BY <1>1, <1>2, <1>6, <1>8 DEF TransferInv, Launched
<1>11. Distinct(t)'
  BY <1>1, <1>2, <1>9 DEF TransferInv, Distinct
<1>12. Cancels(t)'
  BY <1>1, <1>3, <1>6, <1>8, <1>9 DEF TransferInv, Cancels
<1>13. Holds(t)'
  BY <1>1, <1>2, <1>4, <1>6, <1>9 DEF TransferInv, Holds
<1>14. Covers(t)' /\ Returns(t)'
  BY <1>6, <1>8 DEF Covers, Returns, Full
<1> QED
  BY <1>4, <1>5, <1>7, <1>10, <1>11, <1>12, <1>13, <1>14, OneTransfer DEF TransferInv

\* The finally of the loop.
LEMMA CloseInv ==
    ASSUME DownloadInv, NEW t \in Transfers, pc[t] \in {"loop", "wait", "yield"},
           NEW how \in {"raised", "returned", "left"}, Close(t, how),
           how = "returned" =>
               \A c \in Chunks : c <= Short[t] =>
                  IF t \in Files THEN c \in received[t] ELSE c <= next[t]
    PROVE  DownloadInv'
<1>1. TypeOK /\ Budget /\ TransferInv(t)
  BY Parts
<1>2. /\ pc' = [pc EXCEPT ![t] = "closed"] /\ outcome' = [outcome EXCEPT ![t] = how]
      /\ CancelWorkers(t) /\ ReleaseAll(t)
      /\ received' = [received EXCEPT ![t] = IF t \in Files THEN @ ELSE {}]
      /\ ready' = [ready EXCEPT ![t] = FALSE]
      /\ UNCHANGED <<launch, worker, chunk, work, next>>
  BY DEF Close
<1>3. /\ cancelled' \subseteq Transfers \X Workers
      /\ \A u \in Transfers, w \in Workers :
            <<u, w>> \in cancelled' <=> <<u, w>> \in cancelled \/ (u = t /\ ~Over(t, w))
  BY <1>1, <1>2, CancelWorkersLemma DEF TypeOK
<1>4. Budget' /\ \A u \in Transfers : held'[u] = IF u = t THEN 0 ELSE held[u]
  BY <1>1, <1>2, ReleaseAllSlots
<1>5. TypeOK'
  BY <1>1, <1>2, <1>3, <1>4 DEF TypeOK, Budget
<1>6. /\ pc'[t] = "closed" /\ outcome'[t] = how
      /\ received'[t] = IF t \in Files THEN received[t] ELSE {}
      /\ \A u \in Transfers : u # t => /\ pc'[u] = pc[u] /\ outcome'[u] = outcome[u]
                                       /\ received'[u] = received[u]
  BY <1>1, <1>2 DEF TypeOK
<1>7. \A u \in Transfers : u # t => Same(u)
  BY <1>2, <1>3, <1>4, <1>6 DEF Same
<1>8. Active(t) /\ ~Active(t)'
  BY <1>6 DEF Active
<1>9. Fetching(t)' = Fetching(t) /\ \A w \in Workers : Over(t, w)' <=> Over(t, w)
  BY <1>2 DEF Fetching, Over
<1>10. Launched(t)'
  BY <1>1, <1>2, <1>6, <1>8 DEF TransferInv, Launched
<1>11. Distinct(t)'
  BY <1>1, <1>2, <1>6, <1>9 DEF TransferInv, Distinct
<1>12. Cancels(t)'
  BY <1>1, <1>3, <1>6, <1>8, <1>9 DEF TransferInv, Cancels
<1>13. Holds(t)'
  BY <1>4, <1>6 DEF Holds
<1>14. Covers(t)' /\ Returns(t)'
  BY <1>2, <1>6, <1>8 DEF Covers, Returns
<1> QED
  BY <1>4, <1>5, <1>7, <1>10, <1>11, <1>12, <1>13, <1>14, OneTransfer DEF TransferInv

\* _drop_prefetch() has waited for the workers.
LEMMA DroppedInv ==
    ASSUME DownloadInv, NEW t \in Transfers, Dropped(t)
    PROVE  DownloadInv'
<1>1. TypeOK /\ Budget /\ TransferInv(t)
  BY Parts
<1>2. /\ pc[t] = "drop" /\ pc' = [pc EXCEPT ![t] = "closed"] /\ ReleaseAll(t)
      /\ UNCHANGED <<launch, worker, chunk, cancelled, work, received, next, ready, outcome>>
  BY DEF Dropped, tasks
<1>3. Budget' /\ \A u \in Transfers : held'[u] = IF u = t THEN 0 ELSE held[u]
  BY <1>1, <1>2, ReleaseAllSlots
<1>4. TypeOK'
  BY <1>1, <1>2, <1>3 DEF TypeOK, Budget
<1>5. pc'[t] = "closed" /\ \A u \in Transfers : u # t => pc'[u] = pc[u]
  BY <1>1, <1>2 DEF TypeOK
<1>6. \A u \in Transfers : u # t => Same(u)
  BY <1>2, <1>3, <1>5 DEF Same
<1>7. ~Active(t) /\ ~Active(t)'
  BY <1>2, <1>5 DEF Active
<1>8. Fetching(t)' = Fetching(t) /\ \A w \in Workers : Over(t, w)' <=> Over(t, w)
  BY <1>2 DEF Fetching, Over
<1>9. Launched(t)' /\ Distinct(t)'
  BY <1>1, <1>2, <1>5, <1>7, <1>8 DEF TransferInv, Launched, Distinct
<1>10. Cancels(t)'
  BY <1>1, <1>2, <1>5, <1>7, <1>8 DEF TransferInv, Cancels
<1>11. Holds(t)' /\ Covers(t)' /\ Returns(t)'
  BY <1>1, <1>2, <1>3, <1>5, <1>7 DEF TransferInv, Cancels, Holds, Covers, Returns, Full
<1> QED
  BY <1>3, <1>4, <1>6, <1>9, <1>10, <1>11, OneTransfer DEF TransferInv

\* A transfer that nobody cleans up after: no worker was launched, or it is
\* orphaned.
LEMMA AbandonInv ==
    ASSUME DownloadInv, NEW t \in Transfers, pc[t] # "closed",
           NEW o \in {"raised", "left", "orphaned"},
           launch[t] = "done" => o = "orphaned",
           pc' = [pc EXCEPT ![t] = "closed"], outcome' = [outcome EXCEPT ![t] = o],
           launch' = [launch EXCEPT ![t] = IF @ = "wait" THEN "cancelled" ELSE @],
           NEW n \in 0..Last + 1, next' = [next EXCEPT ![t] = n],
           UNCHANGED <<tasks, received, ready, slots>>
    PROVE  DownloadInv'
<1>1. TypeOK /\ Budget /\ TransferInv(t) /\ received[t] \subseteq Chunks
  BY Parts
<1>2. UNCHANGED <<worker, chunk, cancelled, work, received, ready>>
  BY DEF tasks
<1>3. Budget' /\ held' = held
  BY <1>1, SameSlots
<1>4. TypeOK'
  BY <1>1, <1>2, <1>3 DEF TypeOK, Budget
<1>5. /\ pc'[t] = "closed" /\ outcome'[t] = o
      /\ launch'[t] = IF launch[t] = "wait" THEN "cancelled" ELSE launch[t]
      /\ \A u \in Transfers : u # t => /\ pc'[u] = pc[u] /\ outcome'[u] = outcome[u]
                                       /\ launch'[u] = launch[u] /\ next'[u] = next[u]
  BY <1>1 DEF TypeOK
<1>6. \A u \in Transfers : u # t => Same(u)
  BY <1>2, <1>3, <1>5 DEF Same
<1>7. ~Active(t)'
  BY <1>5 DEF Active
<1>8. Fetching(t)' = Fetching(t) /\ \A w \in Workers : Over(t, w)' <=> Over(t, w)
  BY <1>2 DEF Fetching, Over
<1>9. Launched(t)'
  BY <1>1, <1>2, <1>5, <1>7 DEF TransferInv, Launched
<1>10. Distinct(t)'
  BY <1>1, <1>2, <1>8 DEF TransferInv, Distinct
<1>11. ASSUME o # "orphaned"
       PROVE  Fetching(t) = {} /\ received[t] = {} /\ \A w \in Workers : Over(t, w)
  <2>1. work[t] = 1 /\ \A w \in Workers : worker[<<t, w>>] = "off"
    BY <1>1, <1>11 DEF TransferInv, Launched
  <2>2. \A c \in received[t] : c \in Nat /\ c >= 1 /\ c < 1
    BY <1>1, <2>1 DEF TransferInv, Distinct, Chunks
  <2> QED
    BY <2>1, <2>2 DEF Fetching, Over
<1>12. Cancels(t)'
  BY <1>1, <1>2, <1>5, <1>7, <1>8, <1>11 DEF TransferInv, Cancels
<1>13. Holds(t)'
  <2>1. CASE o = "orphaned"
    BY <1>1, <1>2, <1>3, <1>5, <1>8, <2>1 DEF TransferInv, Holds
  <2>2. CASE o # "orphaned"
    <3>1. Cardinality(Fetching(t)) = 0 /\ Cardinality(received[t]) = 0
      BY <1>11, <2>2, FS_EmptySet
    <3>2. held[t] = 0
      BY <1>1, <3>1 DEF TransferInv, Holds
    <3> QED
      BY <1>3, <1>5, <2>2, <3>2 DEF Holds
  <2> QED
    BY <2>1, <2>2
<1>14. Covers(t)' /\ Returns(t)'
  BY <1>5, <1>7 DEF Covers, Returns
<1> QED
  BY <1>3, <1>4, <1>6, <1>9, <1>10, <1>12, <1>13, <1>14, OneTransfer DEF TransferInv

\* _launch() is done, or failed.
LEMMA LaunchInv ==
    ASSUME DownloadInv, NEW t \in Transfers, Launch(t)
    PROVE  DownloadInv'
<1>1. TypeOK /\ Budget /\ TransferInv(t)
  BY Parts
<1>2. PICK l \in {"done", "failed"} :
         /\ launch' = [launch EXCEPT ![t] = l]
         /\ l = "done" => worker' = [tw \in Transfers \X Workers |->
                                       IF tw[1] = t THEN "slot" ELSE worker[tw]]
         /\ l = "failed" => UNCHANGED worker
  BY DEF Launch
<1>3. /\ pc[t] # "idle" /\ launch[t] = "wait"
      /\ UNCHANGED <<pc, chunk, cancelled, work, received, next, ready, slots, outcome>>
  BY DEF Launch
<1>4. Budget' /\ held' = held
  BY <1>1, <1>3, SameSlots
<1>5. worker' \in [Transfers \X Workers -> {"off", "slot", "fetch", "done", "failed"}]
  BY <1>1, <1>2 DEF TypeOK
<1>6. TypeOK'
  BY <1>1, <1>2, <1>3, <1>5 DEF TypeOK, slots
<1>7. launch'[t] = l /\ \A u \in Transfers : u # t => launch'[u] = launch[u]
  BY <1>1, <1>2 DEF TypeOK
<1>8. \A u \in Transfers, w \in Workers :
         worker'[<<u, w>>] = IF l = "done" /\ u = t THEN "slot" ELSE worker[<<u, w>>]
  BY <1>2
<1>9. \A u \in Transfers : u # t => Same(u)
  BY <1>3, <1>4, <1>7, <1>8 DEF Same
<1>10. Active(t) /\ Active(t)' /\ outcome[t] = "none"
  BY <1>1, <1>3 DEF TransferInv, Launched, Active
<1>11. work[t] = 1 /\ \A w \in Workers : worker[<<t, w>>] = "off"
  BY <1>1, <1>3 DEF TransferInv, Launched
<1>12. Fetching(t) = {} /\ Fetching(t)' = {}
  BY <1>8, <1>11 DEF Fetching
<1>13. Launched(t)'
  BY <1>1, <1>3, <1>7, <1>8, <1>10, <1>11 DEF TransferInv, Launched
<1>14. Distinct(t)'
  BY <1>1, <1>3, <1>12 DEF TransferInv, Distinct
<1>15. Cancels(t)'
  BY <1>1, <1>3, <1>10 DEF TransferInv, Cancels
<1>16. Holds(t)'
  BY <1>1, <1>3, <1>4, <1>12 DEF TransferInv, Holds
<1>17. Covers(t)'
  <2>1. \A w \in Workers : worker'[<<t, w>>] # "done"
    BY <1>8, <1>11
  <2>2. \A c \in Chunks : ~(c < work'[t])
    BY <1>3, <1>11 DEF Chunks
  <2> QED
    BY <1>1, <1>3, <2>1, <2>2 DEF TransferInv, Covers
<1>18. Returns(t)'
  BY <1>3, <1>10 DEF Returns
<1> QED
  BY <1>4, <1>6, <1>9, <1>13, <1>14, <1>15, <1>16, <1>17, <1>18, OneTransfer
  DEF TransferInv

LEMMA FirstInv ==
    ASSUME DownloadInv, NEW t \in Transfers, First(t)
    PROVE  DownloadInv'
<1>1. TypeOK
  BY Parts
<1>2. pc[t] = "first"
  BY DEF First
<1>3. CASE Drop(t, "raised")
  BY <1>2, <1>3, DropInv
<1>4. CASE ~Drop(t, "raised")
  <2>1. /\ pc' = [pc EXCEPT ![t] = "given"]
        /\ UNCHANGED <<launch, tasks, received, next, ready, slots, outcome>>
    BY <1>4 DEF First
  <2>2. next' = [next EXCEPT ![t] = next[t]] /\ next[t] \in 0..Last + 1
    BY <1>1, <2>1 DEF TypeOK
  <2>3. Active(t) /\ ready' \in [Transfers -> BOOLEAN]
    BY <1>1, <1>2, <2>1 DEF Active, TypeOK
  <2>4. next[t] = 0
    BY <1>2, Parts DEF Covers
  <2> QED
    BY <1>2, <2>1, <2>2, <2>3, <2>4, GoesOn
<1> QED
  BY <1>3, <1>4

\* await pending, with next at n.
LEMMA AwaitLaunchInv ==
    ASSUME DownloadInv, NEW t \in Transfers, pc[t] \in {"given", "pending"},
           NEW n \in Chunks, next' = [next EXCEPT ![t] = n], next[t] <= n,
           AwaitLaunch(t), UNCHANGED <<launch, tasks, received, ready, slots>>
    PROVE  DownloadInv'
<1>1. TypeOK /\ TransferInv(t) /\ Last \in Nat /\ next[t] \in Nat
  BY Parts
<1>2. Active(t)
  BY DEF Active
<1>3. launch[t] \in {"wait", "done", "failed"}
  BY <1>1, <1>2 DEF TransferInv, Launched, TypeOK
<1>4. n \in 0..Last + 1 /\ n \in Nat
  BY <1>1 DEF Chunks
<1>5. CASE launch[t] = "failed"
  <2>1. pc' = [pc EXCEPT ![t] = "closed"]
    BY <1>5 DEF AwaitLaunch
  <2>2. outcome' = [outcome EXCEPT ![t] = "raised"]
    BY <1>5 DEF AwaitLaunch
  <2>3. launch' = [launch EXCEPT ![t] = IF @ = "wait" THEN "cancelled" ELSE @]
    BY <1>1, <1>5 DEF TypeOK
  <2> QED
    BY <1>4, <1>5, <2>1, <2>2, <2>3, AbandonInv
<1>6. CASE launch[t] # "failed"
  <2> DEFINE p == IF launch[t] = "wait" THEN "pending" ELSE "loop"
  <2>1. pc' = [pc EXCEPT ![t] = p]
    BY <1>3, <1>6 DEF AwaitLaunch
  <2>2. outcome' = outcome
    BY <1>1, <1>6 DEF AwaitLaunch, TypeOK
  <2>3. p \in {"pending", "loop"} /\ (p = "loop" => launch[t] = "done")
    BY <1>3, <1>6
  <2>4. ready' \in [Transfers -> BOOLEAN]
    BY <1>1 DEF TypeOK
  <2>5. \A c \in Chunks : c < next[t] \/ (pc[t] = "yield" /\ c = next[t]) => c < n
    BY <1>1, <1>4 DEF Chunks
  <2> HIDE DEF p
  <2> QED
    BY <1>2, <1>4, <2>1, <2>2, <2>3, <2>4, <2>5, GoesOn
<1> QED
  BY <1>5, <1>6

LEMMA SecondInv ==
    ASSUME DownloadInv, NEW t \in Transfers, Second(t)
    PROVE  DownloadInv'
<1>1. pc[t] = "given"
  BY DEF Second
<1>2. CASE ~Full(t, 0) /\ Drop(t, "returned")
  BY <1>1, <1>2, DropInv
<1>3. CASE ~(~Full(t, 0) /\ Drop(t, "returned"))
  <2>1. /\ next' = [next EXCEPT ![t] = 1] /\ AwaitLaunch(t)
        /\ UNCHANGED <<launch, tasks, received, ready, slots>>
    BY <1>3 DEF Second
  <2>2. 1 \in Chunks
    BY DownloadAssumption DEF Chunks
  <2>3. next[t] <= 1
    BY <1>1, Parts DEF Covers
  <2> QED
    BY <1>1, <2>1, <2>2, <2>3, AwaitLaunchInv
<1> QED
  BY <1>2, <1>3

LEMMA PendingInv ==
    ASSUME DownloadInv, NEW t \in Transfers, Pending(t)
    PROVE  DownloadInv'
<1>1. TypeOK /\ next[t] \in Nat
  BY Parts
<1>2. pc[t] = "pending" /\ AwaitLaunch(t)
      /\ UNCHANGED <<launch, tasks, received, next, ready, slots>>
  BY DEF Pending
<1>3. next[t] \in Chunks
  BY <1>2, Parts DEF Covers
<1>4. next' = [next EXCEPT ![t] = next[t]]
  BY <1>1, <1>2 DEF TypeOK
<1>5. next[t] <= next[t]
  BY <1>1
<1> QED
  BY <1>2, <1>3, <1>4, <1>5, AwaitLaunchInv

\* When every worker has ended and none failed, nothing is missing.
LEMMA LoopEndsInv ==
    ASSUME DownloadInv, NEW t \in Transfers, pc[t] = "loop", LoopEnds(t),
           t \notin Files => next[t] \notin received[t]
    PROVE  DownloadInv'
<1>1. /\ TypeOK /\ TransferInv(t) /\ Last \in Nat /\ next[t] \in Nat
      /\ next[t] \in 0..Last + 1 /\ work[t] \in Nat
  BY Parts
<1>2. Active(t) /\ launch[t] = "done" /\ next[t] \in Chunks
  BY <1>1 DEF Active, TransferInv, Launched, Covers
<1>3. CASE Failed(t)
  <2>1. Close(t, "raised")
    BY <1>3 DEF LoopEnds
  <2> QED
    BY <2>1, CloseInv
<1>4. CASE ~Failed(t) /\ AllOver(t)
  <2>1. Close(t, "returned")
    BY <1>4 DEF LoopEnds
  <2>2. PICK w \in Workers : TRUE
    BY DownloadAssumption
  <2>3. \A v \in Workers : worker[<<t, v>>] = "done"
    BY <1>1, <1>2, <1>4 DEF TransferInv, Launched, AllOver, Over, Failed
  <2>4. \A c \in Chunks : c <= Short[t] => c < work[t]
    BY <1>1, <1>2, <2>2, <2>3 DEF TransferInv, Covers
  <2>5. \A c \in Chunks : c < work[t] =>
           c \in received[t] \/ (t \notin Files /\ c < next[t])
    BY <1>1, <1>2, <1>4, <2>3 DEF TransferInv, Covers, Fetching
  <2>6. ASSUME NEW c \in Chunks, c <= Short[t]
        PROVE  IF t \in Files THEN c \in received[t] ELSE c <= next[t]
    <3>1. CASE t \in Files
      BY <2>4, <2>5, <2>6, <3>1
    <3>2. CASE t \notin Files
      <4>1. Short[t] \in Nat /\ c \in Nat
        BY DownloadAssumption DEF Chunks
      <4>2. SUFFICES ASSUME ~(c <= next[t]) PROVE FALSE
        BY <3>2
      <4>3. next[t] <= Short[t]
        BY <1>1, <2>6, <4>1, <4>2
      <4>4. next[t] \in received[t] \/ next[t] < next[t]
        BY <1>2, <2>4, <2>5, <4>3
      <4> QED
        BY <1>1, <3>2, <4>4
    <3> QED
      BY <3>1, <3>2
  <2> QED
    BY <2>1, <2>6, CloseInv
<1>5. CASE ~Failed(t) /\ ~AllOver(t)
  <2>1. /\ pc' = [pc EXCEPT ![t] = "wait"]
        /\ UNCHANGED <<launch, tasks, received, next, ready, slots, outcome>>
    BY <1>5 DEF LoopEnds
  <2>2. next' = [next EXCEPT ![t] = next[t]] /\ ready' \in [Transfers -> BOOLEAN]
    BY <1>1, <2>1 DEF TypeOK
  <2> QED
    BY <1>1, <1>2, <2>1, <2>2, GoesOn
<1> QED
  BY <1>3, <1>4, <1>5

\* A stream hands out the next chunk.
LEMMA YieldInv ==
    ASSUME DownloadInv, NEW t \in Transfers, t \notin Files, pc[t] = "loop",
           next[t] \in received[t], pc' = [pc EXCEPT ![t] = "yield"],
           received' = [received EXCEPT ![t] = @ \ {next[t]}], Release(t),
           UNCHANGED <<launch, tasks, next, ready, outcome>>
    PROVE  DownloadInv'
<1>1. /\ TypeOK /\ Budget /\ TransferInv(t) /\ held[t] \in Nat
      /\ received[t] \in SUBSET Chunks
      /\ IsFiniteSet(received[t]) /\ Cardinality(received[t]) \in Nat
      /\ Cardinality(Fetching(t)) \in Nat
  BY Parts
<1>2. UNCHANGED <<launch, worker, chunk, cancelled, work, next, ready, outcome>>
  BY DEF tasks
<1>3. /\ Budget'
      /\ \A u \in Transfers :
            held'[u] = IF u = t /\ held[t] > 0 THEN held[t] - 1 ELSE held[u]
  BY <1>1, ReleaseSlot
<1>4. received' \in [Transfers -> SUBSET Chunks]
  BY <1>1 DEF TypeOK
<1>5. TypeOK'
  BY <1>1, <1>2, <1>3, <1>4 DEF TypeOK, Budget
<1>6. /\ pc'[t] = "yield" /\ received'[t] = received[t] \ {next[t]}
      /\ \A u \in Transfers : u # t => pc'[u] = pc[u] /\ received'[u] = received[u]
  BY <1>1 DEF TypeOK
<1>7. \A u \in Transfers : u # t => Same(u)
  BY <1>2, <1>3, <1>6 DEF Same
<1>8. Active(t) /\ Active(t)'
  BY <1>6 DEF Active
<1>9. /\ Fetching(t)' = Fetching(t) /\ (Failed(t)' <=> Failed(t))
      /\ \A w \in Workers : Over(t, w)' <=> Over(t, w)
  BY <1>2 DEF Fetching, Over, Failed
<1>10. Launched(t)'
  BY <1>1, <1>2, <1>6, <1>8 DEF TransferInv, Launched
<1>11. Distinct(t)'
  BY <1>1, <1>2, <1>6, <1>9 DEF TransferInv, Distinct
<1>12. Cancels(t)'
  BY <1>1, <1>2, <1>6, <1>8, <1>9 DEF TransferInv, Cancels, Launched
<1>13. Holds(t)'
  <2>1. Cardinality(received'[t]) = Cardinality(received[t]) - 1
    <3>1. Cardinality(received[t] \ {next[t]}) = Cardinality(received[t]) - 1
      BY <1>1, FS_RemoveElement
    <3> QED
      BY <1>6, <3>1
  <2>2. held[t] = Cardinality(Fetching(t)) + Cardinality(received[t])
    BY <1>1 DEF TransferInv, Holds
  <2>3. Cardinality(received[t]) > 0
    <3>1. Cardinality(received[t]) # 0
      BY <1>1, FS_EmptySet
    <3> QED
      BY <1>1, <3>1
  <2>4. held'[t] = Cardinality(Fetching(t)) + Cardinality(received'[t])
    BY <1>1, <1>3, <2>1, <2>2, <2>3
  <2>5. held'[t] = Cardinality(Fetching(t)') + Cardinality(received'[t])
    BY <1>9, <2>4
  <2> QED
    BY <1>6, <2>5 DEF Holds
<1>14. Covers(t)'
  <2>1. next[t] \in Chunks
    BY <1>1 DEF TransferInv, Covers
  <2>2. \A w \in Workers : worker'[<<t, w>>] = "done" =>
           \A c \in Chunks : c <= Short[t] => c < work'[t]
    BY <1>1, <1>2, <1>8 DEF TransferInv, Covers
  <2>3. ASSUME NEW c \in Chunks, c < work'[t]
        PROVE  \/ c \in received'[t] \/ Failed(t)'
               \/ \E w \in Fetching(t)' : chunk'[<<t, w>>] = c
               \/ c < next'[t] \/ c = next'[t]
    BY <1>1, <1>2, <1>6, <1>8, <1>9, <2>3 DEF TransferInv, Covers
  <2> QED
    BY <1>2, <1>6, <2>1, <2>2, <2>3 DEF Covers
<1>15. Returns(t)'
  BY <1>1, <1>2, <1>8 DEF TransferInv, Launched, Returns
<1> QED
  BY <1>3, <1>5, <1>7, <1>10, <1>11, <1>12, <1>13, <1>14, <1>15, OneTransfer DEF TransferInv

LEMMA LoopInv ==
    ASSUME DownloadInv, NEW t \in Transfers, Loop(t)
    PROVE  DownloadInv'
<1>1. pc[t] = "loop"
  BY DEF Loop
<1>2. CASE t \in Files /\ received[t] = Chunks
  <2>1. Close(t, "returned")
    BY <1>2 DEF Loop
  <2> QED
    BY <1>1, <1>2, <2>1, CloseInv
<1>3. CASE t \in Files /\ received[t] # Chunks
  <2>1. LoopEnds(t)
    BY <1>3 DEF Loop
  <2> QED
    BY <1>1, <1>3, <2>1, LoopEndsInv
<1>4. CASE t \notin Files /\ next[t] \in received[t]
  <2>1. /\ pc' = [pc EXCEPT ![t] = "yield"]
        /\ received' = [received EXCEPT ![t] = @ \ {next[t]}]
        /\ Release(t) /\ UNCHANGED <<launch, tasks, next, ready, outcome>>
    BY <1>4 DEF Loop
  <2> QED
    BY <1>1, <1>4, <2>1, YieldInv
<1>5. CASE t \notin Files /\ next[t] \notin received[t]
  <2>1. LoopEnds(t)
    BY <1>5 DEF Loop
  <2> QED
    BY <1>1, <1>5, <2>1, LoopEndsInv
<1> QED
  BY <1>2, <1>3, <1>4, <1>5

LEMMA WakeInv ==
    ASSUME DownloadInv, NEW t \in Transfers, Wake(t)
    PROVE  DownloadInv'
<1> DEFINE p == IF t \in Files THEN "yield" ELSE "loop"
<1>1. /\ TypeOK /\ Launched(t) /\ Covers(t) /\ next[t] \in 0..Last + 1
  BY Parts
<1>2. /\ pc[t] = "wait" /\ pc' = [pc EXCEPT ![t] = p]
      /\ ready' = [ready EXCEPT ![t] = FALSE]
      /\ UNCHANGED <<launch, tasks, received, next, slots, outcome>>
  BY DEF Wake
<1>3. next' = [next EXCEPT ![t] = next[t]] /\ ready' \in [Transfers -> BOOLEAN]
  BY <1>1, <1>2 DEF TypeOK
<1>4. Active(t) /\ launch[t] = "done" /\ next[t] \in Chunks
  BY <1>1, <1>2 DEF Active, Launched, Covers
<1>5. p \in {"loop", "yield"}
  OBVIOUS
<1> HIDE DEF p
<1> QED
  BY <1>1, <1>2, <1>3, <1>4, <1>5, GoesOn

LEMMA MoreInv ==
    ASSUME DownloadInv, NEW t \in Transfers, More(t)
    PROVE  DownloadInv'
<1>1. /\ TypeOK /\ Launched(t) /\ Covers(t) /\ next[t] \in 0..Last + 1
      /\ Last \in Nat /\ next[t] \in Nat
  BY Parts
<1>2. pc[t] = "yield"
  BY DEF More
<1>3. Active(t) /\ launch[t] = "done" /\ next[t] \in Chunks
  BY <1>1, <1>2 DEF Active, Launched, Covers
<1>4. CASE t \in Files
  <2>1. /\ pc' = [pc EXCEPT ![t] = "loop"]
        /\ UNCHANGED <<launch, tasks, received, next, ready, slots, outcome>>
    BY <1>4 DEF More
  <2>2. next' = [next EXCEPT ![t] = next[t]] /\ ready' \in [Transfers -> BOOLEAN]
    BY <1>1, <2>1 DEF TypeOK
  <2> QED
    BY <1>1, <1>3, <1>4, <2>1, <2>2, GoesOn
<1>5. CASE t \notin Files /\ Full(t, next[t]) /\ next[t] < Last
  <2> DEFINE n == next[t] + 1
  <2>1. /\ pc' = [pc EXCEPT ![t] = "loop"] /\ next' = [next EXCEPT ![t] = n]
        /\ UNCHANGED <<launch, tasks, received, ready, slots, outcome>>
    BY <1>5 DEF More
  <2>2. n \in Chunks /\ n \in 0..Last + 1
    BY <1>1, <1>5 DEF Chunks
  <2>3. ready' \in [Transfers -> BOOLEAN]
    BY <1>1, <2>1 DEF TypeOK
  <2>4. \A c \in Chunks : c < next[t] \/ (pc[t] = "yield" /\ c = next[t]) => c < n
    BY <1>1 DEF Chunks
  <2> HIDE DEF n
  <2> QED
    BY <1>3, <2>1, <2>2, <2>3, <2>4, GoesOn
<1>6. CASE t \notin Files /\ ~(Full(t, next[t]) /\ next[t] < Last)
  <2>1. Close(t, "returned")
    BY <1>6 DEF More
  <2>2. \A c \in Chunks : c <= Short[t] => c <= next[t]
    BY <1>1, <1>3, <1>6, DownloadAssumption DEF Chunks, Full
  <2> QED
    BY <1>2, <1>6, <2>1, <2>2, CloseInv
<1> QED
  BY <1>4, <1>5, <1>6

LEMMA LeaveInv ==
    ASSUME DownloadInv, NEW t \in Transfers, Leave(t)
    PROVE  DownloadInv'
<1>1. TypeOK /\ next[t] \in 0..Last + 1
  BY Parts
<1>2. CASE pc[t] = "given" /\ Drop(t, "left")
  BY <1>2, DropInv
<1>3. CASE pc[t] \in {"wait", "yield"} /\ Close(t, "left")
  BY <1>3, CloseInv
<1>4. CASE /\ pc[t] \in {"pending", "drop"}
           /\ pc' = [pc EXCEPT ![t] = "closed"]
           /\ outcome' = [outcome EXCEPT ![t] = IF launch[t] = "done" THEN "orphaned"
                                                ELSE "left"]
           /\ launch' = [launch EXCEPT ![t] = IF @ = "wait" THEN "cancelled" ELSE @]
           /\ UNCHANGED <<tasks, received, next, ready, slots>>
  <2> DEFINE o == IF launch[t] = "done" THEN "orphaned" ELSE "left"
  <2>1. next' = [next EXCEPT ![t] = next[t]]
    BY <1>1, <1>4 DEF TypeOK
  <2>2. o \in {"left", "orphaned"} /\ (launch[t] = "done" => o = "orphaned")
    OBVIOUS
  <2>3. outcome' = [outcome EXCEPT ![t] = o]
    BY <1>4
  <2> HIDE DEF o
  <2> QED
    BY <1>1, <1>4, <2>1, <2>2, <2>3, AbandonInv
<1> QED
  BY <1>2, <1>3, <1>4 DEF Leave

----------------------------------------------------------------------------
(* _worker() *)

\* A worker that runs belongs to a transfer that goes on or was orphaned, and
\* holds a slot while it fetches.
LEMMA RunningWorker ==
    ASSUME DownloadInv, NEW t \in Transfers, NEW w \in Workers, ~Over(t, w)
    PROVE  /\ launch[t] = "done"
           /\ <<t, w>> \notin cancelled => ~(pc[t] = "closed" /\ outcome[t] # "orphaned")
           /\ w \in Fetching(t) /\ ~(pc[t] = "closed" /\ outcome[t] # "orphaned")
                 => held[t] > 0
<1>1. /\ Launched(t) /\ Cancels(t) /\ Holds(t) /\ Cardinality(Fetching(t)) \in Nat
      /\ IsFiniteSet(Fetching(t)) /\ Cardinality(received[t]) \in Nat
  BY Parts
<1>2. launch[t] = "done"
  BY <1>1 DEF Launched, Over
<1>3. <<t, w>> \notin cancelled => ~(pc[t] = "closed" /\ outcome[t] # "orphaned")
  BY <1>1 DEF Cancels, Active
<1>4. ASSUME w \in Fetching(t), ~(pc[t] = "closed" /\ outcome[t] # "orphaned")
      PROVE  held[t] > 0
  <2>1. Cardinality(Fetching(t)) # 0
    BY <1>1, <1>4, FS_EmptySet
  <2> QED
    BY <1>1, <1>4, <2>1 DEF Holds
<1> QED
  BY <1>2, <1>3, <1>4

\* A worker that is not cancelled takes a chunk from the queue.
LEMMA AcquireChunkInv ==
    ASSUME DownloadInv, NEW t \in Transfers, NEW w \in Workers, Acquire(t, w),
           work[t] <= Last
    PROVE  DownloadInv'
<1>1. /\ TypeOK /\ Budget /\ TransferInv(t) /\ held[t] \in Nat /\ Last \in Nat
      /\ work[t] \in 1..Last + 1 /\ received[t] \in SUBSET Chunks
      /\ IsFiniteSet(Fetching(t)) /\ Cardinality(Fetching(t)) \in Nat
      /\ Cardinality(received[t]) \in Nat
  BY Parts
<1>2. /\ worker[<<t, w>>] = "slot" /\ <<t, w>> \notin cancelled /\ free > 0
      /\ worker' = [worker EXCEPT ![<<t, w>>] = "fetch"]
      /\ chunk' = [chunk EXCEPT ![<<t, w>>] = work[t]]
      /\ work' = [work EXCEPT ![t] = @ + 1]
      /\ held' = [held EXCEPT ![t] = @ + 1] /\ free' = free - 1
      /\ UNCHANGED <<ready, pc, launch, cancelled, received, next, outcome>>
  BY DEF Acquire
<1>3. Budget' /\ \A u \in Transfers : held'[u] = IF u = t THEN held[t] + 1 ELSE held[u]
  BY <1>1, <1>2, TakeSlot
<1>4. /\ worker' \in [Transfers \X Workers -> {"off", "slot", "fetch", "done", "failed"}]
      /\ \A u \in Transfers, v \in Workers :
            worker'[<<u, v>>] = IF u = t /\ v = w THEN "fetch" ELSE worker[<<u, v>>]
  BY <1>1, <1>2, PairUpdate DEF TypeOK
<1>5. work[t] \in 0..Last /\ work[t] \in Chunks /\ work[t] + 1 \in 1..Last + 1
  BY <1>1 DEF Chunks
<1>6. /\ chunk' \in [Transfers \X Workers -> 0..Last]
      /\ \A u \in Transfers, v \in Workers :
            chunk'[<<u, v>>] = IF u = t /\ v = w THEN work[t] ELSE chunk[<<u, v>>]
  BY <1>1, <1>2, <1>5, PairUpdate DEF TypeOK
<1>7. /\ work' \in [Transfers -> 1..Last + 1]
      /\ \A u \in Transfers : work'[u] = IF u = t THEN work[t] + 1 ELSE work[u]
  BY <1>1, <1>2, <1>5 DEF TypeOK
<1>8. TypeOK'
  BY <1>1, <1>2, <1>3, <1>4, <1>6, <1>7 DEF TypeOK, Budget
<1>9. \A u \in Transfers : u # t => Same(u)
  BY <1>2, <1>3, <1>4, <1>6, <1>7 DEF Same
<1>10. Fetching(t)' = Fetching(t) \cup {w} /\ w \notin Fetching(t)
  BY <1>2, <1>4 DEF Fetching
<1>11. (Failed(t)' <=> Failed(t)) /\ (Active(t)' <=> Active(t)) /\ ~Over(t, w)
       /\ \A v \in Workers : Over(t, v)' <=> Over(t, v)
  BY <1>2, <1>4 DEF Failed, Active, Over
<1>12. launch[t] = "done" /\ ~(pc[t] = "closed" /\ outcome[t] # "orphaned")
  BY <1>2, <1>11, RunningWorker
<1>13. Launched(t)'
  BY <1>1, <1>2, <1>4, <1>11, <1>12 DEF TransferInv, Launched
<1>14. Distinct(t)'
  <2>1. \A c \in received[t] : c \in Nat /\ c < work[t]
    BY <1>1 DEF TransferInv, Distinct, Chunks
  <2>2. \A v \in Fetching(t) : /\ chunk'[<<t, v>>] = chunk[<<t, v>>]
                               /\ chunk[<<t, v>>] \in Nat /\ chunk[<<t, v>>] < work[t]
                               /\ chunk[<<t, v>>] \in Chunks
                               /\ chunk[<<t, v>>] \notin received[t]
    BY <1>1, <1>6, <1>10 DEF TransferInv, Distinct, Fetching, Chunks
  <2>3. work[t] \in Nat /\ work[t] \notin received[t] /\ chunk'[<<t, w>>] = work[t]
    BY <1>1, <1>6, <2>1
  <2>4. \A c \in received'[t] : c < work'[t]
    BY <1>2, <1>7, <2>1, <2>3
  <2>5. \A v \in Fetching(t)' : /\ chunk'[<<t, v>>] \in Chunks /\ chunk'[<<t, v>>] < work'[t]
                                /\ chunk'[<<t, v>>] \notin received'[t]
    BY <1>2, <1>5, <1>7, <1>10, <2>2, <2>3
  <2>6. \A v, x \in Fetching(t)' : chunk'[<<t, v>>] = chunk'[<<t, x>>] => v = x
    BY <1>1, <1>10, <2>2, <2>3 DEF TransferInv, Distinct
  <2> QED
    BY <2>4, <2>5, <2>6 DEF Distinct
<1>15. Cancels(t)'
  BY <1>1, <1>2, <1>11 DEF TransferInv, Cancels
<1>16. Holds(t)'
  <2>1. Cardinality(Fetching(t) \cup {w}) = Cardinality(Fetching(t)) + 1
    BY <1>1, <1>10, FS_AddElement
  <2>2. Cardinality(Fetching(t)') = Cardinality(Fetching(t)) + 1
    BY <1>10, <2>1
  <2>3. held[t] = Cardinality(Fetching(t))
                  + (IF t \in Files THEN 0 ELSE Cardinality(received[t]))
    BY <1>1, <1>12 DEF TransferInv, Holds
  <2>4. held'[t] = Cardinality(Fetching(t)')
                   + (IF t \in Files THEN 0 ELSE Cardinality(received[t]))
    BY <1>1, <1>3, <2>2, <2>3
  <2> QED
    BY <1>2, <1>12, <2>4 DEF Holds
<1>17. Covers(t)'
  <2>1. work[t] \in Nat /\ work'[t] = work[t] + 1 /\ \A c \in Chunks : c \in Nat
    BY <1>1, <1>7 DEF Chunks
  <2>2. ASSUME Active(t), NEW v \in Workers, worker'[<<t, v>>] = "done",
               NEW c \in Chunks, c <= Short[t]
        PROVE  c < work'[t]
    <3>1. worker[<<t, v>>] = "done"
      BY <1>2, <1>4, <2>2
    <3>2. c < work[t]
      BY <1>1, <2>2, <3>1 DEF TransferInv, Covers
    <3> QED
      BY <2>1, <3>2
  <2>3. ASSUME Active(t), NEW c \in Chunks, c < work'[t]
        PROVE  \/ c \in received[t] \/ Failed(t)
               \/ \E v \in Fetching(t)' : chunk'[<<t, v>>] = c
               \/ t \notin Files /\ (c < next[t] \/ (pc[t] = "yield" /\ c = next[t]))
    <3>1. CASE c = work[t]
      BY <1>6, <1>10, <3>1
    <3>2. CASE c < work[t]
      <4>1. \A v \in Fetching(t) : chunk'[<<t, v>>] = chunk[<<t, v>>]
        BY <1>6, <1>10 DEF Fetching
      <4> QED
        BY <1>1, <1>10, <2>3, <3>2, <4>1 DEF TransferInv, Covers
    <3> QED
      BY <2>1, <2>3, <3>1, <3>2
  <2> QED
    BY <1>1, <1>2, <1>11, <2>2, <2>3 DEF TransferInv, Covers
<1>18. Returns(t)'
  BY <1>1, <1>2 DEF TransferInv, Returns, Full
<1> QED
  BY <1>3, <1>8, <1>9, <1>13, <1>14, <1>15, <1>16, <1>17, <1>18, OneTransfer
  DEF TransferInv

\* The queue is empty, and the worker ends.
LEMMA AcquireNothingInv ==
    ASSUME DownloadInv, NEW t \in Transfers, NEW w \in Workers, Acquire(t, w),
           ~(work[t] <= Last)
    PROVE  DownloadInv'
<1>1. /\ TypeOK /\ Budget /\ TransferInv(t) /\ Last \in Nat /\ work[t] \in 1..Last + 1
  BY Parts
<1>2. /\ worker[<<t, w>>] = "slot" /\ <<t, w>> \notin cancelled
      /\ worker' = [worker EXCEPT ![<<t, w>>] = "done"]
      /\ ready' = [ready EXCEPT ![t] = TRUE]
      /\ UNCHANGED <<chunk, work, slots, pc, launch, cancelled, received, next, outcome>>
  BY DEF Acquire
<1>3. Budget' /\ held' = held
  BY <1>1, <1>2, SameSlots
<1>4. /\ worker' \in [Transfers \X Workers -> {"off", "slot", "fetch", "done", "failed"}]
      /\ \A u \in Transfers, v \in Workers :
            worker'[<<u, v>>] = IF u = t /\ v = w THEN "done" ELSE worker[<<u, v>>]
  BY <1>1, <1>2, PairUpdate DEF TypeOK
<1>5. TypeOK'
  BY <1>1, <1>2, <1>3, <1>4 DEF TypeOK, Budget
<1>6. \A u \in Transfers : u # t => Same(u)
  BY <1>2, <1>3, <1>4 DEF Same
<1>7. Fetching(t)' = Fetching(t) /\ (Failed(t)' <=> Failed(t)) /\ (Active(t)' <=> Active(t))
  BY <1>2, <1>4 DEF Fetching, Failed, Active
<1>8. \A v \in Workers : Over(t, v)' <=> Over(t, v) \/ v = w
  BY <1>4 DEF Over
<1>9. launch[t] = "done"
  BY <1>2, RunningWorker DEF Over
<1>10. Launched(t)'
  BY <1>1, <1>2, <1>4, <1>7, <1>9 DEF TransferInv, Launched
<1>11. Distinct(t)'
  BY <1>1, <1>2, <1>7 DEF TransferInv, Distinct
<1>12. Cancels(t)'
  BY <1>1, <1>2, <1>7, <1>8 DEF TransferInv, Cancels
<1>13. Holds(t)'
  BY <1>1, <1>2, <1>3, <1>7 DEF TransferInv, Holds
<1>14. Covers(t)'
  <2>1. \A c \in Chunks : c < work[t]
    BY <1>1 DEF Chunks
  <2> QED
    BY <1>1, <1>2, <1>7, <2>1 DEF TransferInv, Covers
<1>15. Returns(t)'
  BY <1>1, <1>2 DEF TransferInv, Returns, Full
<1> QED
  BY <1>3, <1>5, <1>6, <1>10, <1>11, <1>12, <1>13, <1>14, <1>15, OneTransfer DEF TransferInv

\* A worker of t is in state x, and fetches nothing now.
LEMMA WorkerMoves ==
    ASSUME DownloadInv, NEW t \in Transfers, NEW w \in Workers,
           NEW x \in {"slot", "done", "failed"},
           worker' = [worker EXCEPT ![<<t, w>>] = x],
           chunk' = [chunk EXCEPT ![<<t, w>>] = 0]
    PROVE  /\ worker' \in [Transfers \X Workers -> {"off", "slot", "fetch", "done", "failed"}]
           /\ chunk' \in [Transfers \X Workers -> 0..Last]
           /\ \A u \in Transfers, v \in Workers :
                 worker'[<<u, v>>] = IF u = t /\ v = w THEN x ELSE worker[<<u, v>>]
           /\ \A u \in Transfers : u # t =>
                 \A v \in Workers : chunk'[<<u, v>>] = chunk[<<u, v>>]
           /\ Fetching(t)' = Fetching(t) \ {w}
           /\ \A v \in Fetching(t)' : chunk'[<<t, v>>] = chunk[<<t, v>>]
           /\ worker[<<t, w>>] = "fetch" =>
                 Cardinality(Fetching(t)') = Cardinality(Fetching(t)) - 1
<1>1. TypeOK /\ IsFiniteSet(Fetching(t)) /\ Last \in Nat
  BY Parts
<1>2. /\ worker' \in [Transfers \X Workers -> {"off", "slot", "fetch", "done", "failed"}]
      /\ \A u \in Transfers, v \in Workers :
            worker'[<<u, v>>] = IF u = t /\ v = w THEN x ELSE worker[<<u, v>>]
  BY <1>1, PairUpdate DEF TypeOK
<1>3. 0 \in 0..Last
  BY <1>1
<1>4. /\ chunk' \in [Transfers \X Workers -> 0..Last]
      /\ \A u \in Transfers, v \in Workers :
            chunk'[<<u, v>>] = IF u = t /\ v = w THEN 0 ELSE chunk[<<u, v>>]
  BY <1>1, <1>3, PairUpdate DEF TypeOK
<1>5. Fetching(t)' = Fetching(t) \ {w}
  BY <1>2 DEF Fetching
<1>6. \A v \in Fetching(t)' : chunk'[<<t, v>>] = chunk[<<t, v>>]
  BY <1>4, <1>5 DEF Fetching
<1>7. ASSUME worker[<<t, w>>] = "fetch"
      PROVE  Cardinality(Fetching(t)') = Cardinality(Fetching(t)) - 1
  <2>1. w \in Fetching(t)
    BY <1>7 DEF Fetching
  <2>2. Cardinality(Fetching(t) \ {w}) = Cardinality(Fetching(t)) - 1
    BY <1>1, <2>1, FS_RemoveElement
  <2> QED
    BY <1>5, <2>2
<1> QED
  BY <1>2, <1>4, <1>5, <1>6, <1>7

LEMMA FetchedInv ==
    ASSUME DownloadInv, NEW t \in Transfers, NEW w \in Workers, Fetched(t, w)
    PROVE  DownloadInv'
<1> DEFINE k == chunk[<<t, w>>]
           x == IF Full(t, k) THEN "slot" ELSE "done"
<1>1. /\ TypeOK /\ Budget /\ TransferInv(t) /\ held[t] \in Nat
      /\ work[t] \in 1..Last + 1 /\ Last \in Nat /\ received[t] \in SUBSET Chunks
      /\ IsFiniteSet(received[t]) /\ Cardinality(received[t]) \in Nat
      /\ IsFiniteSet(Fetching(t)) /\ Cardinality(Fetching(t)) \in Nat
  BY Parts
<1>2. /\ worker[<<t, w>>] = "fetch" /\ <<t, w>> \notin cancelled
      /\ received' = [received EXCEPT ![t] = @ \cup {k}]
      /\ IF t \in Files THEN Release(t) ELSE UNCHANGED slots
      /\ ready' = [ready EXCEPT ![t] = TRUE]
      /\ worker' = [worker EXCEPT ![<<t, w>>] = x]
      /\ chunk' = [chunk EXCEPT ![<<t, w>>] = 0]
      /\ UNCHANGED <<pc, launch, cancelled, work, next, outcome>>
  BY DEF Fetched
<1>3. x \in {"slot", "done"} /\ (x = "done" => ~Full(t, k))
  OBVIOUS
<1>4. w \in Fetching(t) /\ ~Over(t, w)
  BY <1>2 DEF Fetching, Over
<1>5. k \in Chunks /\ k < work[t] /\ k \notin received[t]
  BY <1>1, <1>4 DEF TransferInv, Distinct
<1>6. /\ launch[t] = "done" /\ ~(pc[t] = "closed" /\ outcome[t] # "orphaned")
      /\ held[t] > 0
  BY <1>2, <1>4, RunningWorker
<1> HIDE DEF k, x
<1>7. /\ worker' \in [Transfers \X Workers -> {"off", "slot", "fetch", "done", "failed"}]
      /\ chunk' \in [Transfers \X Workers -> 0..Last]
      /\ \A u \in Transfers, v \in Workers :
            worker'[<<u, v>>] = IF u = t /\ v = w THEN x ELSE worker[<<u, v>>]
      /\ \A u \in Transfers : u # t =>
            \A v \in Workers : chunk'[<<u, v>>] = chunk[<<u, v>>]
      /\ Fetching(t)' = Fetching(t) \ {w}
      /\ \A v \in Fetching(t)' : chunk'[<<t, v>>] = chunk[<<t, v>>]
      /\ Cardinality(Fetching(t)') = Cardinality(Fetching(t)) - 1
  BY <1>2, <1>3, WorkerMoves
<1>8. /\ Budget' /\ \A u \in Transfers : u # t => held'[u] = held[u]
      /\ held'[t] = IF t \in Files THEN held[t] - 1 ELSE held[t]
  <2>1. CASE t \in Files
    BY <1>1, <1>2, <1>6, <2>1, ReleaseSlot
  <2>2. CASE t \notin Files
    BY <1>1, <1>2, <2>2, SameSlots
  <2> QED
    BY <2>1, <2>2
<1>9. /\ received' \in [Transfers -> SUBSET Chunks]
      /\ received'[t] = received[t] \cup {k}
      /\ \A u \in Transfers : u # t => received'[u] = received[u]
  BY <1>1, <1>2, <1>5 DEF TypeOK
<1>10. TypeOK'
  BY <1>1, <1>2, <1>7, <1>8, <1>9 DEF TypeOK, Budget
<1>11. \A u \in Transfers : u # t => Same(u)
  BY <1>2, <1>7, <1>8, <1>9 DEF Same
<1>12. (Failed(t)' <=> Failed(t)) /\ (Active(t)' <=> Active(t))
  BY <1>2, <1>3, <1>7 DEF Failed, Active
<1>13. Launched(t)'
  BY <1>1, <1>2, <1>3, <1>6, <1>7, <1>12 DEF TransferInv, Launched
<1>14. Distinct(t)'
  <2>1. \A v \in Fetching(t)' : v \in Fetching(t) /\ chunk[<<t, v>>] # k
    BY <1>1, <1>4, <1>7 DEF TransferInv, Distinct, k
  <2> QED
    BY <1>1, <1>2, <1>5, <1>7, <1>9, <2>1 DEF TransferInv, Distinct
<1>15. Cancels(t)'
  <2>1. \A v \in Workers : v # w => (Over(t, v)' <=> Over(t, v))
    BY <1>7 DEF Over
  <2>2. ~Active(t) => outcome[t] = "orphaned"
    BY <1>1, <1>2, <1>4 DEF TransferInv, Cancels
  <2> QED
    BY <1>1, <1>2, <1>12, <2>1, <2>2 DEF TransferInv, Cancels
<1>16. Holds(t)'
  <2>1. Cardinality(received[t] \cup {k}) = Cardinality(received[t]) + 1
    BY <1>1, <1>5, FS_AddElement
  <2>2. Cardinality(received'[t]) = Cardinality(received[t]) + 1
    BY <1>9, <2>1
  <2>3. held[t] = Cardinality(Fetching(t))
                  + (IF t \in Files THEN 0 ELSE Cardinality(received[t]))
    BY <1>1, <1>6 DEF TransferInv, Holds
  <2>4. held'[t] = Cardinality(Fetching(t)')
                   + (IF t \in Files THEN 0 ELSE Cardinality(received'[t]))
    <3>1. /\ Cardinality(Fetching(t)') = Cardinality(Fetching(t)) - 1
          /\ held'[t] = IF t \in Files THEN held[t] - 1 ELSE held[t]
      BY <1>7, <1>8
    <3> QED
      BY <1>1, <2>2, <2>3, <3>1
  <2> QED
    BY <1>2, <1>6, <2>4 DEF Holds
<1>17. Covers(t)'
  <2>1. ASSUME Active(t), NEW v \in Workers, worker'[<<t, v>>] = "done",
               NEW c \in Chunks, c <= Short[t]
        PROVE  c < work[t]
    <3>1. CASE v = w
      <4>1. x = "done"
        BY <1>7, <2>1, <3>1
      <4>2. ~(k < Short[t])
        BY <1>3, <4>1 DEF Full
      <4>3. c \in Nat /\ k \in Nat /\ Short[t] \in Nat /\ work[t] \in Nat
        BY <1>1, <1>5, DownloadAssumption DEF Chunks
      <4> QED
        BY <1>5, <2>1, <4>2, <4>3
    <3>2. CASE v # w
      BY <1>1, <1>7, <2>1, <3>2 DEF TransferInv, Covers
    <3> QED
      BY <3>1, <3>2
  <2>2. ASSUME Active(t), NEW c \in Chunks, c < work[t]
        PROVE  \/ c \in received'[t] \/ Failed(t)
               \/ \E v \in Fetching(t)' : chunk'[<<t, v>>] = c
               \/ t \notin Files /\ (c < next[t] \/ (pc[t] = "yield" /\ c = next[t]))
    <3>1. CASE \E v \in Fetching(t) : chunk[<<t, v>>] = c
      BY <1>7, <1>9, <3>1 DEF k
    <3>2. CASE ~ \E v \in Fetching(t) : chunk[<<t, v>>] = c
      BY <1>1, <1>9, <2>2, <3>2 DEF TransferInv, Covers
    <3> QED
      BY <3>1, <3>2
  <2> QED
    BY <1>1, <1>2, <1>12, <2>1, <2>2 DEF TransferInv, Covers
<1>18. Returns(t)'
  BY <1>1, <1>2, <1>9 DEF TransferInv, Returns, Full
<1> QED
  BY <1>8, <1>10, <1>11, <1>13, <1>14, <1>15, <1>16, <1>17, <1>18, OneTransfer
  DEF TransferInv

LEMMA FetchFailsInv ==
    ASSUME DownloadInv, NEW t \in Transfers, NEW w \in Workers, FetchFails(t, w)
    PROVE  DownloadInv'
<1>1. /\ TypeOK /\ Budget /\ TransferInv(t) /\ held[t] \in Nat
      /\ Cardinality(received[t]) \in Nat /\ Cardinality(Fetching(t)) \in Nat
  BY Parts
<1>2. /\ worker[<<t, w>>] = "fetch" /\ <<t, w>> \notin cancelled /\ Release(t)
      /\ worker' = [worker EXCEPT ![<<t, w>>] = "failed"]
      /\ chunk' = [chunk EXCEPT ![<<t, w>>] = 0]
      /\ ready' = [ready EXCEPT ![t] = TRUE]
      /\ UNCHANGED <<pc, launch, cancelled, work, received, next, outcome>>
  BY DEF FetchFails
<1>3. w \in Fetching(t) /\ ~Over(t, w)
  BY <1>2 DEF Fetching, Over
<1>4. /\ launch[t] = "done" /\ ~(pc[t] = "closed" /\ outcome[t] # "orphaned")
      /\ held[t] > 0
  BY <1>2, <1>3, RunningWorker
<1>5. /\ worker' \in [Transfers \X Workers -> {"off", "slot", "fetch", "done", "failed"}]
      /\ chunk' \in [Transfers \X Workers -> 0..Last]
      /\ \A u \in Transfers, v \in Workers :
            worker'[<<u, v>>] = IF u = t /\ v = w THEN "failed" ELSE worker[<<u, v>>]
      /\ \A u \in Transfers : u # t =>
            \A v \in Workers : chunk'[<<u, v>>] = chunk[<<u, v>>]
      /\ Fetching(t)' = Fetching(t) \ {w}
      /\ \A v \in Fetching(t)' : chunk'[<<t, v>>] = chunk[<<t, v>>]
      /\ Cardinality(Fetching(t)') = Cardinality(Fetching(t)) - 1
  BY <1>2, WorkerMoves
<1>6. /\ Budget' /\ held'[t] = held[t] - 1
      /\ \A u \in Transfers : u # t => held'[u] = held[u]
  BY <1>1, <1>2, <1>4, ReleaseSlot
<1>7. TypeOK'
  BY <1>1, <1>2, <1>5, <1>6 DEF TypeOK, Budget
<1>8. \A u \in Transfers : u # t => Same(u)
  BY <1>2, <1>5, <1>6 DEF Same
<1>9. Failed(t)' /\ (Active(t)' <=> Active(t))
  BY <1>2, <1>5 DEF Failed, Active
<1>10. Launched(t)'
  BY <1>1, <1>2, <1>4, <1>5, <1>9 DEF TransferInv, Launched
<1>11. Distinct(t)'
  BY <1>1, <1>2, <1>5 DEF TransferInv, Distinct
<1>12. Cancels(t)'
  <2>1. \A v \in Workers : Over(t, v)' <=> Over(t, v) \/ v = w
    BY <1>5 DEF Over
  <2> QED
    BY <1>1, <1>2, <1>9, <2>1 DEF TransferInv, Cancels
<1>13. Holds(t)'
  <2>1. held[t] = Cardinality(Fetching(t))
                  + (IF t \in Files THEN 0 ELSE Cardinality(received[t]))
    BY <1>1, <1>4 DEF TransferInv, Holds
  <2>2. held'[t] = Cardinality(Fetching(t)')
                   + (IF t \in Files THEN 0 ELSE Cardinality(received[t]))
    <3>1. Cardinality(Fetching(t)') = Cardinality(Fetching(t)) - 1 /\ held'[t] = held[t] - 1
      BY <1>5, <1>6
    <3> QED
      BY <1>1, <2>1, <3>1
  <2> QED
    BY <1>2, <1>4, <2>2 DEF Holds
<1>14. Covers(t)'
  <2>1. \A v \in Workers : worker'[<<t, v>>] = "done" => worker[<<t, v>>] = "done"
    BY <1>5
  <2> QED
    BY <1>1, <1>2, <1>9, <2>1 DEF TransferInv, Covers
<1>15. Returns(t)'
  BY <1>1, <1>2 DEF TransferInv, Returns, Full
<1> QED
  BY <1>6, <1>7, <1>8, <1>10, <1>11, <1>12, <1>13, <1>14, <1>15, OneTransfer DEF TransferInv

\* A cancelled worker gives its slot back, unless its transfer has.
LEMMA CancelledInv ==
    ASSUME DownloadInv, NEW t \in Transfers, NEW w \in Workers, Cancelled(t, w)
    PROVE  DownloadInv'
<1>1. /\ TypeOK /\ Budget /\ TransferInv(t) /\ held[t] \in Nat
      /\ Cardinality(received[t]) \in Nat /\ Cardinality(Fetching(t)) \in Nat
  BY Parts
<1>2. /\ <<t, w>> \in cancelled /\ cancelled' = cancelled \ {<<t, w>>}
      /\ worker' = [worker EXCEPT ![<<t, w>>] = "done"]
      /\ chunk' = [chunk EXCEPT ![<<t, w>>] = 0]
      /\ IF worker[<<t, w>>] = "fetch" THEN Release(t) ELSE UNCHANGED slots
      /\ UNCHANGED <<pc, launch, work, received, next, ready, outcome>>
  BY DEF Cancelled
<1>3. ~Over(t, w) /\ ~Active(t) /\ launch[t] = "done"
  BY <1>1, <1>2, RunningWorker DEF TransferInv, Cancels
<1>4. /\ worker' \in [Transfers \X Workers -> {"off", "slot", "fetch", "done", "failed"}]
      /\ chunk' \in [Transfers \X Workers -> 0..Last]
      /\ \A u \in Transfers, v \in Workers :
            worker'[<<u, v>>] = IF u = t /\ v = w THEN "done" ELSE worker[<<u, v>>]
      /\ \A u \in Transfers : u # t =>
            \A v \in Workers : chunk'[<<u, v>>] = chunk[<<u, v>>]
      /\ Fetching(t)' = Fetching(t) \ {w}
      /\ \A v \in Fetching(t)' : chunk'[<<t, v>>] = chunk[<<t, v>>]
      /\ worker[<<t, w>>] = "fetch" =>
            Cardinality(Fetching(t)') = Cardinality(Fetching(t)) - 1
  BY <1>2, WorkerMoves
<1>5. /\ Budget' /\ \A u \in Transfers : u # t => held'[u] = held[u]
      /\ held'[t] = IF worker[<<t, w>>] = "fetch" /\ held[t] > 0 THEN held[t] - 1 ELSE held[t]
  <2>1. CASE worker[<<t, w>>] = "fetch"
    BY <1>1, <1>2, <2>1, ReleaseSlot
  <2>2. CASE worker[<<t, w>>] # "fetch"
    BY <1>1, <1>2, <2>2, SameSlots
  <2> QED
    BY <2>1, <2>2
<1>6. TypeOK'
  BY <1>1, <1>2, <1>4, <1>5 DEF TypeOK, Budget
<1>7. \A u \in Transfers, v \in Workers :
         <<u, v>> \in cancelled' <=> <<u, v>> \in cancelled /\ ~(u = t /\ v = w)
  BY <1>2
<1>8. \A u \in Transfers : u # t => Same(u)
  BY <1>2, <1>4, <1>5, <1>7 DEF Same
<1>9. ~Active(t)'
  BY <1>2, <1>3 DEF Active
<1>10. Launched(t)'
  BY <1>1, <1>2, <1>3, <1>4, <1>9 DEF TransferInv, Launched, Active
<1>11. Distinct(t)'
  BY <1>1, <1>2, <1>4 DEF TransferInv, Distinct
<1>12. Cancels(t)'
  <2>1. \A v \in Workers : Over(t, v)' <=> Over(t, v) \/ v = w
    BY <1>4 DEF Over
  <2> QED
    BY <1>1, <1>2, <1>3, <1>7, <1>9, <2>1 DEF TransferInv, Cancels
<1>13. Holds(t)'
  <2>1. CASE pc[t] = "closed" /\ outcome[t] # "orphaned"
    BY <1>1, <1>2, <1>5, <2>1 DEF TransferInv, Holds
  <2>2. CASE ~(pc[t] = "closed" /\ outcome[t] # "orphaned")
    <3>1. held[t] = Cardinality(Fetching(t))
                    + (IF t \in Files THEN 0 ELSE Cardinality(received[t]))
      BY <1>1, <2>2 DEF TransferInv, Holds
    <3>2. CASE worker[<<t, w>>] = "fetch"
      <4>1. held[t] > 0
        BY <1>3, <2>2, <3>2, RunningWorker DEF Fetching
      <4>2. held'[t] = Cardinality(Fetching(t)')
                       + (IF t \in Files THEN 0 ELSE Cardinality(received[t]))
        BY <1>1, <1>4, <1>5, <3>1, <3>2, <4>1
      <4> QED
        BY <1>2, <2>2, <4>2 DEF Holds
    <3>3. CASE worker[<<t, w>>] # "fetch"
      <4>1. Fetching(t)' = Fetching(t)
        BY <1>4, <3>3 DEF Fetching
      <4> QED
        BY <1>2, <1>5, <2>2, <3>1, <3>3, <4>1 DEF Holds
    <3> QED
      BY <3>2, <3>3
  <2> QED
    BY <2>1, <2>2
<1>14. Covers(t)'
  BY <1>9 DEF Covers, Active
<1>15. Returns(t)'
  BY <1>1, <1>2 DEF TransferInv, Returns, Full
<1> QED
  BY <1>5, <1>6, <1>8, <1>10, <1>11, <1>12, <1>13, <1>14, <1>15, OneTransfer DEF TransferInv

----------------------------------------------------------------------------
(* The theorems *)

LEMMA DownloadInit == Init => DownloadInv
<1> SUFFICES ASSUME Init PROVE DownloadInv
  OBVIOUS
<1>1. Last \in Nat \ {0} /\ Size \in Nat
  BY DownloadAssumption
<1>2. TypeOK
  BY <1>1 DEF Init, TypeOK
<1>3. free + Cardinality(Taken) = Size
  <2>1. Taken = {}
    BY DEF Init, Taken
  <2>2. Cardinality(Taken) = 0
    BY <2>1, FS_EmptySet
  <2> QED
    BY <1>1, <2>2 DEF Init
<1>4. ASSUME NEW t \in Transfers
      PROVE  TransferInv(t)
  <2>1. /\ pc[t] = "idle" /\ launch[t] = "wait" /\ work[t] = 1 /\ received[t] = {}
        /\ next[t] = 0 /\ held[t] = 0 /\ outcome[t] = "none" /\ cancelled = {}
        /\ \A w \in Workers : worker[<<t, w>>] = "off"
    BY DEF Init
  <2>2. Fetching(t) = {} /\ Active(t)
    BY <2>1 DEF Fetching, Active
  <2>3. Cardinality(Fetching(t)) = 0 /\ Cardinality(received[t]) = 0
    BY <2>1, <2>2, FS_EmptySet
  <2>4. \A c \in Chunks : ~(c < work[t])
    BY <1>1, <2>1 DEF Chunks
  <2>5. Launched(t) /\ Distinct(t) /\ Cancels(t)
    BY <2>1, <2>2 DEF Launched, Distinct, Cancels
  <2>6. Holds(t)
    BY <2>1, <2>3 DEF Holds
  <2>7. Covers(t) /\ Returns(t)
    BY <2>1, <2>4 DEF Covers, Returns
  <2> QED
    BY <2>5, <2>6, <2>7 DEF TransferInv
<1> QED
  BY <1>2, <1>3, <1>4 DEF DownloadInv

\* A step of nothing.
LEMMA DownloadStutter ==
    ASSUME DownloadInv, UNCHANGED vars
    PROVE  DownloadInv'
<1>1. /\ UNCHANGED <<pc, launch, worker, chunk, cancelled, work, received, next, ready>>
      /\ UNCHANGED <<held, free, outcome>>
  BY DEF vars, tasks, slots
<1>2. TypeOK' /\ Taken' = Taken
  BY <1>1 DEF DownloadInv, TypeOK, Taken
<1>3. \A u \in Transfers : Same(u)
  BY <1>1 DEF Same
<1>4. \A u \in Transfers : TransferInv(u)'
  BY <1>3, Frame DEF DownloadInv
<1> QED
  BY <1>1, <1>2, <1>4 DEF DownloadInv

(***************************************************************************)
(* The invariant of the downloads holds in every state.                    *)
(***************************************************************************)
THEOREM DownloadInvariant == Spec => []DownloadInv
<1>1. DownloadInv /\ [Next]_vars => DownloadInv'
  <2> SUFFICES ASSUME DownloadInv, [Next]_vars PROVE DownloadInv'
    OBVIOUS
  <2>1. ASSUME NEW t \in Transfers, Start(t) \/ Read(t) \/ Leave(t)
        PROVE  DownloadInv'
    BY <2>1, StartInv, FirstInv, SecondInv, PendingInv, LoopInv, WakeInv, MoreInv,
       DroppedInv, LaunchInv, LeaveInv DEF Read
  <2>2. ASSUME NEW t \in Transfers, NEW w \in Workers, Work(t, w)
        PROVE  DownloadInv'
    BY <2>2, AcquireChunkInv, AcquireNothingInv, FetchedInv, FetchFailsInv, CancelledInv
       DEF Work
  <2>3. CASE Terminated
    BY <2>3, DownloadStutter DEF Terminated
  <2>4. CASE UNCHANGED vars
    BY <2>4, DownloadStutter
  <2> QED
    BY <2>1, <2>2, <2>3, <2>4 DEF Next
<1> QED
  BY <1>1, DownloadInit, PTL DEF Spec

(***************************************************************************)
(* ReadAhead never loses a slot and never gives one back twice, whichever  *)
(* of get_file(), _worker() and a cancellation comes first: for any number *)
(* of transfers, workers and slots.                                        *)
(***************************************************************************)
THEOREM BudgetExactTheorem == Spec => []BudgetExact
<1>1. DownloadInv => BudgetExact
  BY DEF DownloadInv, TransferInv, Holds, BudgetExact
<1> QED
  BY <1>1, DownloadInvariant, PTL

(***************************************************************************)
(* A download that returns has delivered every chunk up to the end of the  *)
(* file, for files of any length, whatever their size says, and any number *)
(* of workers.                                                             *)
(***************************************************************************)
THEOREM CompleteTheorem == Spec => []Complete
<1>1. DownloadInv => Complete
  BY DEF DownloadInv, TransferInv, Returns, Complete
<1> QED
  BY <1>1, DownloadInvariant, PTL

=============================================================================
