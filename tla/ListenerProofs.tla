--------------------------- MODULE ListenerProofs ---------------------------
(***************************************************************************)
(* The listeners, for any number of clients, listeners and workers, any    *)
(* limit and any set of chats, users and buttons: the budget, membership   *)
(* in _live, close() and the heap (ListenerRegistry), and the buckets that *)
(* are the index of _live, so that three probes find every listener an     *)
(* update is for (ListenerKeys).                                           *)
(***************************************************************************)
EXTENDS ListenerRegistry, ListenerKeys, FiniteSetTheorems, WellFoundedInduction, TLAPS

----------------------------------------------------------------------------
(* The registry *)

\* The part of TypeOK the argument needs.
Shape ==
    /\ live \subseteq Listeners
    /\ waiting \subseteq Listeners
    /\ future \in [Listeners -> {"future", "callback", "cancelled", "done"}]
    /\ heap \in [Listeners -> Nat \cup {None}]
    /\ reaper \in [Clients -> {"none", "run", "popping", "wait"}]
    /\ closed \subseteq Clients
    /\ used \in Nat

RegistryInv == Shape /\ BudgetExact /\ LiveIsPending /\ ClosedIsEmpty

\* A listener has a client.
LEMMA HomeType == \A l \in Listeners : Home(l) \in Clients
  BY DEF Listeners, Home

\* The set of outstanding listeners is finite.
LEMMA LiveFinite == Shape => IsFiniteSet(live)
  BY ListenerAssumption, FS_Subset DEF Shape

\* One listener more, one place more.
LEMMA AddCounts ==
    ASSUME Shape, BudgetExact, used < Limit,
           NEW l \in Listeners, l \notin live
    PROVE  used + 1 = Cardinality(live \cup {l}) /\ used + 1 <= Limit
<1>1. Cardinality(live \cup {l}) = Cardinality(live) + 1
  BY LiveFinite, FS_AddElement
<1> QED BY <1>1, ListenerAssumption DEF BudgetExact, Shape

\* remove() takes one listener and one place, or nothing.
LEMMA RemoveCounts ==
    ASSUME Shape, BudgetExact, NEW l \in live
    PROVE  Release \in Nat /\ Release = Cardinality(live \ {l}) /\ Release <= Limit
<1>1. Cardinality(live \ {l}) = Cardinality(live) - 1
  BY LiveFinite, FS_RemoveElement
<1>2. Cardinality(live) > 0
  BY LiveFinite, FS_EmptySet, FS_CardinalityType
<1> QED BY <1>1, <1>2, ListenerAssumption DEF BudgetExact, Shape, Release

\* close() takes a whole client's.
LEMMA CloseCounts ==
    ASSUME Shape, BudgetExact, NEW mine \in SUBSET live
    PROVE  /\ used - Cardinality(mine) \in Nat
           /\ used - Cardinality(mine) = Cardinality(live \ mine)
           /\ used - Cardinality(mine) <= Limit
<1>1. IsFiniteSet(mine) /\ Cardinality(mine) <= Cardinality(live)
  BY LiveFinite, FS_Subset
<1>2. Cardinality(live \ mine) = Cardinality(live) - Cardinality(live \cap mine)
  BY LiveFinite, <1>1, FS_Difference
<1>3. live \cap mine = mine
  OBVIOUS
<1>4. Cardinality(mine) \in Nat
  BY <1>1, FS_CardinalityType
<1>5. used \in Nat /\ Limit \in Nat /\ used = Cardinality(live) /\ used <= Limit
  BY ListenerAssumption DEF BudgetExact, Shape
<1>6. Cardinality(live \ mine) = used - Cardinality(mine)
  BY <1>2, <1>3, <1>5
<1> QED BY <1>1, <1>4, <1>5, <1>6

\* What remove() leaves of the invariant's first two parts.
LEMMA RemoveKeeps ==
    ASSUME Shape, BudgetExact, NEW l, Remove(l)
    PROVE  live' = live \ {l} /\ used' \in Nat /\ BudgetExact'
<1>1. CASE l \in live
  BY <1>1, RemoveCounts DEF Remove, BudgetExact
<1>2. CASE l \notin live
  BY <1>2 DEF Remove, BudgetExact, Shape
<1> QED BY <1>1, <1>2

\* Initially nobody listens.
LEMMA InitInv == Init => RegistryInv
  BY ListenerAssumption, FS_EmptySet
     DEF Init, RegistryInv, Shape, BudgetExact, LiveIsPending, Pending,
         ClosedIsEmpty, Heap

\* add()
LEMMA AddInv ==
    ASSUME RegistryInv, NEW l \in Listeners, NEW kind \in {"future", "callback"},
           NEW timeout \in Timeouts \cup {None}, Add(l, kind, timeout)
    PROVE  RegistryInv'
<1>1. l \notin live /\ Home(l) \in Clients /\ Home(l) \notin closed
  BY HomeType DEF Add, Insert, Unreferenced
<1>2. timeout \in Nat \cup {None}
  BY ListenerAssumption
<1>3. BudgetExact'
  BY <1>1, AddCounts DEF RegistryInv, Add, Insert, BudgetExact
<1>4. Shape'
  BY <1>2 DEF RegistryInv, Shape, Add, Insert, Schedule
<1>5. LiveIsPending'
  BY <1>1 DEF RegistryInv, Shape, LiveIsPending, Pending, Add, Insert
<1>6. ASSUME NEW c \in closed
      PROVE  /\ \A m \in live' : Home(m) # c
             /\ \A m \in Listeners : Home(m) = c => heap'[m] = None
             /\ reaper'[c] = "none"
  <2>1. c \in Clients /\ c # Home(l)
    BY <1>1 DEF RegistryInv, Shape
  <2>2. \A m \in live' : Home(m) # c
    BY <2>1 DEF RegistryInv, ClosedIsEmpty, Add, Insert
  <2>3. \A m \in Listeners : Home(m) = c => heap'[m] = None
    BY <2>1 DEF RegistryInv, Shape, ClosedIsEmpty, Heap, Add, Schedule
  <2>4. reaper'[c] = "none"
    BY <2>1, <1>1 DEF RegistryInv, Shape, ClosedIsEmpty, Add, Schedule
  <2> QED BY <2>2, <2>3, <2>4
<1>7. ClosedIsEmpty'
  BY <1>6 DEF ClosedIsEmpty, Heap, Add
<1> QED BY <1>3, <1>4, <1>5, <1>7 DEF RegistryInv

\* stop() of one listener
LEMMA StopInv ==
    ASSUME RegistryInv, NEW l \in Listeners, Stop(l)
    PROVE  RegistryInv'
<1>1. live' = live \ {l} /\ used' \in Nat /\ BudgetExact'
  BY RemoveKeeps DEF RegistryInv, Stop
<1>2. Shape'
  BY <1>1 DEF RegistryInv, Shape, Stop, Fail
<1>3. LiveIsPending'
  BY <1>1 DEF RegistryInv, Shape, LiveIsPending, Pending, Stop, Fail
<1>4. ClosedIsEmpty'
  BY <1>1 DEF RegistryInv, ClosedIsEmpty, Heap, Stop
<1> QED BY <1>1, <1>2, <1>3, <1>4 DEF RegistryInv

\* cancellation of a task in listen()
LEMMA CancelInv ==
    ASSUME RegistryInv, NEW l \in Listeners, Cancel(l)
    PROVE  RegistryInv'
<1>1. Shape' /\ BudgetExact'
  BY DEF RegistryInv, Shape, BudgetExact, Cancel
<1>2. LiveIsPending'
  BY DEF RegistryInv, Shape, LiveIsPending, Pending, Cancel
<1>3. ClosedIsEmpty'
  BY DEF RegistryInv, ClosedIsEmpty, Heap, Cancel
<1> QED BY <1>1, <1>2, <1>3 DEF RegistryInv

\* the end of listen()
LEMMA ReturnInv ==
    ASSUME RegistryInv, NEW l \in Listeners, Return(l)
    PROVE  RegistryInv'
<1>1. live' = live \ {l} /\ used' \in Nat /\ BudgetExact'
  BY RemoveKeeps DEF RegistryInv, Return
<1>2. Shape'
  BY <1>1 DEF RegistryInv, Shape, Return
<1>3. LiveIsPending'
  BY <1>1 DEF RegistryInv, Shape, LiveIsPending, Pending, Return
<1>4. ClosedIsEmpty'
  BY <1>1 DEF RegistryInv, ClosedIsEmpty, Heap, Return
<1> QED BY <1>1, <1>2, <1>3, <1>4 DEF RegistryInv

\* close()
LEMMA CloseInv ==
    ASSUME RegistryInv, NEW c \in Clients, Close(c)
    PROVE  RegistryInv'
<1> DEFINE mine == {l \in live : Home(l) = c}
<1>1. /\ live' = live \ mine
      /\ used' = used - Cardinality(mine)
      /\ mine \in SUBSET live
  BY DEF Close
<1>2. used' \in Nat /\ BudgetExact'
  BY <1>1, CloseCounts DEF RegistryInv, BudgetExact
<1>3. Shape'
  BY <1>1, <1>2 DEF RegistryInv, Shape, Close
<1>4. LiveIsPending'
  BY <1>1 DEF RegistryInv, Shape, LiveIsPending, Pending, Close
<1>5. ClosedIsEmpty'
  BY <1>1 DEF RegistryInv, Shape, ClosedIsEmpty, Heap, Close
<1> QED BY <1>2, <1>3, <1>4, <1>5 DEF RegistryInv

\* reopen()
LEMMA ReopenInv ==
    ASSUME RegistryInv, NEW c \in Clients, Reopen(c)
    PROVE  RegistryInv'
  BY DEF RegistryInv, Shape, BudgetExact, LiveIsPending, Pending,
         ClosedIsEmpty, Heap, Reopen

\* _compact() only takes entries out of the heap.
LEMMA CompactShrinks ==
    ASSUME Shape, NEW c \in Clients
    PROVE  /\ CompactHeap(c) \in [Listeners -> Nat \cup {None}]
           /\ \A l \in Listeners : CompactHeap(c)[l] \in {heap[l], None}
  BY DEF Shape, CompactHeap

\* An open registry's reaper is the only one that runs.
LEMMA AwakeIsOpen ==
    ASSUME RegistryInv, NEW c \in Clients, Awake(c)
    PROVE  c \notin closed
  BY DEF RegistryInv, ClosedIsEmpty, Awake

\* the reaper goes to sleep
LEMMA ReapWaitInv ==
    ASSUME RegistryInv, NEW c \in Clients, ReapWait(c)
    PROVE  RegistryInv'
<1>1. c \notin closed
  BY AwakeIsOpen DEF ReapWait
<1>2. /\ heap' \in [Listeners -> Nat \cup {None}]
      /\ \A l \in Listeners : heap'[l] \in {heap[l], None}
  BY CompactShrinks DEF ReapWait, RegistryInv
<1>3. Shape'
  BY <1>2 DEF RegistryInv, Shape, ReapWait
<1>4. BudgetExact' /\ LiveIsPending'
  BY DEF RegistryInv, BudgetExact, LiveIsPending, Pending, ReapWait
<1>5. ClosedIsEmpty'
  BY <1>1, <1>2 DEF RegistryInv, Shape, ClosedIsEmpty, Heap, ReapWait
<1> QED BY <1>3, <1>4, <1>5 DEF RegistryInv

\* the reaper pops an entry
LEMMA ReapPopInv ==
    ASSUME RegistryInv, NEW c \in Clients, ReapPop(c)
    PROVE  RegistryInv'
<1>1. c \notin closed
  BY AwakeIsOpen DEF ReapPop
<1>2. PICK l \in Heap(c) :
         /\ heap' = [CompactHeap(c) EXCEPT ![l] = None]
         /\ IF l \in live
               THEN live' = live \ {l} /\ used' = Release /\ Fail(l)
               ELSE UNCHANGED <<live, used, future>>
  BY DEF ReapPop
<1>3. l \in Listeners
  BY DEF Heap
<1>4. /\ heap' \in [Listeners -> Nat \cup {None}]
      /\ \A m \in Listeners : heap'[m] \in {heap[m], None}
  BY <1>2, <1>3, CompactShrinks DEF RegistryInv
<1>5. used' \in Nat /\ BudgetExact'
  <2>1. CASE l \in live
    BY <2>1, <1>2, RemoveCounts DEF RegistryInv, BudgetExact
  <2>2. CASE l \notin live
    BY <2>2, <1>2 DEF RegistryInv, Shape, BudgetExact
  <2> QED BY <2>1, <2>2
<1>6. Shape'
  BY <1>2, <1>3, <1>4, <1>5 DEF RegistryInv, Shape, ReapPop, Fail
<1>7. LiveIsPending'
  BY <1>2, <1>3 DEF RegistryInv, Shape, LiveIsPending, Pending, ReapPop, Fail
<1>8. ClosedIsEmpty'
  BY <1>1, <1>2, <1>4 DEF RegistryInv, Shape, ClosedIsEmpty, Heap, ReapPop
<1> QED BY <1>5, <1>6, <1>7, <1>8 DEF RegistryInv

\* time passes
LEMMA TickInv ==
    ASSUME RegistryInv, Tick
    PROVE  RegistryInv'
<1>1. \A l \in Listeners : /\ heap'[l] \in Nat \cup {None}
                            /\ heap'[l] = None <=> heap[l] = None
  BY ListenerAssumption DEF Tick, RegistryInv, Shape
<1>2. Shape'
  BY <1>1 DEF RegistryInv, Shape, Tick
<1>3. BudgetExact' /\ LiveIsPending'
  BY DEF RegistryInv, BudgetExact, LiveIsPending, Pending, Tick
<1>4. ClosedIsEmpty'
  BY <1>1 DEF RegistryInv, ClosedIsEmpty, Heap, Tick
<1> QED BY <1>2, <1>3, <1>4 DEF RegistryInv

\* feed() while it looks for a listener
LEMMA FeedLooksInv ==
    ASSUME RegistryInv, UNCHANGED <<live, future, waiting, closed, used, timing>>
    PROVE  RegistryInv'
  BY DEF RegistryInv, Shape, BudgetExact, LiveIsPending, Pending,
         ClosedIsEmpty, Heap, timing

\* feed() has found one
LEMMA FeedDeliverInv ==
    ASSUME RegistryInv, NEW f \in Feeds, FeedDeliver(f)
    PROVE  RegistryInv'
<1> DEFINE l == feed[f].filtering
<1>1. /\ Remove(l)
      /\ IF l \in live /\ Pending(l)
            THEN future' = [future EXCEPT ![l] = "done"]
            ELSE future' = future
      /\ UNCHANGED <<waiting, heap, closed, reaper, alarm, wake>>
  BY DEF FeedDeliver
<1> HIDE DEF l
<1>2. live' = live \ {l} /\ used' \in Nat /\ BudgetExact'
  BY <1>1, RemoveKeeps DEF RegistryInv
<1>3. Shape'
  BY <1>1, <1>2 DEF RegistryInv, Shape
<1>4. LiveIsPending'
  BY <1>1, <1>2 DEF RegistryInv, Shape, LiveIsPending, Pending
<1>5. ClosedIsEmpty'
  BY <1>1, <1>2 DEF RegistryInv, ClosedIsEmpty, Heap
<1> QED BY <1>2, <1>3, <1>4, <1>5 DEF RegistryInv

(***************************************************************************)
(* Every step keeps the invariant.                                         *)
(***************************************************************************)
LEMMA NextInv == RegistryInv /\ [Next]_vars => RegistryInv'
<1> SUFFICES ASSUME RegistryInv, [Next]_vars PROVE RegistryInv'
  OBVIOUS
<1>1. CASE UNCHANGED vars
  BY <1>1, FeedLooksInv DEF vars, timing
<1>2. ASSUME NEW c \in Clients, Reap(c) PROVE RegistryInv'
  BY <1>2, ReapWaitInv, ReapPopInv DEF Reap
<1>3. CASE Others
  <2>1. ASSUME NEW l \in Listeners, NEW kind \in {"future", "callback"},
               NEW timeout \in Timeouts \cup {None}, Add(l, kind, timeout)
        PROVE  RegistryInv'
    BY <2>1, AddInv
  <2>2. ASSUME NEW l \in Listeners, Stop(l) \/ Cancel(l) \/ Return(l)
        PROVE  RegistryInv'
    BY <2>2, StopInv, CancelInv, ReturnInv
  <2>3. ASSUME NEW c \in Clients, Close(c) \/ Reopen(c) PROVE RegistryInv'
    BY <2>3, CloseInv, ReopenInv
  <2>4. CASE Tick
    BY <2>4, TickInv
  <2>5. ASSUME NEW f \in Feeds,
               \/ \E c \in Clients : FeedBegin(f, c)
               \/ FeedSkip(f) \/ FeedFilter(f) \/ FeedFiltered(f) \/ FeedEnd(f)
        PROVE  RegistryInv'
    BY <2>5, FeedLooksInv
       DEF FeedBegin, FeedSkip, FeedFilter, FeedFiltered, FeedEnd
  <2>6. ASSUME NEW f \in Feeds, FeedDeliver(f) PROVE RegistryInv'
    BY <2>6, FeedDeliverInv
  <2> QED BY <1>3, <2>1, <2>2, <2>3, <2>4, <2>5, <2>6 DEF Others
<1> QED BY <1>1, <1>2, <1>3 DEF Next

(***************************************************************************)
(* The invariant holds throughout, whatever the scheduling.                *)
(***************************************************************************)
THEOREM RegistryInvariant == Spec => []RegistryInv
  BY InitInv, NextInv, PTL DEF Spec

(***************************************************************************)
(* ListenerBudget.used is the number of outstanding listeners of all       *)
(* clients and never exceeds the limit.                                    *)
(***************************************************************************)
THEOREM BudgetExactTheorem == Spec => []BudgetExact
<1>1. RegistryInv => BudgetExact
  BY DEF RegistryInv
<1> QED BY <1>1, RegistryInvariant, PTL

(***************************************************************************)
(* Nothing pending drops out of the registry and nothing finished stays.   *)
(***************************************************************************)
THEOREM LiveIsPendingTheorem == Spec => []LiveIsPending
<1>1. RegistryInv => LiveIsPending
  BY DEF RegistryInv
<1> QED BY <1>1, RegistryInvariant, PTL

(***************************************************************************)
(* close() leaves no listener, no deadline and no reaper behind.           *)
(***************************************************************************)
THEOREM ClosedIsEmptyTheorem == Spec => []ClosedIsEmpty
<1>1. RegistryInv => ClosedIsEmpty
  BY DEF RegistryInv
<1> QED BY <1>1, RegistryInvariant, PTL

----------------------------------------------------------------------------
(* The dead entries of the heap *)

Dead(c) == Heap(c) \ live

\* Every dead entry of a registry's heap has been counted in _stale.
DeadCounted == \A c \in Clients : Cardinality(Dead(c)) <= stale[c]

HeapInv == TypeOK /\ RegistryInv /\ DeadCounted

\* A set of naturals that is not empty has a least element.
LEMMA Least ==
    ASSUME NEW T \in SUBSET Nat, T # {}
    PROVE  \E n \in T : \A i \in T : n <= i
<1> DEFINE R == OpToRel(<, Nat)
<1>1. IsWellFoundedOn(R, Nat)
  BY NatLessThanWellFounded, Zenon
<1>2. \A x, y \in Nat : x < y => <<x, y>> \in R
  BY DEF OpToRel
<1> HIDE DEF R
<1>3. PICK n \in T : \A i \in T : ~(<<i, n>> \in R)
  BY <1>1, WFMin
<1>4. \A i \in T : ~(i < n)
  BY <1>2, <1>3
<1> QED BY <1>4

\* The heap of a client is finite and no larger than its slots.
LEMMA HeapFinite ==
    ASSUME NEW c \in Clients, NEW S \in SUBSET {l \in Listeners : Home(l) = c}
    PROVE  IsFiniteSet(S) /\ Cardinality(S) \in Nat /\ Cardinality(S) <= StaleMax
<1> DEFINE mine == {c} \X Slots
           f == [l \in mine |-> l[2]]
<1>1. mine \subseteq Listeners /\ S \subseteq mine
  BY DEF Listeners, Home
<1>2. IsFiniteSet(mine)
  BY <1>1, ListenerAssumption, FS_Subset
<1>3. f \in Surjection(mine, Slots) /\ f \in Injection(mine, Slots)
  <2>1. f \in [mine -> Slots]
    OBVIOUS
  <2>2. \A s \in Slots : <<c, s>> \in mine /\ f[<<c, s>>] = s
    OBVIOUS
  <2>3. \A a, b \in mine : f[a] = f[b] => a = b
    OBVIOUS
  <2> HIDE DEF f, mine
  <2> QED BY <2>1, <2>2, <2>3 DEF Surjection, Injection, IsInjective
<1> HIDE DEF f, mine
<1>4. IsFiniteSet(Slots) /\ Cardinality(Slots) \in Nat
  BY <1>2, <1>3, FS_Surjection, FS_CardinalityType
<1>5. Cardinality(mine) <= Cardinality(Slots)
  BY <1>3, <1>4, FS_Injection
<1>6. IsFiniteSet(S) /\ Cardinality(S) <= Cardinality(mine)
  BY <1>1, <1>2, FS_Subset
<1>7. Cardinality(S) \in Nat /\ Cardinality(mine) \in Nat
  BY <1>2, <1>6, FS_CardinalityType
<1> QED BY <1>4, <1>5, <1>6, <1>7, ListenerAssumption

\* What was not dead and is not one listener more is no more than before.
LEMMA DeadLess ==
    ASSUME NEW c \in Clients, NEW S \in SUBSET {l \in Listeners : Home(l) = c},
           NEW T \in SUBSET S
    PROVE  /\ Cardinality(T) \in Nat /\ Cardinality(S) \in Nat
           /\ Cardinality(T) <= Cardinality(S)
<1>1. IsFiniteSet(S) /\ T \in SUBSET {l \in Listeners : Home(l) = c}
  BY HeapFinite
<1> QED BY <1>1, HeapFinite, FS_Subset

LEMMA DeadOneMore ==
    ASSUME NEW c \in Clients, NEW S \in SUBSET {l \in Listeners : Home(l) = c},
           NEW l, NEW T \in SUBSET {m \in Listeners : Home(m) = c}, T \subseteq S \cup {l},
           NEW n \in 0..StaleMax, Cardinality(S) <= n
    PROVE  Count(n) \in 0..StaleMax /\ Cardinality(T) <= Count(n)
<1>1. IsFiniteSet(S) /\ Cardinality(S) \in Nat
  BY HeapFinite
<1>2. Cardinality(T) \in Nat /\ Cardinality(T) <= StaleMax
  BY HeapFinite
<1>3. Cardinality(T) <= Cardinality(S) + 1
  <2>1. IsFiniteSet(S \cup {l}) /\ Cardinality(S \cup {l}) <= Cardinality(S) + 1
    BY <1>1, FS_AddElement
  <2>2. Cardinality(S \cup {l}) \in Nat /\ Cardinality(T) <= Cardinality(S \cup {l})
    BY <2>1, FS_Subset, FS_CardinalityType
  <2> QED BY <1>1, <1>2, <2>1, <2>2
<1> QED BY <1>1, <1>2, <1>3, ListenerAssumption DEF Count

\* What a step has to show of a client's heap: nothing died, or one listener
\* did and was counted, or nothing dead is left.
Counts(c) ==
    \/ Dead(c)' \subseteq Dead(c) /\ stale'[c] = stale[c]
    \/ (\E l \in Listeners : Dead(c)' \subseteq Dead(c) \cup {l}) /\ stale'[c] = Count(stale[c])
    \/ Dead(c)' = {} /\ stale'[c] \in 0..StaleMax

FeedType == [client : Clients \cup {None}, rest : SUBSET Listeners,
             filtering : Listeners \cup {None}]

LEMMA HeapFrame ==
    ASSUME HeapInv, RegistryInv',
           DOMAIN stale' = Clients, stale' = [c \in Clients |-> stale'[c]],
           \A c \in Clients : Counts(c),
           alarm' \in [Clients -> Nat \cup {None}], wake' \subseteq Clients,
           feed' \in [Feeds -> FeedType]
    PROVE  HeapInv'
<1>1. ASSUME NEW c \in Clients
      PROVE  stale'[c] \in 0..StaleMax /\ Cardinality(Dead(c)') <= stale'[c]
  <2>1. /\ stale[c] \in 0..StaleMax /\ Cardinality(Dead(c)) <= stale[c]
        /\ Dead(c) \in SUBSET {l \in Listeners : Home(l) = c}
        /\ Dead(c)' \in SUBSET {l \in Listeners : Home(l) = c}
    BY DEF HeapInv, TypeOK, DeadCounted, Dead, Heap
  <2>2. CASE Dead(c)' \subseteq Dead(c) /\ stale'[c] = stale[c]
    <3>1. /\ Cardinality(Dead(c)') \in Nat /\ Cardinality(Dead(c)) \in Nat
          /\ Cardinality(Dead(c)') <= Cardinality(Dead(c))
      BY <2>1, <2>2, DeadLess
    <3> QED BY <2>1, <2>2, <3>1
  <2>3. CASE (\E l \in Listeners : Dead(c)' \subseteq Dead(c) \cup {l})
             /\ stale'[c] = Count(stale[c])
    <3>1. PICK l \in Listeners : Dead(c)' \subseteq Dead(c) \cup {l}
      BY <2>3
    <3>2. Count(stale[c]) \in 0..StaleMax /\ Cardinality(Dead(c)') <= Count(stale[c])
      BY <2>1, <3>1, DeadOneMore
    <3> QED BY <2>3, <3>2
  <2>4. CASE Dead(c)' = {} /\ stale'[c] \in 0..StaleMax
    BY <2>4, FS_EmptySet
  <2> QED BY <2>2, <2>3, <2>4 DEF Counts
<1>2. DeadCounted'
  BY <1>1 DEF DeadCounted
<1>3. stale' \in [Clients -> 0..StaleMax]
  BY <1>1
<1>4. TypeOK'
  BY <1>3 DEF TypeOK, RegistryInv, Shape, FeedType
<1> QED BY <1>2, <1>4 DEF HeapInv

\* Steps that leave the heap alone and take no listener away.
LEMMA SameHeap ==
    ASSUME HeapInv, RegistryInv', UNCHANGED <<heap, live, stale, alarm>>,
           wake' \subseteq Clients, feed' \in [Feeds -> FeedType]
    PROVE  HeapInv'
<1>1. \A c \in Clients : Counts(c)
  BY DEF Counts, Dead, Heap
<1> QED BY <1>1, HeapFrame DEF HeapInv, TypeOK

\* remove() counts the listener whose entry stays in the heap.
LEMMA RemoveHeap ==
    ASSUME HeapInv, RegistryInv', NEW l, l \in live => l \in Listeners,
           Remove(l), UNCHANGED <<heap, alarm, wake>>,
           feed' \in [Feeds -> FeedType]
    PROVE  HeapInv'
<1>1. wake' \subseteq Clients /\ alarm' \in [Clients -> Nat \cup {None}]
      /\ stale \in [Clients -> 0..StaleMax]
  BY DEF HeapInv, TypeOK
<1>2. CASE l \notin live
  BY <1>1, <1>2, SameHeap DEF Remove
<1>3. CASE l \in live
  <2>1. /\ live' = live \ {l} /\ stale' = [stale EXCEPT ![Home(l)] = Count(@)]
        /\ Home(l) \in Clients /\ l \in Listeners
    BY <1>3, HomeType DEF Remove
  <2>2. ASSUME NEW c \in Clients
        PROVE  Counts(c)
    <3>1. CASE c = Home(l)
      <4>1. Dead(c)' \subseteq Dead(c) \cup {l}
        BY <2>1 DEF Dead, Heap
      <4>2. stale'[c] = Count(stale[c])
        BY <1>1, <2>1, <3>1
      <4> QED BY <2>1, <4>1, <4>2 DEF Counts
    <3>2. CASE c # Home(l)
      <4>1. Dead(c)' \subseteq Dead(c)
        BY <2>1, <3>2 DEF Dead, Heap
      <4> QED BY <1>1, <2>1, <3>2, <4>1 DEF Counts
    <3> QED BY <3>1, <3>2
  <2>3. DOMAIN stale' = Clients /\ stale' = [c \in Clients |-> stale'[c]]
    BY <1>1, <2>1
  <2> QED BY <1>1, <2>2, <2>3, HeapFrame
<1> QED BY <1>2, <1>3

LEMMA AddHeap ==
    ASSUME HeapInv, RegistryInv', NEW l \in Listeners, NEW kind \in {"future", "callback"},
           NEW timeout \in Timeouts \cup {None}, Add(l, kind, timeout)
    PROVE  HeapInv'
<1>1. /\ live' = live \cup {l} /\ UNCHANGED <<stale, alarm, feed>>
      /\ heap' = heap \/ heap' = [heap EXCEPT ![l] = timeout]
      /\ wake' = wake \/ wake' = wake \cup {Home(l)}
  BY DEF Add, Insert, Schedule
<1>2. \A c \in Clients : Dead(c)' \subseteq Dead(c)
  BY <1>1 DEF HeapInv, TypeOK, Dead, Heap
<1>3. \A c \in Clients : Counts(c)
  BY <1>1, <1>2 DEF Counts
<1>4. wake' \subseteq Clients /\ alarm' \in [Clients -> Nat \cup {None}]
      /\ stale' \in [Clients -> 0..StaleMax] /\ feed' \in [Feeds -> FeedType]
  BY <1>1, HomeType DEF HeapInv, TypeOK, FeedType
<1> QED BY <1>3, <1>4, HeapFrame

LEMMA CloseHeap ==
    ASSUME HeapInv, RegistryInv', NEW c \in Clients, Close(c)
    PROVE  HeapInv'
<1>1. /\ heap' = [l \in Listeners |-> IF Home(l) = c THEN None ELSE heap[l]]
      /\ live' = live \ {l \in live : Home(l) = c}
      /\ stale' = [stale EXCEPT ![c] = 0] /\ alarm' = [alarm EXCEPT ![c] = None]
      /\ UNCHANGED <<wake, feed>>
  BY DEF Close
<1>2. /\ stale \in [Clients -> 0..StaleMax] /\ alarm' \in [Clients -> Nat \cup {None}]
      /\ wake' \subseteq Clients /\ feed' \in [Feeds -> FeedType]
  BY <1>1 DEF HeapInv, TypeOK, FeedType
<1>3. ASSUME NEW d \in Clients
      PROVE  Counts(d)
  <2>1. CASE d = c
    <3>1. Dead(d)' = {}
      BY <1>1, <2>1 DEF Dead, Heap
    <3>2. stale'[d] = 0 /\ 0 \in 0..StaleMax
      BY <1>1, <1>2, <2>1, ListenerAssumption
    <3> QED BY <3>1, <3>2 DEF Counts
  <2>2. CASE d # c
    <3>1. Dead(d)' \subseteq Dead(d)
      BY <1>1, <2>2 DEF Dead, Heap
    <3> QED BY <1>1, <1>2, <2>2, <3>1 DEF Counts
  <2> QED BY <2>1, <2>2
<1>4. DOMAIN stale' = Clients /\ stale' = [d \in Clients |-> stale'[d]]
  BY <1>1, <1>2
<1> QED BY <1>2, <1>3, <1>4, HeapFrame

LEMMA TickHeap ==
    ASSUME HeapInv, RegistryInv', Tick
    PROVE  HeapInv'
<1>1. \A l \in Listeners : /\ heap'[l] \in Nat \cup {None}
                            /\ heap'[l] = None <=> heap[l] = None
  BY ListenerAssumption DEF Tick, HeapInv, RegistryInv, Shape
<1>2. \A c \in Clients : Counts(c)
  <2>1. live' = live /\ stale' = stale
    BY DEF Tick
  <2>2. \A c \in Clients : Dead(c)' \subseteq Dead(c)
    BY <1>1, <2>1 DEF Dead, Heap
  <2> QED BY <2>1, <2>2 DEF Counts
<1>3. alarm' \in [Clients -> Nat \cup {None}]
  BY ListenerAssumption DEF Tick, HeapInv, TypeOK
<1>4. /\ stale' \in [Clients -> 0..StaleMax] /\ wake' \subseteq Clients
      /\ feed' \in [Feeds -> FeedType]
  BY DEF Tick, HeapInv, TypeOK, FeedType
<1> QED BY <1>2, <1>3, <1>4, HeapFrame

\* _compact() either leaves the heap as it is or takes all dead entries out.
LEMMA CompactLemma ==
    ASSUME HeapInv, NEW c \in Clients
    PROVE  /\ CompactStale(c) \in 0..StaleMax
           /\ \/ CompactHeap(c) = heap /\ CompactStale(c) = stale[c]
              \/ /\ CompactStale(c) = 0
                 /\ \A l \in Listeners : Home(l) = c /\ l \notin live => CompactHeap(c)[l] = None
           /\ \A l \in Listeners : Home(l) # c => CompactHeap(c)[l] = heap[l]
<1>1. stale[c] \in 0..StaleMax /\ 0 \in 0..StaleMax
  BY ListenerAssumption DEF HeapInv, TypeOK
<1>2. CASE Compact(c)
  BY <1>1, <1>2 DEF CompactStale, CompactHeap, Heap
<1>3. CASE ~Compact(c)
  BY <1>1, <1>3 DEF CompactStale, CompactHeap
<1> QED BY <1>2, <1>3

LEMMA ReapWaitHeap ==
    ASSUME HeapInv, RegistryInv', NEW c \in Clients, ReapWait(c)
    PROVE  HeapInv'
<1> DEFINE left == {heap'[l] : l \in Heap(c)} \ {None}
           first == CHOOSE t \in left : \A u \in left : t <= u
<1>1. /\ heap' = CompactHeap(c) /\ stale' = [stale EXCEPT ![c] = CompactStale(c)]
      /\ wake' = wake \ {c} /\ UNCHANGED <<live, feed>>
      /\ alarm' = [alarm EXCEPT ![c] = IF left = {} THEN None ELSE first]
  BY DEF ReapWait
<1>2. /\ stale \in [Clients -> 0..StaleMax] /\ alarm \in [Clients -> Nat \cup {None}]
      /\ wake' \subseteq Clients /\ feed' \in [Feeds -> FeedType]
  BY <1>1 DEF HeapInv, TypeOK, FeedType
<1>3. left # {} => first \in Nat
  <2>1. left \subseteq Nat
    BY DEF RegistryInv, Shape, Heap
  <2> HIDE DEF left
  <2>2. left # {} => \E t \in left : \A u \in left : t <= u
    BY <2>1, Least
  <2> QED BY <2>1, <2>2
<1> HIDE DEF left, first
<1>4. alarm' \in [Clients -> Nat \cup {None}]
  BY <1>1, <1>2, <1>3
<1>5. ASSUME NEW d \in Clients
      PROVE  Counts(d)
  <2>1. CASE d = c
    <3>1. stale'[d] = CompactStale(c) /\ CompactStale(c) \in 0..StaleMax
      BY <1>1, <1>2, <2>1, CompactLemma
    <3>2. CASE CompactHeap(c) = heap /\ CompactStale(c) = stale[c]
      BY <1>1, <2>1, <3>1, <3>2 DEF Counts, Dead, Heap
    <3>3. CASE \A l \in Listeners : Home(l) = c /\ l \notin live => CompactHeap(c)[l] = None
      <4>1. Dead(d)' = {}
        BY <1>1, <2>1, <3>3 DEF Dead, Heap
      <4> QED BY <3>1, <4>1 DEF Counts
    <3> QED BY <3>2, <3>3, CompactLemma
  <2>2. CASE d # c
    <3>1. Dead(d)' \subseteq Dead(d)
      BY <1>1, <2>2, CompactLemma DEF Dead, Heap
    <3> QED BY <1>1, <1>2, <2>2, <3>1 DEF Counts
  <2> QED BY <2>1, <2>2
<1>6. DOMAIN stale' = Clients /\ stale' = [d \in Clients |-> stale'[d]]
  BY <1>1, <1>2
<1> QED BY <1>2, <1>4, <1>5, <1>6, HeapFrame

LEMMA ReapPopHeap ==
    ASSUME HeapInv, RegistryInv', NEW c \in Clients, ReapPop(c)
    PROVE  HeapInv'
<1>1. PICK l \in Heap(c) :
         /\ heap' = [CompactHeap(c) EXCEPT ![l] = None]
         /\ live' = live \ {l}
         /\ \/ l \in live /\ stale' = [stale EXCEPT ![c] = Count(CompactStale(c))]
            \/ l \notin live /\ stale' = [stale EXCEPT ![c] = CompactStale(c)]
  <2>1. PICK l \in Heap(c) :
           /\ heap' = [CompactHeap(c) EXCEPT ![l] = None]
           /\ IF l \in live
                 THEN live' = live \ {l} /\ stale' = [stale EXCEPT ![c] = Count(CompactStale(c))]
                 ELSE live' = live /\ stale' = [stale EXCEPT ![c] = CompactStale(c)]
    BY DEF ReapPop
  <2>2. l \notin live => live \ {l} = live
    OBVIOUS
  <2> QED BY <2>1, <2>2
<1>2. /\ stale \in [Clients -> 0..StaleMax] /\ alarm' \in [Clients -> Nat \cup {None}]
      /\ wake' \subseteq Clients /\ feed' \in [Feeds -> FeedType]
  BY DEF ReapPop, HeapInv, TypeOK, FeedType
<1>3. l \in Listeners /\ Home(l) = c /\ CompactHeap(c) \in [Listeners -> Nat \cup {None}]
  BY CompactShrinks DEF Heap, HeapInv, RegistryInv
<1>4. \A m \in Listeners : heap'[m] = IF m = l THEN None ELSE CompactHeap(c)[m]
  BY <1>1, <1>3
<1>5. stale'[c] = CompactStale(c) \/ stale'[c] = Count(CompactStale(c))
  BY <1>1, <1>2
<1>6. ASSUME NEW d \in Clients
      PROVE  Counts(d)
  <2>1. CASE d = c
    <3>1. CASE CompactHeap(c) = heap /\ CompactStale(c) = stale[c]
      <4>1. Dead(d)' \subseteq Dead(d)
        BY <1>1, <1>4, <3>1 DEF Dead, Heap
      <4> QED BY <1>3, <1>5, <2>1, <3>1, <4>1 DEF Counts
    <3>2. CASE \A m \in Listeners : Home(m) = c /\ m \notin live => CompactHeap(c)[m] = None
      <4>1. Dead(d)' = {}
        BY <1>1, <1>4, <2>1, <3>2 DEF Dead, Heap
      <4>2. stale'[c] \in 0..StaleMax
        BY <1>5, CompactLemma, ListenerAssumption DEF Count
      <4> QED BY <2>1, <4>1, <4>2 DEF Counts
    <3> QED BY <3>1, <3>2, CompactLemma
  <2>2. CASE d # c
    <3>1. Dead(d)' \subseteq Dead(d)
      BY <1>1, <1>3, <1>4, <2>2, CompactLemma DEF Dead, Heap
    <3> QED BY <1>1, <1>2, <2>2, <3>1 DEF Counts
  <2> QED BY <2>1, <2>2
<1>7. DOMAIN stale' = Clients /\ stale' = [d \in Clients |-> stale'[d]]
  BY <1>1, <1>2
<1> QED BY <1>2, <1>6, <1>7, HeapFrame

\* feed() keeps its records in shape.
LEMMA FeedLooksHeap ==
    ASSUME HeapInv, RegistryInv', NEW f \in Feeds,
           \/ \E c \in Clients : FeedBegin(f, c)
           \/ FeedSkip(f) \/ FeedFilter(f) \/ FeedFiltered(f) \/ FeedEnd(f)
    PROVE  HeapInv'
<1>1. UNCHANGED <<live, heap, stale, alarm, wake>>
  BY DEF FeedBegin, FeedSkip, FeedFilter, FeedFiltered, FeedEnd, timing
<1>2. /\ feed \in [Feeds -> FeedType] /\ feed[f] \in FeedType
      /\ live \subseteq Listeners /\ wake \subseteq Clients
  BY DEF HeapInv, TypeOK, FeedType
<1>3. feed' \in [Feeds -> FeedType]
  <2>1. CASE \E c \in Clients : FeedBegin(f, c)
    <3>1. PICK c \in Clients, found \in SUBSET live :
             feed' = [feed EXCEPT ![f] = [client |-> c, rest |-> found, filtering |-> None]]
      BY <2>1 DEF FeedBegin
    <3>2. [client |-> c, rest |-> found, filtering |-> None] \in FeedType
      BY <1>2 DEF FeedType
    <3> QED BY <1>2, <3>1, <3>2
  <2>2. CASE FeedSkip(f)
    BY <1>2, <2>2 DEF FeedSkip, FeedType
  <2>3. CASE FeedFilter(f)
    <3>1. PICK l \in feed[f].rest :
             feed' = [feed EXCEPT ![f].rest = @ \ {l}, ![f].filtering = l]
      BY <2>3 DEF FeedFilter
    <3>2. l \in Listeners
      BY <1>2 DEF FeedType
    <3> QED BY <1>2, <3>1, <3>2 DEF FeedType
  <2>4. CASE FeedFiltered(f)
    BY <1>2, <2>4 DEF FeedFiltered, FeedType
  <2>5. CASE FeedEnd(f)
    BY <1>2, <2>5 DEF FeedEnd, FeedType, Idle
  <2> QED BY <2>1, <2>2, <2>3, <2>4, <2>5
<1> QED BY <1>1, <1>2, <1>3, SameHeap

LEMMA FeedDeliverHeap ==
    ASSUME HeapInv, RegistryInv', NEW f \in Feeds, FeedDeliver(f)
    PROVE  HeapInv'
<1> DEFINE l == feed[f].filtering
<1>1. /\ Remove(l) /\ UNCHANGED <<heap, alarm, wake>>
      /\ \/ feed' = [feed EXCEPT ![f] = Idle]
         \/ feed' = [feed EXCEPT ![f].filtering = None]
  BY DEF FeedDeliver
<1>2. feed \in [Feeds -> FeedType] /\ live \subseteq Listeners
  BY DEF HeapInv, TypeOK, FeedType
<1>3. feed' \in [Feeds -> FeedType]
  BY <1>1, <1>2 DEF FeedType, Idle
<1> QED BY <1>1, <1>2, <1>3, RemoveHeap

LEMMA NextHeap ==
    ASSUME HeapInv, [Next]_vars
    PROVE  HeapInv'
<1>1. RegistryInv'
  BY NextInv DEF HeapInv
<1>2. /\ feed \in [Feeds -> FeedType] /\ wake \subseteq Clients /\ live \subseteq Listeners
  BY DEF HeapInv, TypeOK, FeedType
<1>3. CASE UNCHANGED vars
  BY <1>1, <1>2, <1>3, SameHeap DEF vars
<1>4. ASSUME NEW c \in Clients, Reap(c)
      PROVE  HeapInv'
  BY <1>1, <1>4, ReapWaitHeap, ReapPopHeap DEF Reap
<1>5. CASE Others
  <2>1. ASSUME NEW l \in Listeners, NEW kind \in {"future", "callback"},
               NEW timeout \in Timeouts \cup {None}, Add(l, kind, timeout)
        PROVE  HeapInv'
    BY <1>1, <2>1, AddHeap
  <2>2. ASSUME NEW l \in Listeners, Stop(l) \/ Return(l)
        PROVE  HeapInv'
    BY <1>1, <1>2, <2>2, RemoveHeap DEF Stop, Return
  <2>3. ASSUME NEW l \in Listeners, Cancel(l)
        PROVE  HeapInv'
    BY <1>1, <1>2, <2>3, SameHeap DEF Cancel
  <2>4. ASSUME NEW c \in Clients, Close(c) \/ Reopen(c)
        PROVE  HeapInv'
    BY <1>1, <1>2, <2>4, CloseHeap, SameHeap DEF Reopen
  <2>5. CASE Tick
    BY <1>1, <2>5, TickHeap
  <2>6. ASSUME NEW f \in Feeds,
               \/ \E c \in Clients : FeedBegin(f, c)
               \/ FeedSkip(f) \/ FeedFilter(f) \/ FeedFiltered(f) \/ FeedEnd(f)
        PROVE  HeapInv'
    BY <1>1, <2>6, FeedLooksHeap
  <2>7. ASSUME NEW f \in Feeds, FeedDeliver(f)
        PROVE  HeapInv'
    BY <1>1, <2>7, FeedDeliverHeap
  <2> QED BY <1>5, <2>1, <2>2, <2>3, <2>4, <2>5, <2>6, <2>7 DEF Others
<1> QED BY <1>3, <1>4, <1>5 DEF Next

LEMMA InitHeap ==
    ASSUME Init
    PROVE  HeapInv
<1>1. TypeOK
  BY ListenerAssumption DEF Init, TypeOK, Idle
<1>2. DeadCounted
  <2>1. \A c \in Clients : Dead(c) = {} /\ stale[c] = 0
    BY DEF Init, Dead, Heap
  <2> QED BY <2>1, FS_EmptySet DEF DeadCounted
<1> QED BY <1>1, <1>2, InitInv DEF HeapInv

\* The reaper goes to sleep over a heap that was pruned or needs no pruning.
LEMMA WaitPruned ==
    ASSUME HeapInv, NEW c \in Clients, ReapWait(c)
    PROVE  LET dead == Cardinality(Heap(c)' \ live)
           IN  dead < CompactAt \/ 2 * dead < Cardinality(Heap(c)')
<1>1. heap' = CompactHeap(c) /\ CompactAt \in Nat \ {0}
  BY ListenerAssumption DEF ReapWait
<1>2. CASE Compact(c)
  <2>1. Heap(c)' \ live = {}
    BY <1>1, <1>2 DEF CompactHeap, Heap
  <2>2. Cardinality(Heap(c)' \ live) = 0
    BY <2>1, FS_EmptySet
  <2> QED BY <1>1, <2>2
<1>3. CASE ~Compact(c)
  <2>1. Heap(c)' = Heap(c)
    BY <1>1, <1>3 DEF CompactHeap, Heap
  <2>2. /\ Heap(c) \in SUBSET {l \in Listeners : Home(l) = c}
        /\ Dead(c) \in SUBSET {l \in Listeners : Home(l) = c}
    BY DEF Heap, Dead
  <2>3. Cardinality(Heap(c)) \in Nat /\ Cardinality(Dead(c)) \in Nat
    BY <2>2, HeapFinite
  <2>4. Cardinality(Dead(c)) <= stale[c] /\ stale[c] \in Nat
    BY ListenerAssumption DEF HeapInv, DeadCounted, TypeOK
  <2>5. stale[c] < CompactAt \/ 2 * stale[c] < Cardinality(Heap(c))
    BY <1>1, <1>3, <2>3, <2>4 DEF Compact
  <2>6. Cardinality(Dead(c)) < CompactAt \/ 2 * Cardinality(Dead(c)) < Cardinality(Heap(c))
    BY <1>1, <2>3, <2>4, <2>5
  <2> QED BY <2>1, <2>6 DEF Dead
<1> QED BY <1>2, <1>3

(***************************************************************************)
(* Types, and _compact() overlooks no dead entry: whenever the reaper goes *)
(* to sleep, few entries of the heap are dead or the larger part is alive, *)
(* however the listeners were removed.                                     *)
(***************************************************************************)
THEOREM HeapPrunedTheorem == Spec => HeapPruned
<1>1. Init => HeapInv
  BY InitHeap
<1>2. HeapInv /\ [Next]_vars => HeapInv'
  BY NextHeap
<1>3. HeapInv => TypeOK
  BY DEF HeapInv
<1>4. HeapInv /\ [Next]_vars =>
        [\A c \in Clients : ReapWait(c) =>
            LET dead == Cardinality(Heap(c)' \ live)
            IN  dead < CompactAt \/ 2 * dead < Cardinality(Heap(c)')]_vars
  BY WaitPruned
<1> QED BY <1>1, <1>2, <1>3, <1>4, PTL DEF Spec, HeapPruned

----------------------------------------------------------------------------
(* The buckets *)

\* The listeners that add() files under a key.
Filed(k) == {l \in Waiters : awaits[l] # Absent /\ k \in KeysFor(awaits[l])}

(***************************************************************************)
(* BucketsExact does not say which bucket holds a listener, and remove()   *)
(* looks only into those _keys_for() names: that it leaves none behind     *)
(* needs each bucket to be known exactly.                                  *)
(***************************************************************************)
IndexInv ==
    /\ awaits \in [Waiters -> Specs \cup {Absent}]
    /\ DOMAIN buckets = {k \in Keys : Filed(k) # {}}
    /\ \A k \in DOMAIN buckets : buckets[k] = Filed(k)

\* _keys_for() gives at least one key, and only keys of the index.
LEMMA KeysForType ==
    ASSUME NEW spec \in Specs
    PROVE  KeysFor(spec) \subseteq Keys /\ KeysFor(spec) # {}
<1>1. spec.type \in Types /\ spec.chat \subseteq Chats /\ spec.user \subseteq Users
  BY DEF Specs
<1>2. /\ \A c \in spec.chat : <<spec.type, "chat", c>> \in Keys
      /\ \A x \in spec.user : <<spec.type, "user", x>> \in Keys
      /\ <<spec.type, "global", Absent>> \in Keys
  BY <1>1 DEF Keys
<1>3. ASSUME NEW k \in KeysFor(spec)
      PROVE  k \in Keys
  <2>1. \/ \E c \in spec.chat : k = <<spec.type, "chat", c>>
        \/ \E x \in spec.user : k = <<spec.type, "user", x>>
        \/ k = <<spec.type, "global", Absent>>
    BY <1>3 DEF KeysFor
  <2> QED BY <2>1, <1>2
<1>4. KeysFor(spec) # {}
  BY Zenon DEF KeysFor
<1> QED BY <1>3, <1>4

\* The registry starts empty, and so does its index.
LEMMA IndexInit == KeysInit => IndexInv
  BY DEF KeysInit, IndexInv, Filed

\* add() brings a listener into the buckets of all its keys and no others.
LEMMA IndexAdd ==
    ASSUME IndexInv, NEW l \in Waiters, NEW spec \in Specs, AddKeys(l, spec)
    PROVE  IndexInv'
<1>1. awaits' \in [Waiters -> Specs \cup {Absent}]
  BY DEF IndexInv, AddKeys
<1>2. spec # Absent
  BY KeysAssumption
<1>3. \A k : Filed(k)' = IF k \in KeysFor(spec) THEN Filed(k) \cup {l} ELSE Filed(k)
  <2> SUFFICES ASSUME NEW k
               PROVE  Filed(k)' = IF k \in KeysFor(spec) THEN Filed(k) \cup {l}
                                  ELSE Filed(k)
    OBVIOUS
  <2>1. awaits[l] = Absent /\ awaits'[l] = spec
    BY DEF IndexInv, AddKeys
  <2>2. \A m \in Waiters \ {l} : awaits'[m] = awaits[m]
    BY DEF IndexInv, AddKeys
  <2>3. Filed(k)' = {m \in Waiters : awaits'[m] # Absent /\ k \in KeysFor(awaits'[m])}
    BY DEF Filed, KeysFor
  <2> HIDE DEF KeysFor
  <2> QED BY <1>2, <2>1, <2>2, <2>3 DEF Filed
<1>4. \A k : Bucket(k) = IF k \in Keys THEN Filed(k) ELSE {}
  BY DEF Bucket, IndexInv
<1>5. KeysFor(spec) \subseteq Keys
  BY KeysForType
<1>6. DOMAIN buckets' = DOMAIN buckets \cup KeysFor(spec)
  BY DEF AddKeys
<1>7. DOMAIN buckets' = {k \in Keys : Filed(k)' # {}}
  BY <1>3, <1>5, <1>6 DEF IndexInv
<1>8. ASSUME NEW k \in DOMAIN buckets'
      PROVE  buckets'[k] = Filed(k)'
  <2>1. buckets'[k] = IF k \in KeysFor(spec) THEN Bucket(k) \cup {l} ELSE buckets[k]
    BY <1>6, <1>8 DEF AddKeys
  <2> QED BY <2>1, <1>3, <1>4, <1>5, <1>6, <1>8 DEF IndexInv
<1> QED BY <1>1, <1>7, <1>8 DEF IndexInv

\* remove() takes a listener out of every bucket it is in, and drops those
\* it was the last in.
LEMMA IndexRemove ==
    ASSUME IndexInv, NEW l \in Waiters, RemoveKeys(l)
    PROVE  IndexInv'
<1> DEFINE keys == KeysFor(awaits[l])
<1> DEFINE kept == {k \in DOMAIN buckets : k \in keys => buckets[k] # {l}}
<1>1. awaits' \in [Waiters -> Specs \cup {Absent}]
  BY DEF IndexInv, RemoveKeys
<1>2. awaits[l] # Absent /\ awaits'[l] = Absent
  BY DEF IndexInv, RemoveKeys
<1>3. \A k : Filed(k)' = Filed(k) \ {l}
  <2> SUFFICES ASSUME NEW k
               PROVE  Filed(k)' = Filed(k) \ {l}
    OBVIOUS
  <2>1. \A m \in Waiters \ {l} : awaits'[m] = awaits[m]
    BY DEF IndexInv, RemoveKeys
  <2>2. Filed(k)' = {m \in Waiters : awaits'[m] # Absent /\ k \in KeysFor(awaits'[m])}
    BY DEF Filed, KeysFor
  <2> QED BY <1>2, <2>1, <2>2 DEF Filed
<1>4. \A k : l \in Filed(k) <=> k \in keys
  BY <1>2 DEF Filed
<1>5. buckets' = [k \in kept |-> IF k \in keys THEN buckets[k] \ {l} ELSE buckets[k]]
  BY DEF RemoveKeys
<1> HIDE DEF keys
<1>6. DOMAIN buckets' = kept
  BY <1>5
<1>7. kept = {k \in Keys : Filed(k)' # {}}
  <2>1. \A k \in DOMAIN buckets : buckets[k] = Filed(k)
    BY DEF IndexInv
  <2>2. DOMAIN buckets = {k \in Keys : Filed(k) # {}}
    BY DEF IndexInv
  <2>3. \A k \in DOMAIN buckets : k \in kept <=> Filed(k) \ {l} # {}
    BY <2>1, <2>2, <1>4
  <2> QED BY <2>2, <2>3, <1>3
<1>8. ASSUME NEW k \in kept
      PROVE  buckets'[k] = Filed(k)'
  <2>1. buckets[k] = Filed(k)
    BY <1>8 DEF IndexInv
  <2> QED BY <2>1, <1>3, <1>4, <1>5
<1> QED BY <1>1, <1>6, <1>7, <1>8 DEF IndexInv

\* At every moment the buckets are the index of _live, whatever was added and
\* removed before.
THEOREM IndexInvariant == KeysSpec => []IndexInv
<1>1. IndexInv /\ [KeysNext]_keysVars => IndexInv'
  <2> SUFFICES ASSUME IndexInv, [KeysNext]_keysVars PROVE IndexInv'
    OBVIOUS
  <2>1. CASE UNCHANGED keysVars
    <3>1. awaits' = awaits /\ buckets' = buckets
      BY <2>1 DEF keysVars
    <3>2. \A k : Filed(k)' = Filed(k)
      BY <3>1 DEF Filed, KeysFor
    <3> QED BY <3>1, <3>2 DEF IndexInv
  <2>2. ASSUME NEW l \in Waiters, RemoveKeys(l)
        PROVE  IndexInv'
    BY <2>2, IndexRemove
  <2>3. ASSUME NEW l \in Waiters, NEW spec \in Specs, AddKeys(l, spec)
        PROVE  IndexInv'
    BY <2>3, IndexAdd
  <2> QED BY <2>1, <2>2, <2>3 DEF KeysNext
<1> QED BY <1>1, IndexInit, PTL DEF KeysSpec

\* BucketsExact of the run listener_keys, for every set of listeners: no
\* listener that is gone is left in a bucket, and no bucket is left empty.
THEOREM BucketsExactTheorem == KeysSpec => []BucketsExact
<1>1. IndexInv => BucketsExact
  <2> SUFFICES ASSUME IndexInv PROVE BucketsExact
    OBVIOUS
  <2>1. KeysTypeOK
    BY DEF IndexInv, KeysTypeOK, Filed
  <2>2. \A k \in DOMAIN buckets :
           buckets[k] # {} /\ \A l \in buckets[k] : awaits[l] # Absent
    BY DEF IndexInv, Filed
  <2>3. \A l \in Waiters : awaits[l] # Absent => KeysFor(awaits[l]) \subseteq Keys
    <3> SUFFICES ASSUME NEW l \in Waiters, awaits[l] # Absent
                 PROVE  KeysFor(awaits[l]) \subseteq Keys
      OBVIOUS
    <3>1. awaits[l] \in Specs
      BY DEF IndexInv
    <3> QED BY <3>1, KeysForType
  <2>4. DOMAIN buckets = UNION {KeysFor(awaits[l]) : l \in {m \in Waiters :
                                                            awaits[m] # Absent}}
    BY <2>3 DEF IndexInv, Filed
  <2> QED BY <2>1, <2>2, <2>4 DEF BucketsExact
<1> QED BY <1>1, IndexInvariant, PTL

\* A listener is a candidate of an update as soon as one of the three keys
\* the update is looked up by is a key of it.
LEMMA ProbeFinds ==
    ASSUME IndexInv, NEW l \in Waiters, awaits[l] # Absent, NEW data,
           \E k \in {<<data.type, "chat", data.chat>>,
                     <<data.type, "user", data.user>>,
                     <<data.type, "global", Absent>>} : k \in KeysFor(awaits[l])
    PROVE  l \in Candidates(data)
<1> PICK k \in {<<data.type, "chat", data.chat>>, <<data.type, "user", data.user>>,
                <<data.type, "global", Absent>>} : k \in KeysFor(awaits[l])
  OBVIOUS
<1>1. awaits[l] \in Specs
  BY DEF IndexInv
<1>2. k \in Keys
  BY <1>1, KeysForType
<1>3. l \in Filed(k)
  BY DEF Filed
<1>4. l \in Bucket(k)
  BY <1>2, <1>3 DEF Bucket, IndexInv
<1> QED BY <1>4 DEF Candidates

\* LookupComplete of the run listener_keys, for every set of listeners and
\* updates: _candidates() misses no listener that matches an update.
THEOREM LookupCompleteTheorem == KeysSpec => []LookupComplete
<1>1. IndexInv => LookupComplete
  <2> SUFFICES ASSUME IndexInv, NEW u \in Updates, NEW l \in Waiters,
                      awaits[l] # Absent, awaits[l].type = u.type,
                      Matches(awaits[l], Identify(u))
               PROVE  l \in Candidates(Identify(u))
    BY DEF LookupComplete
  <2> DEFINE data == Identify(u)
             spec == awaits[l]
  <2>1. spec \in Specs
    BY DEF IndexInv
  <2>2. data.type = spec.type
    BY DEF Identify
  <2>3. /\ spec.chat = {} \/ data.chat \in spec.chat
        /\ spec.user = {} \/ data.user \in spec.user
    BY DEF Matches, Accepts
  <2> HIDE DEF data, spec
  <2>4. \/ <<data.type, "chat", data.chat>> \in KeysFor(spec)
        \/ <<data.type, "user", data.user>> \in KeysFor(spec)
        \/ <<data.type, "global", Absent>> \in KeysFor(spec)
    BY <2>2, <2>3 DEF KeysFor
  <2> QED BY <2>4, ProbeFinds DEF data, spec
<1> QED BY <1>1, IndexInvariant, PTL

\* StrangersSeen of the run listener_keys: whoever presses a button that a
\* listener with an alert waits for, that listener is among the candidates.
THEOREM StrangersSeenTheorem == KeysSpec => []StrangersSeen
<1>1. IndexInv => StrangersSeen
  <2> SUFFICES ASSUME IndexInv, NEW u \in Updates, NEW l \in Waiters,
                      awaits[l] # Absent, awaits[l].type = u.type, awaits[l].button # {},
                      IsStranger(awaits[l], Identify(u))
               PROVE  l \in Candidates(Identify(u))
    BY DEF StrangersSeen
  <2> DEFINE data == Identify(u)
             spec == awaits[l]
  <2>1. data.type = spec.type
    BY DEF Identify
  <2>2. /\ spec.type = "callback_query" /\ spec.alert /\ spec.button # {}
        /\ spec.chat = {} \/ data.chat \in spec.chat
    BY DEF IsStranger, Accepts
  <2> HIDE DEF data, spec
  <2>3. \/ <<data.type, "chat", data.chat>> \in KeysFor(spec)
        \/ <<data.type, "global", Absent>> \in KeysFor(spec)
    BY <2>1, <2>2 DEF KeysFor
  <2> QED BY <2>3, ProbeFinds DEF data, spec
<1> QED BY <1>1, IndexInvariant, PTL

=============================================================================
