-------------------------- MODULE DispatcherProofs --------------------------
(***************************************************************************)
(* The dispatcher, for every number of workers, handlers, groups and       *)
(* edits, every queue size and every limit on listeners: the count of      *)
(* parked workers and the generations of the pool (DispatcherPool), and    *)
(* the walk of an update through the handler groups (HandlerDispatch).     *)
(***************************************************************************)
EXTENDS DispatcherPool, HandlerDispatch, SequenceTheorems, FiniteSetTheorems,
        WellFoundedInduction, TLAPS

----------------------------------------------------------------------------
(* The pool: the inductive invariant *)

\* The workers whose handler is in listen(): park() was called, unpark() not.
Waiting == {w \in Workers : pc[w] \in {"parked", "resumed"}}

\* The counter is exact until stop() resets it, and then it stays at 0.
Counted ==
    /\ pool \in {"running", "closing"} => parked = Cardinality(Waiting)
    /\ pool \notin {"running", "closing"} => parked = 0

\* stop() waits for whoever is left: a relief worker that runs is in
\* relief_workers, and a worker that runs while stop() joins is waited for.
Awaited ==
    /\ \A r \in Relief : pc[r] # "gone" => r \in relief
    /\ pool # "joining" => joining = {}
    /\ pool = "joining" => \A w \in Workers : pc[w] # "gone" => w \in joining

\* Sentinels are in the queue only while stop() waits for them to be taken.
NoStraySentinel ==
    pool \in {"down", "running", "closing"} =>
        \A i \in 1..Len(queue) : queue[i] = "update"

PoolInv ==
    /\ TypeOK
    /\ Counted
    /\ Awaited
    /\ NoStraySentinel
    /\ FreshGeneration
    /\ NoWorkerLeft

----------------------------------------------------------------------------

\* How many wait is a number, and how it changes with one worker's pc.
LEMMA WaitingFinite == IsFiniteSet(Waiting) /\ Cardinality(Waiting) \in Nat
<1>1. IsFiniteSet(Workers)
  BY PoolAssumption, FS_Union DEF Workers
<1>2. IsFiniteSet(Waiting)
  BY <1>1, FS_Subset DEF Waiting
<1> QED BY <1>2, FS_CardinalityType

\* A relief worker is not a base worker.
LEMMA BaseNotRelief == Base \subseteq Workers /\ Relief \subseteq Workers
                       /\ \A w \in Base : w \notin Relief
  BY PoolAssumption DEF Workers

\* A step that moves workers about without touching the queue, the counter or
\* stop() itself: nobody comes back to life or starts or ends to wait, and no
\* base worker ends while the pool runs.
LEMMA MoveInv ==
    ASSUME PoolInv, UNCHANGED <<pool, relief, parked, sending, joining>>,
           pc' \in [Workers -> {"gone", "new", "get", "busy", "parked", "resumed"}],
           \A w \in Workers : pc[w] = "gone" => pc'[w] = "gone",
           \A w \in Workers : pc'[w] \in {"parked", "resumed"} <=>
                              pc[w] \in {"parked", "resumed"},
           pool = "running" => \A w \in Base : pc'[w] # "gone",
           queue' \in Seq({"update", "stop"}), Len(queue') <= QueueMax,
           \A i \in 1..Len(queue') : queue'[i] = "update"
                                     \/ pool \notin {"down", "running", "closing"}
    PROVE  PoolInv'
<1>1. Waiting' = Waiting
  BY DEF Waiting
<1>2. TypeOK'
  BY DEF PoolInv, TypeOK
<1>3. Counted'
  BY <1>1 DEF PoolInv, Counted
<1>4. Awaited'
  BY BaseNotRelief DEF PoolInv, Awaited
<1>5. NoStraySentinel'
  BY DEF NoStraySentinel
<1>6. FreshGeneration'
  BY DEF FreshGeneration
<1>7. NoWorkerLeft'
  BY DEF PoolInv, NoWorkerLeft
<1> QED BY <1>2, <1>3, <1>4, <1>5, <1>6, <1>7 DEF PoolInv

LEMMA InitInv == Init => PoolInv
<1> SUFFICES ASSUME Init PROVE PoolInv
  OBVIOUS
<1>1. queue \in Seq({"update", "stop"}) /\ Len(queue) = 0
  BY EmptySeq DEF Init
<1>2. TypeOK
  BY <1>1, PoolAssumption DEF Init, TypeOK
<1> QED BY <1>1, <1>2, BaseNotRelief
           DEF Init, PoolInv, Counted, Awaited, NoStraySentinel, FreshGeneration,
               NoWorkerLeft

LEMMA StartInv ==
    ASSUME PoolInv, Start
    PROVE  PoolInv'
<1> USE DEF Start
<1>1. TypeOK'
  BY DEF PoolInv, TypeOK
<1>2. \A w \in Workers : pc'[w] = IF w \in Base THEN "new" ELSE "gone"
  BY DEF PoolInv, NoWorkerLeft
<1>3. Counted'
  <2>1. Waiting' = {}
    BY <1>2 DEF Waiting
  <2> QED BY <2>1, FS_EmptySet DEF PoolInv, Counted
<1>4. Awaited'
  BY <1>2, BaseNotRelief DEF PoolInv, Awaited
<1>5. NoStraySentinel' /\ NoWorkerLeft'
  BY DEF PoolInv, NoStraySentinel, NoWorkerLeft
<1>6. FreshGeneration'
  BY <1>2, BaseNotRelief DEF PoolInv, NoStraySentinel, FreshGeneration
<1> QED BY <1>1, <1>3, <1>4, <1>5, <1>6 DEF PoolInv

LEMMA EnqueueInv ==
    ASSUME PoolInv, Enqueue
    PROVE  PoolInv'
<1> USE DEF Enqueue
<1>1. queue \in Seq({"update", "stop"}) /\ Len(queue) \in Nat
  BY DEF PoolInv, TypeOK
<1>2. /\ queue' \in Seq({"update", "stop"}) /\ Len(queue') = Len(queue) + 1
      /\ \A i \in 1..Len(queue) : queue'[i] = queue[i]
      /\ queue'[Len(queue) + 1] = "update"
  BY <1>1, AppendProperties
<1>3. Len(queue') <= QueueMax
  BY <1>1, <1>2, PoolAssumption
<1>4. \A i \in 1..Len(queue') :
         queue'[i] = "update" \/ pool \notin {"down", "running", "closing"}
  BY <1>1, <1>2 DEF PoolInv, NoStraySentinel
<1>5. pc' = pc /\ pc \in [Workers -> {"gone", "new", "get", "busy", "parked", "resumed"}]
  BY DEF PoolInv, TypeOK
<1>6. pool = "running" => \A w \in Base : pc'[w] # "gone"
  BY DEF PoolInv, FreshGeneration
<1> QED BY <1>2, <1>3, <1>4, <1>5, <1>6, MoveInv

LEMMA LoopInv ==
    ASSUME PoolInv, NEW w \in Workers, Loop(w)
    PROVE  PoolInv'
<1> USE DEF Loop
<1>1. /\ pc \in [Workers -> {"gone", "new", "get", "busy", "parked", "resumed"}]
      /\ queue \in Seq({"update", "stop"}) /\ Len(queue) <= QueueMax
  BY DEF PoolInv, TypeOK
<1>2. Again(w) \in {"gone", "get"} /\ (w \in Base => Again(w) = "get")
  BY BaseNotRelief DEF Again
<1>3. \A v \in Workers : pc'[v] = IF v = w THEN Again(w) ELSE pc[v]
  BY <1>1
<1>4. pc' \in [Workers -> {"gone", "new", "get", "busy", "parked", "resumed"}]
  BY <1>1, <1>2
<1>5. pool = "running" => \A v \in Base : pc'[v] # "gone"
  BY <1>2, <1>3, BaseNotRelief DEF PoolInv, FreshGeneration
<1>6. \A i \in 1..Len(queue') :
         queue'[i] = "update" \/ pool \notin {"down", "running", "closing"}
  BY DEF PoolInv, NoStraySentinel
<1> QED BY <1>1, <1>2, <1>3, <1>4, <1>5, <1>6, MoveInv

LEMMA DiscardInv ==
    ASSUME PoolInv, NEW w \in Workers, Discard(w)
    PROVE  PoolInv'
<1> USE DEF Discard
<1>1. TypeOK'
  BY DEF PoolInv, TypeOK
<1>2. Counted' /\ Awaited'
  BY DEF PoolInv, Counted, Waiting, Awaited
<1>3. NoStraySentinel' /\ FreshGeneration' /\ NoWorkerLeft'
  BY DEF PoolInv, NoStraySentinel, FreshGeneration, NoWorkerLeft
<1> QED BY <1>1, <1>2, <1>3 DEF PoolInv

\* A worker takes the end, which is there only when stop() put it, or an
\* update, with which it may wake another.
LEMMA TakeInv ==
    ASSUME PoolInv, NEW w \in Workers, Take(w)
    PROVE  PoolInv'
<1> USE DEF Take
<1>1. /\ pc \in [Workers -> {"gone", "new", "get", "busy", "parked", "resumed"}]
      /\ queue \in Seq({"update", "stop"}) /\ Len(queue) <= QueueMax
      /\ queue # <<>> /\ Len(queue) \in Nat /\ 1 <= Len(queue)
  BY EmptySeq DEF PoolInv, TypeOK
<1>2. /\ Head(queue) = queue[1]
      /\ queue' \in Seq({"update", "stop"}) /\ Len(queue') = Len(queue) - 1
      /\ \A i \in 1..Len(queue') : queue'[i] = queue[i + 1]
  BY <1>1, HeadTailProperties
<1>3. Len(queue') <= QueueMax
  BY <1>1, <1>2, PoolAssumption
<1>4. \A i \in 1..Len(queue') :
         queue'[i] = "update" \/ pool \notin {"down", "running", "closing"}
  BY <1>1, <1>2 DEF PoolInv, NoStraySentinel
<1>5. /\ pc' \in [Workers -> {"gone", "new", "get", "busy", "parked", "resumed"}]
      /\ \A v \in Workers : pc[v] = "gone" => pc'[v] = "gone"
      /\ \A v \in Workers : pc'[v] \in {"parked", "resumed"} <=>
                            pc[v] \in {"parked", "resumed"}
      /\ pool = "running" => \A v \in Base : pc'[v] # "gone"
  <2>1. CASE Head(queue) = "stop"
    <3>1. pool # "running"
      BY <2>1, <1>1, <1>2 DEF PoolInv, NoStraySentinel
    <3>2. pc' = [pc EXCEPT ![w] = "gone"]
      BY <2>1
    <3> QED BY <3>1, <3>2, <1>1
  <2>2. CASE pc' = [pc EXCEPT ![w] = "busy"]
    BY <2>2, <1>1, BaseNotRelief DEF PoolInv, FreshGeneration
  <2>3. ASSUME NEW v \in Workers, pc[v] = "parked",
               pc' = [pc EXCEPT ![w] = "busy", ![v] = "resumed"]
        PROVE  /\ pc' \in [Workers -> {"gone", "new", "get", "busy", "parked",
                                       "resumed"}]
               /\ \A x \in Workers : pc[x] = "gone" => pc'[x] = "gone"
               /\ \A x \in Workers : pc'[x] \in {"parked", "resumed"} <=>
                                     pc[x] \in {"parked", "resumed"}
               /\ pool = "running" => \A x \in Base : pc'[x] # "gone"
    BY <2>3, <1>1, BaseNotRelief DEF PoolInv, FreshGeneration
  <2> QED BY <2>1, <2>2, <2>3
<1> QED BY <1>2, <1>3, <1>4, <1>5, MoveInv

\* listen() is entered: one more waits, and a relief worker comes in.
LEMMA ParkInv ==
    ASSUME PoolInv, NEW w \in Workers, Park(w)
    PROVE  PoolInv'
<1> USE DEF Park
<1>1. /\ pc \in [Workers -> {"gone", "new", "get", "busy", "parked", "resumed"}]
      /\ pool = "running" /\ pool' = "running" /\ pc[w] = "busy"
  BY DEF PoolInv, TypeOK
<1>2. PICK r \in Relief :
         /\ pc[r] = "gone" /\ r \notin relief
         /\ relief' = relief \cup {r}
         /\ pc' = [pc EXCEPT ![w] = "parked", ![r] = "new"]
  OBVIOUS
<1>3. r \in Workers /\ r # w
  BY <1>1, <1>2, BaseNotRelief
<1>4. /\ pc' \in [Workers -> {"gone", "new", "get", "busy", "parked", "resumed"}]
      /\ pc'[w] = "parked" /\ pc'[r] = "new"
      /\ \A v \in Workers \ {w, r} : pc'[v] = pc[v]
  BY <1>1, <1>2, <1>3
<1>5. Waiting' = Waiting \cup {w} /\ w \notin Waiting
  BY <1>1, <1>2, <1>3, <1>4 DEF Waiting
<1>6. Cardinality(Waiting') = Cardinality(Waiting) + 1
  BY <1>5, WaitingFinite, FS_AddElement
<1>7. Cardinality(Waiting) < ListenerMax /\ parked = Cardinality(Waiting)
  BY <1>1 DEF PoolInv, Counted, Waiting
<1>8. parked' \in 0..ListenerMax
  BY <1>7, WaitingFinite, PoolAssumption
<1>9. TypeOK'
  BY <1>2, <1>4, <1>8 DEF PoolInv, TypeOK
<1>10. Counted'
  BY <1>1, <1>6, <1>7 DEF Counted
<1>11. Awaited'
  BY <1>1, <1>2, <1>4, BaseNotRelief DEF PoolInv, Awaited
<1>12. NoStraySentinel' /\ NoWorkerLeft'
  BY <1>1 DEF PoolInv, NoStraySentinel, NoWorkerLeft
<1>13. FreshGeneration'
  BY <1>1, <1>4, BaseNotRelief DEF PoolInv, FreshGeneration
<1> QED BY <1>9, <1>10, <1>11, <1>12, <1>13 DEF PoolInv

LEMMA TimeoutInv ==
    ASSUME PoolInv, NEW w \in Workers, Timeout(w)
    PROVE  PoolInv'
<1> USE DEF Timeout
<1>1. /\ pc \in [Workers -> {"gone", "new", "get", "busy", "parked", "resumed"}]
      /\ queue \in Seq({"update", "stop"}) /\ Len(queue) <= QueueMax
  BY DEF PoolInv, TypeOK
<1>2. \A v \in Workers : pc'[v] = IF v = w THEN "resumed" ELSE pc[v]
  BY <1>1
<1>3. pc' \in [Workers -> {"gone", "new", "get", "busy", "parked", "resumed"}]
  BY <1>1
<1>4. pool = "running" => \A v \in Base : pc'[v] # "gone"
  BY <1>2, BaseNotRelief DEF PoolInv, FreshGeneration
<1>5. \A i \in 1..Len(queue') :
         queue'[i] = "update" \/ pool \notin {"down", "running", "closing"}
  BY DEF PoolInv, NoStraySentinel
<1> QED BY <1>1, <1>2, <1>3, <1>4, <1>5, MoveInv

\* listen() is left: one fewer waits, unless stop() has reset the counter.
LEMMA UnparkInv ==
    ASSUME PoolInv, NEW w \in Workers, Unpark(w)
    PROVE  PoolInv'
<1> USE DEF Unpark
<1>1. /\ pc \in [Workers -> {"gone", "new", "get", "busy", "parked", "resumed"}]
      /\ parked \in 0..ListenerMax
  BY DEF PoolInv, TypeOK
<1>2. \A v \in Workers : pc'[v] = IF v = w THEN "busy" ELSE pc[v]
  BY <1>1
<1>3. Waiting' = Waiting \ {w} /\ w \in Waiting
  BY <1>2 DEF Waiting
<1>4. /\ Cardinality(Waiting') = Cardinality(Waiting) - 1
      /\ Cardinality(Waiting) # 0
  BY <1>3, WaitingFinite, FS_RemoveElement, FS_EmptySet
<1>5. TypeOK'
  BY <1>1, PoolAssumption DEF PoolInv, TypeOK
<1>6. Counted'
  BY <1>1, <1>4, WaitingFinite DEF PoolInv, Counted
<1>7. Awaited'
  BY <1>2, BaseNotRelief DEF PoolInv, Awaited
<1>8. NoStraySentinel'
  BY DEF PoolInv, NoStraySentinel
<1>9. FreshGeneration' /\ NoWorkerLeft'
  BY <1>2, BaseNotRelief DEF PoolInv, FreshGeneration, NoWorkerLeft
<1> QED BY <1>5, <1>6, <1>7, <1>8, <1>9 DEF PoolInv

LEMMA CloseListenersInv ==
    ASSUME PoolInv, CloseListeners
    PROVE  PoolInv'
<1> USE DEF CloseListeners
<1>1. TypeOK'
  BY DEF PoolInv, TypeOK
<1>2. Waiting' = Waiting
  BY DEF Waiting
<1>3. Counted'
  BY <1>2 DEF PoolInv, Counted
<1>4. Awaited'
  BY BaseNotRelief DEF PoolInv, Awaited
<1>5. NoStraySentinel' /\ FreshGeneration' /\ NoWorkerLeft'
  BY DEF PoolInv, NoStraySentinel, FreshGeneration, NoWorkerLeft
<1> QED BY <1>1, <1>3, <1>4, <1>5 DEF PoolInv

\* Sentinels fill the queue up to its size and the rest is kept for later.
LEMMA FillLemma ==
    ASSUME TypeOK, NEW n \in Nat, Fill(n)
    PROVE  /\ queue' \in Seq({"update", "stop"}) /\ Len(queue') <= QueueMax
           /\ sending' \in Nat
<1> DEFINE k == Smaller(n, QueueMax - Len(queue))
           s == [i \in 1..k |-> "stop"]
<1>1. /\ queue \in Seq({"update", "stop"}) /\ Len(queue) \in Nat
      /\ Len(queue) <= QueueMax /\ QueueMax \in Nat
  BY PoolAssumption DEF TypeOK
<1>2. k \in Nat /\ k <= n /\ k <= QueueMax - Len(queue)
  BY <1>1 DEF Smaller
<1>3. queue' = queue \o s /\ sending' = n - k
  BY DEF Fill
<1> HIDE DEF k
<1>4. s \in Seq({"update", "stop"}) /\ Len(s) = k
  BY <1>2
<1> HIDE DEF s
<1>5. /\ queue \o s \in Seq({"update", "stop"})
      /\ Len(queue \o s) = Len(queue) + Len(s)
  BY <1>1, <1>4, ConcatProperties
<1> QED BY <1>1, <1>2, <1>3, <1>4, <1>5

LEMMA StopBeginInv ==
    ASSUME PoolInv, StopBegin
    PROVE  PoolInv'
<1> USE DEF StopBegin
<1>1. Cardinality(Base) + Cardinality(relief) \in Nat
  <2>1. IsFiniteSet(relief)
    BY PoolAssumption, FS_Subset DEF PoolInv, TypeOK
  <2> QED BY <2>1, PoolAssumption, FS_CardinalityType
<1>2. TypeOK'
  BY <1>1, FillLemma, PoolAssumption DEF PoolInv, TypeOK
<1> QED BY <1>2 DEF PoolInv, Counted, Awaited, NoStraySentinel, FreshGeneration,
                    NoWorkerLeft

LEMMA SentinelsInv ==
    ASSUME PoolInv, PutSentinel \/ PutTimeout
    PROVE  PoolInv'
<1> USE DEF PutSentinel, PutTimeout
<1>1. TypeOK'
  <2>1. CASE PutSentinel
    <3>1. TypeOK /\ sending \in Nat /\ Fill(sending)
      BY <2>1 DEF PoolInv, TypeOK
    <3>2. /\ queue' \in Seq({"update", "stop"}) /\ Len(queue') <= QueueMax
          /\ sending' \in Nat
      BY <3>1, FillLemma
    <3> QED BY <2>1, <3>2 DEF PoolInv, TypeOK
  <2>2. CASE PutTimeout
    BY <2>2 DEF PoolInv, TypeOK
  <2> QED BY <2>1, <2>2
<1>2. /\ pool' = "sentinels" /\ pool = "sentinels"
      /\ UNCHANGED <<pc, relief, parked, joining>>
  OBVIOUS
<1> QED BY <1>1, <1>2 DEF PoolInv, Counted, Awaited, NoStraySentinel,
                          FreshGeneration, NoWorkerLeft

LEMMA BeginJoinInv ==
    ASSUME PoolInv, BeginJoin
    PROVE  PoolInv'
<1> USE DEF BeginJoin
<1>1. TypeOK'
  BY BaseNotRelief DEF PoolInv, TypeOK
<1>2. Awaited'
  BY DEF PoolInv, Awaited, Workers
<1> QED BY <1>1, <1>2 DEF PoolInv, Counted, NoStraySentinel, FreshGeneration,
                          NoWorkerLeft

LEMMA JoinInv ==
    ASSUME PoolInv, NEW w \in Workers, Join(w)
    PROVE  PoolInv'
<1> USE DEF Join
<1>1. pool = "joining"
  BY DEF PoolInv, Awaited
<1>2. TypeOK'
  BY DEF PoolInv, TypeOK
<1>3. \A v \in Workers : pc'[v] = IF v = w THEN "gone" ELSE pc[v]
  BY DEF PoolInv, TypeOK
<1>4. Awaited'
  BY <1>1, <1>3, BaseNotRelief DEF PoolInv, Awaited
<1> QED BY <1>1, <1>2, <1>4 DEF PoolInv, Counted, NoStraySentinel,
                                FreshGeneration, NoWorkerLeft

LEMMA StopEndInv ==
    ASSUME PoolInv, StopEnd
    PROVE  PoolInv'
<1> USE DEF StopEnd
<1>1. queue' \in Seq({"update", "stop"}) /\ Len(queue') = 0
  BY EmptySeq
<1>2. TypeOK'
  BY <1>1, PoolAssumption DEF PoolInv, TypeOK
<1>3. \A w \in Workers : pc'[w] = "gone"
  BY DEF PoolInv, Awaited
<1>4. Awaited' /\ NoWorkerLeft'
  BY <1>3, BaseNotRelief DEF Awaited, NoWorkerLeft
<1> QED BY <1>1, <1>2, <1>4 DEF PoolInv, Counted, NoStraySentinel, FreshGeneration

----------------------------------------------------------------------------
(* The theorems *)

\* Whatever workers, handlers, start() and stop() do in whatever order,
\* PoolInv holds.
THEOREM PoolInvariant == Spec => []PoolInv
<1>1. PoolInv /\ [Next]_vars => PoolInv'
  <2> SUFFICES ASSUME PoolInv, [Next]_vars PROVE PoolInv'
    OBVIOUS
  <2>1. CASE UNCHANGED vars
    BY <2>1 DEF vars, PoolInv, TypeOK, Counted, Waiting, Awaited, NoStraySentinel,
                FreshGeneration, NoWorkerLeft
  <2>2. ASSUME NEW w \in Workers,
               \/ Loop(w) \/ Discard(w) \/ Take(w) \/ Park(w) \/ Timeout(w)
               \/ Unpark(w) \/ Join(w)
        PROVE  PoolInv'
    BY <2>2, LoopInv, DiscardInv, TakeInv, ParkInv, TimeoutInv, UnparkInv, JoinInv
  <2> QED BY <2>1, <2>2, StartInv, EnqueueInv, CloseListenersInv, StopBeginInv,
             SentinelsInv, BeginJoinInv, StopEndInv DEF Next
<1> QED BY <1>1, InitInv, PTL DEF Spec

\* ParkedExact of the run dispatcher_pool: parked is the number of handlers in
\* listen(), for any number of workers, across any number of stop()s.
THEOREM ParkedExactTheorem == Spec => []ParkedExact
<1>1. PoolInv => ParkedExact
  BY DEF PoolInv, Counted, Waiting, ParkedExact
<1> QED BY <1>1, PoolInvariant, PTL

\* FreshGeneration of the run dispatcher_pool: no sentinel of an earlier
\* stop() meets the workers of a later start(), and none of them ends early.
THEOREM FreshGenerationTheorem == Spec => []FreshGeneration
<1>1. PoolInv => FreshGeneration
  BY DEF PoolInv
<1> QED BY <1>1, PoolInvariant, PTL

\* NoWorkerLeft of the run dispatcher_pool: stop() returns only when every
\* worker, relief workers included, has ended.
THEOREM NoWorkerLeftTheorem == Spec => []NoWorkerLeft
<1>1. PoolInv => NoWorkerLeft
  BY DEF PoolInv
<1> QED BY <1>1, PoolInvariant, PTL

----------------------------------------------------------------------------
(* The walks: the inductive invariant *)

\* Each handler is in the list of its own group.
Listed(gs) == \A g \in Groups : \A j \in DOMAIN gs[g] : GroupOf[gs[g][j]] = g

\* h is in the list of cur from index i on, or in that of a group of rest.
ToCome(gs, h, cur, i, rest) ==
    \E j \in DOMAIN gs[GroupOf[h]] :
        /\ gs[GroupOf[h]][j] = h
        /\ GroupOf[h] \in rest \/ (GroupOf[h] = cur /\ j >= i)

\* What a walk that runs has still before it; an error walk ends the group.
Ahead(gs, x, h) ==
    ToCome(gs, h, IF x.pc = "run" THEN x.cur ELSE None, x.i, x.rest)

\* The groups still to come are after the current one and have not handled
\* the update.
Ordered(x) ==
    x.pc # "idle" =>
        /\ x.h \in Handlers /\ x.cur \in {None, GroupOf[x.h]}
        /\ \A g \in x.rest : g > GroupOf[x.h] /\ g \notin x.took
        /\ x.pc = "run" => GroupOf[x.h] \notin x.took

\* A handler the update is due to is ahead of the walk, or slipped past it.
Owed(gs, x) ==
    /\ x.pc # "idle" => /\ x.due \subseteq Takes(x.consumed)
                        /\ \A h \in x.due \ x.slipped : Ahead(gs, x, h)
    /\ x.pc = "idle" /\ ~x.cut => x.due \subseteq x.slipped

\* The inductive invariant of the walks.
WalkInv ==
    /\ WalkTypeOK
    /\ Listed(groups)
    /\ \A w \in Walkers : Ordered(walk[w]) /\ Owed(groups, walk[w])

\* Groups are numbers.
LEMMA GroupsType ==
    /\ Groups \subseteq Int /\ IsFiniteSet(Groups)
    /\ \A h \in Handlers : GroupOf[h] \in Groups
<1>1. Groups \subseteq Int /\ \A h \in Handlers : GroupOf[h] \in Groups
  BY HandlerAssumption DEF Groups
<1>2. IsFiniteSet(Groups)
  <2>1. Groups = {GroupOf[h] : h \in Handlers}
    BY DEF Groups
  <2>2. GroupOf \in [Handlers -> Int] /\ IsFiniteSet(Handlers)
    BY HandlerAssumption
  <2> DEFINE G == [h \in Handlers |-> GroupOf[h]]
  <2>3. G \in Surjection(Handlers, Groups)
    BY <2>1 DEF Surjection
  <2> QED
    BY <2>2, <2>3, FS_Surjection
<1> QED
  BY <1>1, <1>2

\* A finite set of integers that is not empty has a least element.
LEMMA LeastInt ==
    ASSUME NEW S, IsFiniteSet(S), S \subseteq Int, S # {}
    PROVE  \E m \in S : \A n \in S : m <= n
<1> DEFINE Bad == {T \in FiniteSubsetsOf(S) : T # {} /\ ~ \E m \in T : \A n \in T : m <= n}
<1>1. SUFFICES Bad = {}
  BY DEF FiniteSubsetsOf
<1>2. SUFFICES ASSUME Bad # {} PROVE FALSE
  OBVIOUS
<1>3. IsWellFoundedOn(StrictSubsetOrdering(S), FiniteSubsetsOf(S))
  BY FS_StrictSubsetOrderingWellFounded
<1>4. PICK T \in Bad : \A U \in Bad : ~(<<U, T>> \in StrictSubsetOrdering(S))
  <2> HIDE DEF Bad
  <2>1. Bad \subseteq FiniteSubsetsOf(S)
    BY DEF Bad
  <2> QED
    BY <1>2, <1>3, <2>1, WFMin
<1>5. PICK x \in T : TRUE
  OBVIOUS
<1>6. T \ {x} \in FiniteSubsetsOf(S) /\ <<T \ {x}, T>> \in StrictSubsetOrdering(S)
  BY <1>5, FS_Subset DEF FiniteSubsetsOf, StrictSubsetOrdering
<1>7. T \ {x} \notin Bad
  BY <1>4, <1>6
<1>8. CASE T \ {x} = {}
  BY <1>5, <1>8 DEF FiniteSubsetsOf
<1>9. CASE T \ {x} # {}
  <2>1. PICK m \in T \ {x} : \A n \in T \ {x} : m <= n
    BY <1>6, <1>7, <1>9
  <2>2. T \subseteq Int
    BY DEF FiniteSubsetsOf
  <2>3. CASE m <= x
    BY <2>1, <2>2, <2>3
  <2>4. CASE ~(m <= x)
    <3>1. \A n \in T : x <= n
      BY <1>5, <2>1, <2>2, <2>4
    <3> QED
      BY <1>5, <3>1
  <2> QED
    BY <2>3, <2>4
<1> QED
  BY <1>8, <1>9

\* A set of naturals that is not empty has a least element.
LEMMA LeastNat ==
    ASSUME NEW T \in SUBSET Nat, T # {}
    PROVE  \E n \in T : \A i \in T : n <= i
<1> DEFINE R == OpToRel(<, Nat)
<1>1. IsWellFoundedOn(R, Nat)
  BY NatLessThanWellFounded, Zenon
<1>2. \A x, y \in Nat : x < y => <<x, y>> \in R
  BY DEF OpToRel
<1> HIDE DEF R
<1>3. PICK n \in T : \A i \in T : ~(<<i, n>> \in R)
  BY <1>1, WFMin
<1>4. \A i \in T : ~(i < n)
  BY <1>2, <1>3
<1> QED BY <1>4

\* Between places there is a first one.
LEMMA FirstLemma ==
    ASSUME NEW ps, ps \subseteq Groups \X Nat, ps # {}
    PROVE  /\ First(ps) \in ps
           /\ \A q \in ps : \/ First(ps)[1] < q[1]
                            \/ First(ps)[1] = q[1] /\ First(ps)[2] <= q[2]
<1> DEFINE G == {g \in Groups : \E n \in Nat : <<g, n>> \in ps}
<1>1. G # {} /\ IsFiniteSet(G) /\ G \subseteq Int
  <2>1. PICK q \in ps : q \in Groups \X Nat
    OBVIOUS
  <2>2. q[1] \in G
    BY <2>1
  <2>3. G \subseteq Groups
    OBVIOUS
  <2> HIDE DEF G
  <2> QED
    BY <2>2, <2>3, GroupsType, FS_Subset
<1> HIDE DEF G
<1>2. PICK g \in G : \A k \in G : g <= k
  BY <1>1, LeastInt
<1> DEFINE N == {n \in Nat : <<g, n>> \in ps}
<1>3. N \in SUBSET Nat /\ N # {}
  BY DEF G
<1>4. PICK n \in N : \A k \in N : n <= k
  <2> HIDE DEF N
  <2> QED BY <1>3, LeastNat
<1>5. <<g, n>> \in ps
  OBVIOUS
<1>6. \A q \in ps : <<g, n>>[1] < q[1] \/ (<<g, n>>[1] = q[1] /\ <<g, n>>[2] <= q[2])
  <2> SUFFICES ASSUME NEW q \in ps
               PROVE  g < q[1] \/ (g = q[1] /\ n <= q[2])
    OBVIOUS
  <2>1. q[1] \in G /\ q[2] \in Nat /\ q = <<q[1], q[2]>>
    BY DEF G
  <2>2. g <= q[1] /\ g \in Int /\ q[1] \in Int
    BY <1>1, <1>2, <2>1
  <2>3. g = q[1] => q[2] \in N
    BY <2>1
  <2> QED
    BY <1>4, <2>2, <2>3
<1> DEFINE P(p) == \A q \in ps : p[1] < q[1] \/ (p[1] = q[1] /\ p[2] <= q[2])
<1>7. \E p \in ps : P(p)
  BY <1>5, <1>6
<1>8. First(ps) = CHOOSE p \in ps : P(p)
  BY DEF First
<1> HIDE DEF P
<1>9. First(ps) \in ps /\ P(First(ps))
  BY <1>7, <1>8
<1> QED
  BY <1>9 DEF P

\* Places() lists the handlers of hs that are still to come.
LEMMA PlacesLemma ==
    ASSUME NEW hs, NEW cur \in Groups \cup {None}, NEW i \in Nat,
           NEW rest \in SUBSET Groups, groups \in [Groups -> Seq(Handlers)]
    PROVE  /\ Places(hs, cur, i, rest) \subseteq Groups \X Nat
           /\ \A p \in Places(hs, cur, i, rest) :
                 /\ p[1] \in rest \/ (p[1] = cur /\ p[2] >= i)
                 /\ p[1] \in Groups /\ p[2] \in Nat \ {0}
                 /\ p[2] \in DOMAIN groups[p[1]] /\ groups[p[1]][p[2]] \in hs
           /\ \A g \in Groups : \A j \in DOMAIN groups[g] :
                 /\ groups[g][j] \in hs
                 /\ g = cur => j >= i
                 /\ g \in rest \/ g = cur
                 => <<g, j>> \in Places(hs, cur, i, rest)
<1> DEFINE U == UNION {{g} \X DOMAIN groups[g] : g \in (rest \cup {cur}) \ {None}}
<1>1. None \notin Groups
  BY HandlerAssumption
<1>2. \A g \in Groups : DOMAIN groups[g] = 1..Len(groups[g]) /\ Len(groups[g]) \in Nat
  OBVIOUS
<1>3. ASSUME NEW p \in U
      PROVE  \E g \in (rest \cup {cur}) \ {None} : p \in {g} \X DOMAIN groups[g]
  BY <1>3, Zenon
<1>4. ASSUME NEW g \in (rest \cup {cur}) \ {None}, NEW j \in DOMAIN groups[g]
      PROVE  <<g, j>> \in U
  <2>1. <<g, j>> \in {g} \X DOMAIN groups[g]
    OBVIOUS
  <2> QED
    BY <2>1, Zenon
<1>5. Places(hs, cur, i, rest) =
        {p \in U : groups[p[1]][p[2]] \in hs /\ (p[1] = cur => p[2] >= i)}
  BY DEF Places
<1> HIDE DEF U
<1>6. ASSUME NEW p \in Places(hs, cur, i, rest)
      PROVE  /\ p \in Groups \X Nat
             /\ p[1] \in rest \/ (p[1] = cur /\ p[2] >= i)
             /\ p[1] \in Groups /\ p[2] \in Nat \ {0}
             /\ p[2] \in DOMAIN groups[p[1]] /\ groups[p[1]][p[2]] \in hs
  <2>1. p \in U /\ groups[p[1]][p[2]] \in hs /\ (p[1] = cur => p[2] >= i)
    BY <1>5, <1>6
  <2>2. PICK g \in (rest \cup {cur}) \ {None} : p \in {g} \X DOMAIN groups[g]
    BY <1>3, <2>1
  <2>3. p[1] = g /\ p[2] \in DOMAIN groups[g] /\ g \in Groups /\ p = <<p[1], p[2]>>
    BY <2>2
  <2> QED
    BY <1>2, <2>1, <2>2, <2>3
<1> QED
  BY <1>1, <1>4, <1>5, <1>6

\* The walk of a worker without an update.
LEMMA IdleLemma == Idle \in Walks /\ Idle.pc = "idle" /\ Idle.due = {}
<1>1. 1 \in Nat \ {0}
  OBVIOUS
<1> QED
  BY <1>1 DEF Walks, Idle

\* The walk that has ended.
Ended(due, slipped) == [Idle EXCEPT !.due = due, !.slipped = slipped]

\* It keeps what its update was due to, and who slipped.
LEMMA EndedLemma ==
    ASSUME NEW due \in SUBSET Handlers, NEW slipped \in SUBSET Handlers
    PROVE  /\ Ended(due, slipped) \in Walks /\ Ended(due, slipped).pc = "idle"
           /\ Ended(due, slipped).due = due /\ Ended(due, slipped).slipped = slipped
<1>1. Ended(due, slipped) \in Walks
  BY IdleLemma DEF Walks, Ended
<1>2. /\ Ended(due, slipped).pc = "idle" /\ Ended(due, slipped).due = due
      /\ Ended(due, slipped).slipped = slipped
  BY DEF Idle, Ended
<1> QED
  BY <1>1, <1>2

\* The walk that was given up.
EndedCut(due, slipped) == [Idle EXCEPT !.due = due, !.slipped = slipped, !.cut = TRUE]

\* It says that it was cut.
LEMMA CutLemma ==
    ASSUME NEW due \in SUBSET Handlers, NEW slipped \in SUBSET Handlers
    PROVE  /\ EndedCut(due, slipped) \in Walks /\ EndedCut(due, slipped).pc = "idle"
           /\ EndedCut(due, slipped).cut = TRUE
<1>1. EndedCut(due, slipped) \in Walks
  BY IdleLemma DEF Walks, EndedCut
<1>2. EndedCut(due, slipped).pc = "idle" /\ EndedCut(due, slipped).cut = TRUE
  BY DEF Idle, EndedCut
<1> QED
  BY <1>1, <1>2

\* The walk that goes on to handler k.
Running(x, g, n, k, r, d) ==
    [x EXCEPT !.pc = "run", !.cur = g, !.i = n, !.h = k, !.rest = r, !.due = d]

\* What going on changes in a walk, and what it leaves.
LEMMA RunningLemma ==
    ASSUME NEW x \in Walks, NEW g \in Groups, NEW n \in Nat \ {0}, NEW k \in Handlers,
           NEW r \in SUBSET Groups, NEW d \in SUBSET Handlers
    PROVE  LET y == Running(x, g, n, k, r, d)
           IN  /\ y \in Walks /\ y.pc = "run" /\ y.cur = g /\ y.i = n /\ y.h = k
               /\ y.rest = r /\ y.due = d
               /\ y.slipped = x.slipped /\ y.took = x.took /\ y.consumed = x.consumed
<1>1. Running(x, g, n, k, r, d) \in Walks
  BY DEF Walks, Running
<1> QED
  BY <1>1 DEF Walks, Running

\* The walk goes on in order, and drops nothing it has still to come to.
LEMMA SeekLemma ==
    ASSUME groups \in [Groups -> Seq(Handlers)], Listed(groups),
           NEW x \in Walks, NEW cur \in Groups \cup {None},
           NEW i \in Nat \ {0}, NEW rest \in SUBSET Groups,
           \A g \in rest : g \notin x.took /\ (cur # None => g > cur),
           cur \notin x.took,
           x.due \subseteq Takes(x.consumed),
           \A h \in x.due \ x.slipped : ToCome(groups, h, cur, i, rest)
    PROVE  LET y == Seek(x, cur, i, rest)
           IN  y \in Walks /\ Ordered(y) /\ Owed(groups, y)
<1> DEFINE hs == Takes(x.consumed)
           ps == Places(hs, cur, i, rest)
           p == First(ps)
           y == Seek(x, cur, i, rest)
<1>0. None \notin Groups
  BY HandlerAssumption
<1>1. /\ x.due \in SUBSET Handlers /\ x.slipped \in SUBSET Handlers
      /\ x.consumed \in BOOLEAN
  BY DEF Walks
<1>2. CASE ps = {}
  <2>1. y = Ended(x.due, x.slipped)
    BY <1>2 DEF Seek, Ended
  <2>2. y \in Walks /\ y.pc = "idle" /\ y.due = x.due /\ y.slipped = x.slipped
    <3> DEFINE d == x.due
               s == x.slipped
    <3>1. d \in SUBSET Handlers /\ s \in SUBSET Handlers
      BY <1>1
    <3> HIDE DEF d, s
    <3>2. /\ Ended(d, s) \in Walks /\ Ended(d, s).pc = "idle"
          /\ Ended(d, s).due = d /\ Ended(d, s).slipped = s
      BY <3>1, EndedLemma
    <3> QED
      BY <2>1, <3>2, Zenon DEF d, s
  <2>3. ASSUME NEW h \in x.due \ x.slipped PROVE FALSE
    <3>1. PICK j \in DOMAIN groups[GroupOf[h]] :
             /\ groups[GroupOf[h]][j] = h
             /\ GroupOf[h] \in rest \/ (GroupOf[h] = cur /\ j >= i)
      BY DEF ToCome
    <3>2. GroupOf[h] \in Groups
      BY <1>1, GroupsType
    <3>3. GroupOf[h] = cur => j >= i
      BY <1>0, <3>1, <3>2, GroupsType
    <3>4. <<GroupOf[h], j>> \in ps
      BY <3>1, <3>2, <3>3, PlacesLemma
    <3> QED
      BY <1>2, <3>4
  <2> HIDE DEF y
  <2>4. Ordered(y) /\ Owed(groups, y)
    BY <2>2, <2>3 DEF Ordered, Owed
  <2> QED
    BY <2>2, <2>4 DEF y
<1>3. CASE ps # {}
  <2>1. /\ ps \subseteq Groups \X Nat
        /\ \A q \in ps :
              /\ q[1] \in rest \/ (q[1] = cur /\ q[2] >= i)
              /\ q[1] \in Groups /\ q[2] \in Nat \ {0}
              /\ q[2] \in DOMAIN groups[q[1]] /\ groups[q[1]][q[2]] \in hs
    BY PlacesLemma
  <2>2. p \in ps /\ \A q \in ps : p[1] < q[1] \/ (p[1] = q[1] /\ p[2] <= q[2])
    BY <1>3, <2>1, FirstLemma
  <2> DEFINE k == groups[p[1]][p[2]]
  <2>3. y = [x EXCEPT !.pc = "run", !.cur = p[1], !.i = p[2] + 1,
                      !.h = k, !.rest = {g \in rest : g > p[1]},
                      !.due = @ \ {k}]
    BY <1>3 DEF Seek
  <2>4. /\ p[1] \in Groups /\ p[2] \in Nat \ {0} /\ p[2] \in DOMAIN groups[p[1]]
        /\ p[1] \in rest \/ p[1] = cur
    BY <2>1, <2>2
  <2>5. k \in Handlers /\ GroupOf[k] = p[1]
    BY <2>4 DEF Listed
  <2> HIDE DEF p, k, ps
  <2>6. /\ y \in Walks /\ y.pc = "run" /\ y.cur = p[1] /\ y.i = p[2] + 1
        /\ y.h = k /\ y.rest = {g \in rest : g > p[1]} /\ y.due = x.due \ {k}
        /\ y.slipped = x.slipped /\ y.took = x.took /\ y.consumed = x.consumed
    <3> DEFINE n == p[2] + 1
               r == {g \in rest : g > p[1]}
               d == x.due \ {k}
    <3>1. n \in Nat \ {0} /\ r \in SUBSET Groups /\ d \in SUBSET Handlers
      BY <1>1, <2>4
    <3>2. y = Running(x, p[1], n, k, r, d)
      BY <2>3, Zenon DEF Running
    <3> HIDE DEF y, n, r, d
    <3>3. /\ y \in Walks /\ y.pc = "run" /\ y.cur = p[1] /\ y.i = n /\ y.h = k
          /\ y.rest = r /\ y.due = d
          /\ y.slipped = x.slipped /\ y.took = x.took /\ y.consumed = x.consumed
      BY <2>4, <2>5, <3>1, <3>2, RunningLemma
    <3> QED
      BY <3>3 DEF n, r, d
  <2> HIDE DEF y
  <2>7. Ordered(y)
    BY <1>0, <2>4, <2>5, <2>6 DEF Ordered
  <2>8. ASSUME NEW h \in y.due \ y.slipped
        PROVE  Ahead(groups, y, h)
    <3>1. h \in x.due \ x.slipped /\ h # k /\ h \in hs /\ GroupOf[h] \in Groups
      BY <1>1, <2>6, GroupsType
    <3>2. PICK j \in DOMAIN groups[GroupOf[h]] :
             /\ groups[GroupOf[h]][j] = h
             /\ GroupOf[h] \in rest \/ (GroupOf[h] = cur /\ j >= i)
      BY <3>1 DEF ToCome
    <3>3. GroupOf[h] = cur => j >= i
      BY <1>0, <3>1, <3>2, GroupsType
    <3>4. <<GroupOf[h], j>> \in ps
      BY <3>1, <3>2, <3>3, PlacesLemma DEF ps
    <3>5. p[1] < GroupOf[h] \/ (p[1] = GroupOf[h] /\ p[2] <= j)
      BY <2>2, <3>4
    <3>6. p[1] = GroupOf[h] => j # p[2]
      BY <3>1, <3>2 DEF k
    <3>7. j \in Nat
      BY <3>1, <3>2
    <3>8. CASE p[1] = GroupOf[h]
      <4>1. j >= p[2] + 1
        <5>1. p[1] \in Int /\ p[2] \in Nat
          BY <2>4, GroupsType
        <5> QED
          BY <3>5, <3>6, <3>7, <3>8, <5>1
      <4> QED
        BY <2>6, <3>2, <3>8, <4>1 DEF Ahead, ToCome
    <3>9. CASE p[1] # GroupOf[h]
      <4>1. GroupOf[h] > p[1] /\ p[1] \in Int /\ GroupOf[h] \in Int
        BY <2>4, <3>1, <3>5, <3>9, GroupsType
      <4>2. GroupOf[h] # cur
        BY <1>0, <2>4, <3>1, <3>9, <4>1, GroupsType
      <4> QED
        BY <2>6, <3>2, <4>1, <4>2 DEF Ahead, ToCome
    <3> QED
      BY <3>8, <3>9
  <2>9. Owed(groups, y)
    <3>1. y.due \subseteq Takes(y.consumed)
      BY <2>6
    <3> QED
      BY <2>6, <2>8, <3>1 DEF Owed
  <2> QED
    BY <2>6, <2>7, <2>9 DEF y
<1> QED
  BY <1>2, <1>3

----------------------------------------------------------------------------
(* What the operators of the walk return *)

\* The handler's group has handled the update.
LEMMA TookLemma ==
    ASSUME NEW x \in Walks, x.h \in Handlers
    PROVE  LET y == Took(x)
           IN  /\ y \in Walks /\ y.took = x.took \cup {GroupOf[x.h]}
               /\ y.due = {k \in x.due : GroupOf[k] # GroupOf[x.h]}
               /\ y.pc = x.pc /\ y.cur = x.cur /\ y.i = x.i /\ y.rest = x.rest
               /\ y.h = x.h /\ y.slipped = x.slipped /\ y.consumed = x.consumed
               /\ y.erest = x.erest
<1> DEFINE t == x.took \cup {GroupOf[x.h]}
           d == {k \in x.due : GroupOf[k] # GroupOf[x.h]}
           y == [x EXCEPT !.took = t, !.due = d]
<1>1. t \in SUBSET Groups /\ d \in SUBSET Handlers
  <2>1. x.took \in SUBSET Groups /\ x.due \in SUBSET Handlers
    BY DEF Walks
  <2> QED
    BY <2>1, GroupsType
<1>2. Took(x) = y
  BY DEF Took
<1> HIDE DEF t, d
<1>3. y \in Walks
  BY <1>1 DEF Walks
<1>4. /\ y.took = t /\ y.due = d
      /\ y.pc = x.pc /\ y.cur = x.cur /\ y.i = x.i /\ y.rest = x.rest
      /\ y.h = x.h /\ y.slipped = x.slipped /\ y.consumed = x.consumed
      /\ y.erest = x.erest
  BY <1>1 DEF Walks
<1> HIDE DEF y
<1> QED
  BY <1>2, <1>3, <1>4 DEF t, d

\* The error walk that goes on, and the one that has ended.
Erring(x, g, n, r) == [x EXCEPT !.pc = "error", !.ecur = g, !.ei = n, !.erest = r]
Recovered(x) == [x EXCEPT !.ecur = None, !.ei = 1, !.erest = {}, !.mutated = FALSE]

\* An error walk leaves the fields of the walk it interrupts.
LEMMA ErringLemma ==
    ASSUME NEW x \in Walks, NEW g \in Groups, NEW n \in Nat \ {0}, NEW r \in SUBSET Groups
    PROVE  LET y == Erring(x, g, n, r)
           IN  /\ y \in Walks /\ y.pc = "error" /\ y.cur = x.cur /\ y.i = x.i
               /\ y.rest = x.rest /\ y.h = x.h /\ y.due = x.due
               /\ y.slipped = x.slipped /\ y.took = x.took /\ y.consumed = x.consumed
<1>1. Erring(x, g, n, r) \in Walks
  BY DEF Walks, Erring
<1> QED
  BY <1>1 DEF Walks, Erring

\* And so does its end.
LEMMA RecoveredLemma ==
    ASSUME NEW x \in Walks
    PROVE  LET y == Recovered(x)
           IN  /\ y \in Walks /\ y.rest = x.rest /\ y.due = x.due
               /\ y.slipped = x.slipped /\ y.took = x.took /\ y.consumed = x.consumed
               /\ y.h = x.h /\ y.cur = x.cur /\ y.i = x.i
<1>1. Recovered(x) \in Walks
  <2>1. 1 \in Nat \ {0}
    OBVIOUS
  <2> QED
    BY <2>1 DEF Walks, Recovered
<1> QED
  BY <1>1 DEF Walks, Recovered

\* What is left of a walk in an error handler: the groups to come.
Leaving(gs, x) ==
    /\ x.h \in Handlers /\ x.cur \in {None, GroupOf[x.h]}
    /\ \A g \in x.rest : g > GroupOf[x.h] /\ g \notin x.took
    /\ x.due \subseteq Takes(x.consumed)
    /\ \A h \in x.due \ x.slipped : ToCome(gs, h, None, x.i, x.rest)

\* The index matters only for the list that is walked.
LEMMA ToComeLemma ==
    ASSUME NEW gs, NEW h \in Handlers, NEW i, NEW j, NEW rest \in SUBSET Groups,
           ToCome(gs, h, None, i, rest)
    PROVE  ToCome(gs, h, None, j, rest) /\ GroupOf[h] \in rest
<1>1. GroupOf[h] # None
  BY GroupsType, HandlerAssumption
<1> QED
  BY <1>1 DEF ToCome

\* A walk leaves its list for the groups to come.
LEMMA LeaveLemma ==
    ASSUME groups \in [Groups -> Seq(Handlers)], Listed(groups),
           NEW x \in Walks, Leaving(groups, x)
    PROVE  LET y == Seek(x, None, 1, x.rest)
           IN  y \in Walks /\ Ordered(y) /\ Owed(groups, y)
<1>1. /\ x.rest \in SUBSET Groups /\ x.took \in SUBSET Groups
      /\ x.due \in SUBSET Handlers
  BY DEF Walks
<1>2. None \notin x.took /\ None \in Groups \cup {None} /\ 1 \in Nat \ {0}
  BY <1>1, HandlerAssumption
<1>3. \A h \in x.due \ x.slipped : ToCome(groups, h, None, 1, x.rest)
  BY <1>1, ToComeLemma DEF Leaving
<1>4. /\ \A g \in x.rest : g \notin x.took /\ (None # None => g > None)
      /\ x.due \subseteq Takes(x.consumed)
  BY DEF Leaving
<1> QED
  BY <1>1, <1>2, <1>3, <1>4, SeekLemma

\* The error walk goes on, gives the update back to its walk, or cuts it.
LEMMA ErrorSeekLemma ==
    ASSUME groups \in [Groups -> Seq(Handlers)], Listed(groups),
           NEW x \in Walks, Leaving(groups, x),
           NEW ecur \in Groups \cup {None}, NEW ei \in Nat \ {0},
           NEW erest \in SUBSET Groups
    PROVE  LET y == ErrorSeek(x, ecur, ei, erest)
           IN  y \in Walks /\ Ordered(y) /\ Owed(groups, y)
<1> DEFINE es == IF x.mutated THEN {} ELSE erest
           ps == Places(Error, ecur, ei, es)
           p == First(ps)
           y == ErrorSeek(x, ecur, ei, erest)
<1>1. x.due \in SUBSET Handlers /\ x.slipped \in SUBSET Handlers
  BY DEF Walks
<1>2. CASE ps = {} /\ (x.mutated /\ erest # {})
  <2>1. y = EndedCut(x.due, x.slipped)
    BY <1>2 DEF ErrorSeek, EndedCut
  <2>2. EndedCut(x.due, x.slipped) \in Walks /\ EndedCut(x.due, x.slipped).pc = "idle"
        /\ EndedCut(x.due, x.slipped).cut = TRUE
    BY <1>1, CutLemma
  <2>3. y \in Walks /\ y.pc = "idle" /\ y.cut = TRUE
    BY <2>1, <2>2, Zenon
  <2> HIDE DEF y
  <2>4. Ordered(y) /\ Owed(groups, y)
    BY <2>3 DEF Ordered, Owed
  <2> QED
    BY <2>3, <2>4 DEF y
<1>3. CASE ps = {} /\ ~(x.mutated /\ erest # {})
  <2> DEFINE z == Recovered(x)
  <2>1. y = Seek(z, None, 1, z.rest)
    BY <1>3 DEF ErrorSeek, Recovered, AfterError
  <2>2. /\ z \in Walks /\ z.rest = x.rest /\ z.due = x.due
        /\ z.slipped = x.slipped /\ z.took = x.took /\ z.consumed = x.consumed
        /\ z.h = x.h /\ z.cur = x.cur /\ z.i = x.i
    BY RecoveredLemma
  <2> HIDE DEF z, y
  <2>3. Leaving(groups, z)
    BY <2>2 DEF Leaving
  <2>4. y \in Walks /\ Ordered(y) /\ Owed(groups, y)
    BY <2>1, <2>2, <2>3, LeaveLemma
  <2> QED
    BY <2>4 DEF y
<1>4. CASE ps # {}
  <2>1. es \in SUBSET Groups
    OBVIOUS
  <2>2. /\ ps \subseteq Groups \X Nat
        /\ \A q \in ps : q[1] \in Groups /\ q[2] \in Nat \ {0}
    <3> HIDE DEF es
    <3> QED
      BY <2>1, PlacesLemma
  <2>3. p \in ps
    <3> HIDE DEF ps
    <3> QED
      BY <1>4, <2>2, FirstLemma
  <2>4. p[1] \in Groups /\ p[2] \in Nat \ {0}
    BY <2>2, <2>3
  <2> DEFINE n == p[2] + 1
             r == {g \in erest : g > p[1]}
  <2>5. y = Erring(x, p[1], n, r)
    BY <1>4 DEF ErrorSeek, Erring
  <2>6. n \in Nat \ {0} /\ r \in SUBSET Groups
    BY <2>4
  <2> HIDE DEF n, r, p, ps, y
  <2>7. /\ y \in Walks /\ y.pc = "error" /\ y.cur = x.cur /\ y.i = x.i
        /\ y.rest = x.rest /\ y.h = x.h /\ y.due = x.due
        /\ y.slipped = x.slipped /\ y.took = x.took /\ y.consumed = x.consumed
    BY <2>4, <2>5, <2>6, ErringLemma
  <2>8. Ordered(y)
    BY <2>7 DEF Ordered, Leaving
  <2>9. Owed(groups, y)
    BY <2>7 DEF Owed, Leaving, Ahead
  <2> QED
    BY <2>7, <2>8, <2>9 DEF y
<1> QED
  BY <1>2, <1>3, <1>4

----------------------------------------------------------------------------
(* The steps of the walks *)

\* A step of one walk that keeps its part of the invariant keeps the whole.
LEMMA OneWalk ==
    ASSUME WalkInv, NEW w \in Walkers, NEW y, y \in Walks, Ordered(y), Owed(groups, y),
           walk' = [walk EXCEPT ![w] = y], UNCHANGED <<groups, edits>>
    PROVE  WalkInv'
<1>1. walk \in [Walkers -> Walks]
  BY DEF WalkInv, WalkTypeOK
<1>2. walk' \in [Walkers -> Walks]
  BY <1>1
<1>3. WalkTypeOK'
  BY <1>2 DEF WalkInv, WalkTypeOK
<1>4. \A v \in Walkers : walk'[v] = IF v = w THEN y ELSE walk[v]
  BY <1>1
<1>5. \A v \in Walkers : Ordered(walk'[v]) /\ Owed(groups, walk'[v])
  BY <1>4 DEF WalkInv
<1> QED
  BY <1>3, <1>5 DEF WalkInv

\* The parts of the invariant of one walk.
LEMMA WalkParts ==
    ASSUME WalkInv, NEW w \in Walkers
    PROVE  /\ groups \in [Groups -> Seq(Handlers)] /\ Listed(groups)
           /\ walk \in [Walkers -> Walks] /\ walk[w] \in Walks
           /\ Ordered(walk[w]) /\ Owed(groups, walk[w])
           /\ walk[w].cur \in Groups \cup {None} /\ walk[w].i \in Nat \ {0}
           /\ walk[w].rest \in SUBSET Groups /\ walk[w].took \in SUBSET Groups
           /\ walk[w].due \in SUBSET Handlers /\ walk[w].slipped \in SUBSET Handlers
           /\ walk[w].ecur \in Groups \cup {None} /\ walk[w].ei \in Nat \ {0}
           /\ walk[w].erest \in SUBSET Groups
<1>1. walk[w] \in Walks
  BY DEF WalkInv, WalkTypeOK
<1>2. /\ walk[w].cur \in Groups \cup {None} /\ walk[w].i \in Nat \ {0}
      /\ walk[w].rest \in SUBSET Groups /\ walk[w].took \in SUBSET Groups
      /\ walk[w].due \in SUBSET Handlers /\ walk[w].slipped \in SUBSET Handlers
      /\ walk[w].ecur \in Groups \cup {None} /\ walk[w].ei \in Nat \ {0}
      /\ walk[w].erest \in SUBSET Groups
  BY <1>1 DEF Walks
<1> QED
  BY <1>1, <1>2 DEF WalkInv, WalkTypeOK

\* A walk that runs can leave its list: its group handled the update.
LEMMA TookLeaves ==
    ASSUME WalkInv, NEW w \in Walkers, walk[w].pc = "run"
    PROVE  LET y == Took(walk[w])
           IN  y \in Walks /\ Leaving(groups, y) /\ y.rest = walk[w].rest
<1> DEFINE x == walk[w]
           y == Took(x)
<1>1. x \in Walks /\ Ordered(x) /\ Owed(groups, x)
  BY WalkParts
<1>2. /\ x.h \in Handlers /\ x.cur \in {None, GroupOf[x.h]}
      /\ \A g \in x.rest : g > GroupOf[x.h] /\ g \notin x.took
  BY <1>1 DEF Ordered
<1>3. /\ x.due \subseteq Takes(x.consumed)
      /\ \A h \in x.due \ x.slipped : ToCome(groups, h, x.cur, x.i, x.rest)
  BY <1>1 DEF Owed, Ahead
<1>4. /\ y \in Walks /\ y.took = x.took \cup {GroupOf[x.h]}
      /\ y.due = {k \in x.due : GroupOf[k] # GroupOf[x.h]}
      /\ y.pc = x.pc /\ y.cur = x.cur /\ y.i = x.i /\ y.rest = x.rest
      /\ y.h = x.h /\ y.slipped = x.slipped /\ y.consumed = x.consumed
  BY <1>1, <1>2, TookLemma
<1>5. x.due \in SUBSET Handlers /\ x.rest \in SUBSET Groups
  BY WalkParts
<1> HIDE DEF x, y
<1>6. ASSUME NEW h \in y.due \ y.slipped
      PROVE  ToCome(groups, h, None, y.i, y.rest)
  <2>1. h \in Handlers /\ GroupOf[h] # GroupOf[x.h] /\ GroupOf[h] \in Groups
    BY <1>4, <1>5, GroupsType
  <2>2. GroupOf[h] # x.cur
    BY <1>2, <2>1, HandlerAssumption
  <2> QED
    BY <1>3, <1>4, <2>2 DEF ToCome
<1>7. \A g \in y.rest : g > GroupOf[y.h] /\ g \notin y.took
  <2>1. GroupOf[x.h] \in Int /\ x.rest \subseteq Int
    BY <1>2, <1>5, GroupsType
  <2> QED
    BY <1>2, <1>4, <2>1
<1>8. Leaving(groups, y)
  BY <1>2, <1>3, <1>4, <1>6, <1>7 DEF Leaving
<1> QED
  BY <1>4, <1>8 DEF x, y

\* A walk in an error handler has left its list.
LEMMA ErrorLeaves ==
    ASSUME WalkInv, NEW w \in Walkers, walk[w].pc = "error"
    PROVE  Leaving(groups, walk[w])
<1>1. Ordered(walk[w]) /\ Owed(groups, walk[w])
  BY WalkParts
<1> QED
  BY <1>1 DEF Ordered, Owed, Ahead, Leaving

\* A new walk is due to the handlers listed now, all of them ahead of it.
LEMMA TakeUpdateInv ==
    ASSUME WalkInv, NEW w \in Walkers, NEW consumed \in BOOLEAN, TakeUpdate(w, consumed)
    PROVE  WalkInv'
<1> DEFINE d == {h \in Takes(consumed) : Contains(groups[GroupOf[h]], h)}
           x == [Idle EXCEPT !.consumed = consumed, !.due = d]
           y == Seek(x, None, 1, Present)
<1>1. groups \in [Groups -> Seq(Handlers)] /\ Listed(groups)
  BY DEF WalkInv, WalkTypeOK
<1>2. d \in SUBSET Handlers /\ d \subseteq Takes(consumed)
  BY DEF Takes, Handlers
<1>3. \A h \in d : ToCome(groups, h, None, 1, Present)
  <2> SUFFICES ASSUME NEW h \in d PROVE ToCome(groups, h, None, 1, Present)
    OBVIOUS
  <2>1. GroupOf[h] \in Groups /\ Contains(groups[GroupOf[h]], h)
    BY <1>2, GroupsType
  <2>2. PICK j \in 1..Len(groups[GroupOf[h]]) : groups[GroupOf[h]][j] = h
    BY <2>1 DEF Contains
  <2>3. groups[GroupOf[h]] \in Seq(Handlers)
    BY <1>1, <2>1
  <2>4. GroupOf[h] \in Present
    BY <2>1, <2>2, <2>3 DEF Present
  <2> QED
    BY <2>2, <2>3, <2>4 DEF ToCome
<1> HIDE DEF d
<1>4. x \in Walks
  BY <1>2, IdleLemma DEF Walks
<1>5. x.took = {} /\ x.due = d /\ x.consumed = consumed /\ x.slipped = {}
  BY DEF Idle
<1>6. walk' = [walk EXCEPT ![w] = y]
  BY DEF TakeUpdate, d
<1> HIDE DEF x
<1>7. y \in Walks /\ Ordered(y) /\ Owed(groups, y)
  <2>1. Present \in SUBSET Groups /\ 1 \in Nat \ {0}
    BY DEF Present
  <2>2. x.due \subseteq Takes(x.consumed)
    BY <1>2, <1>5
  <2>3. \A h \in x.due \ x.slipped : ToCome(groups, h, None, 1, Present)
    BY <1>3, <1>5
  <2> QED
    BY <1>1, <1>4, <1>5, <2>1, <2>2, <2>3, SeekLemma
<1> HIDE DEF y
<1> QED
  BY <1>6, <1>7, OneWalk DEF TakeUpdate

\* The other steps, one lemma each.
LEMMA PassOnInv ==
    ASSUME WalkInv, NEW w \in Walkers, PassOn(w)
    PROVE  WalkInv'
<1> DEFINE x == walk[w]
           y == Seek(x, x.cur, x.i, x.rest)
<1>1. walk' = [walk EXCEPT ![w] = y] /\ x.pc = "run" /\ UNCHANGED <<groups, edits>>
  BY DEF PassOn
<1>2. /\ groups \in [Groups -> Seq(Handlers)] /\ Listed(groups)
      /\ x \in Walks /\ Ordered(x) /\ Owed(groups, x)
      /\ x.cur \in Groups \cup {None} /\ x.i \in Nat \ {0}
      /\ x.rest \in SUBSET Groups /\ x.took \in SUBSET Groups
  BY WalkParts
<1> HIDE DEF x
<1>3. /\ \A g \in x.rest : g \notin x.took /\ (x.cur # None => g > x.cur)
      /\ x.cur \notin x.took
  BY <1>1, <1>2, HandlerAssumption DEF Ordered
<1>4. /\ x.due \subseteq Takes(x.consumed)
      /\ \A h \in x.due \ x.slipped : ToCome(groups, h, x.cur, x.i, x.rest)
  BY <1>1, <1>2 DEF Owed, Ahead
<1>5. y \in Walks /\ Ordered(y) /\ Owed(groups, y)
  BY <1>2, <1>3, <1>4, SeekLemma
<1> HIDE DEF y
<1> QED
  BY <1>1, <1>5, OneWalk

LEMMA ReturnInv ==
    ASSUME WalkInv, NEW w \in Walkers, Return(w)
    PROVE  WalkInv'
<1> DEFINE x == walk[w]
           z == Took(x)
           y == Seek(z, None, 1, z.rest)
<1>1. x.pc = "run" /\ UNCHANGED <<groups, edits>>
      /\ walk' = [walk EXCEPT ![w] = Seek(z, None, 1, x.rest)]
  BY DEF Return
<1>2. groups \in [Groups -> Seq(Handlers)] /\ Listed(groups)
  BY WalkParts
<1>3. z \in Walks /\ Leaving(groups, z) /\ z.rest = x.rest
  BY <1>1, TookLeaves
<1> HIDE DEF z, x
<1>4. y \in Walks /\ Ordered(y) /\ Owed(groups, y)
  BY <1>2, <1>3, LeaveLemma
<1>5. walk' = [walk EXCEPT ![w] = y]
  BY <1>1, <1>3
<1> HIDE DEF y
<1> QED
  BY <1>1, <1>4, <1>5, OneWalk

LEMMA StopPropagationInv ==
    ASSUME WalkInv, NEW w \in Walkers, StopPropagation(w)
    PROVE  WalkInv'
<1>1. walk' = [walk EXCEPT ![w] = Idle] /\ UNCHANGED <<groups, edits>>
  BY DEF StopPropagation
<1>2. Ordered(Idle) /\ Owed(groups, Idle)
  BY IdleLemma DEF Ordered, Owed
<1> QED
  BY <1>1, <1>2, IdleLemma, OneWalk

LEMMA RaiseInv ==
    ASSUME WalkInv, NEW w \in Walkers, Raise(w)
    PROVE  WalkInv'
<1> DEFINE z == Took(walk[w])
           y == ErrorSeek(z, None, 1, Present)
<1>1. walk' = [walk EXCEPT ![w] = y] /\ walk[w].pc = "run" /\ UNCHANGED <<groups, edits>>
  BY DEF Raise
<1>2. groups \in [Groups -> Seq(Handlers)] /\ Listed(groups)
  BY WalkParts
<1>3. z \in Walks /\ Leaving(groups, z)
  BY <1>1, TookLeaves
<1>4. Present \in SUBSET Groups /\ 1 \in Nat \ {0}
  BY DEF Present
<1> HIDE DEF z
<1>5. y \in Walks /\ Ordered(y) /\ Owed(groups, y)
  BY <1>2, <1>3, <1>4, ErrorSeekLemma
<1> HIDE DEF y
<1> QED
  BY <1>1, <1>5, OneWalk

\* The steps of an error walk.
LEMMA ErrorStepInv ==
    ASSUME WalkInv, NEW w \in Walkers, ErrorPassOn(w) \/ ErrorReturn(w) \/ ErrorStop(w)
    PROVE  WalkInv'
<1> DEFINE x == walk[w]
<1>1. PICK ecur \in {x.ecur, None}, ei \in {x.ei, 1}, erest \in {x.erest, {}} :
         walk' = [walk EXCEPT ![w] = ErrorSeek(x, ecur, ei, erest)]
  BY DEF ErrorPassOn, ErrorReturn, ErrorStop
<1>2. x.pc = "error" /\ UNCHANGED <<groups, edits>>
  BY DEF ErrorPassOn, ErrorReturn, ErrorStop
<1>3. /\ groups \in [Groups -> Seq(Handlers)] /\ Listed(groups) /\ x \in Walks
      /\ x.ecur \in Groups \cup {None} /\ x.ei \in Nat \ {0} /\ x.erest \in SUBSET Groups
  BY WalkParts
<1>4. Leaving(groups, x)
  BY <1>2, ErrorLeaves
<1>5. /\ ecur \in Groups \cup {None} /\ ei \in Nat \ {0} /\ erest \in SUBSET Groups
  BY <1>1, <1>3
<1> DEFINE y == ErrorSeek(x, ecur, ei, erest)
<1>6. y \in Walks /\ Ordered(y) /\ Owed(groups, y)
  <2> HIDE DEF x
  <2> QED
    BY <1>3, <1>4, <1>5, ErrorSeekLemma
<1>7. walk' = [walk EXCEPT ![w] = y]
  BY <1>1
<1> HIDE DEF y
<1> QED
  BY <1>2, <1>6, <1>7, OneWalk

\* A handler added goes to the end of its list: nothing moves.
LEMMA AddHandlerInv ==
    ASSUME WalkInv, NEW h \in Handlers, AddHandler(h)
    PROVE  WalkInv'
<1> DEFINE g == GroupOf[h]
<1>1. /\ edits < MaxEdits /\ edits' = edits + 1
      /\ groups' = [groups EXCEPT ![g] = Append(@, h)]
      /\ walk' = [w \in Walkers |->
                    [walk[w] EXCEPT !.mutated = @ \/ (walk[w].pc = "error"
                                                      /\ groups[g] = <<>>)]]
  BY DEF AddHandler
<1>2. /\ groups \in [Groups -> Seq(Handlers)] /\ Listed(groups)
      /\ walk \in [Walkers -> Walks] /\ edits \in 0..MaxEdits
  BY DEF WalkInv, WalkTypeOK
<1>3. g \in Groups
  BY GroupsType
<1> HIDE DEF g
<1>4. groups' \in [Groups -> Seq(Handlers)]
  BY <1>1, <1>2, <1>3
<1>5. /\ Len(groups'[g]) = Len(groups[g]) + 1 /\ groups'[g][Len(groups[g]) + 1] = h
      /\ \A j \in 1..Len(groups[g]) : groups'[g][j] = groups[g][j]
      /\ \A k \in Groups \ {g} : groups'[k] = groups[k]
  BY <1>1, <1>2, <1>3
<1>6. \A k \in Groups : /\ DOMAIN groups[k] = 1..Len(groups[k]) /\ Len(groups[k]) \in Nat
                        /\ DOMAIN groups'[k] = 1..Len(groups'[k])
  BY <1>2, <1>4
<1>7. \A k \in Groups : \A j \in DOMAIN groups[k] :
         j \in DOMAIN groups'[k] /\ groups'[k][j] = groups[k][j]
  BY <1>3, <1>5, <1>6
<1>8. Listed(groups')
  <2> SUFFICES ASSUME NEW k \in Groups, NEW j \in DOMAIN groups'[k]
               PROVE  GroupOf[groups'[k][j]] = k
    BY DEF Listed
  <2>1. CASE j \in DOMAIN groups[k]
    BY <1>2, <1>7, <2>1 DEF Listed
  <2>2. CASE j \notin DOMAIN groups[k]
    <3>1. k = g /\ j = Len(groups[g]) + 1
      BY <1>3, <1>5, <1>6, <2>2
    <3> QED
      BY <1>5, <3>1 DEF g
  <2> QED
    BY <2>1, <2>2
<1>9. ASSUME NEW w \in Walkers
      PROVE  /\ walk'[w] \in Walks /\ Ordered(walk'[w]) /\ Owed(groups', walk'[w])
  <2> DEFINE x == walk[w]
             b == x.mutated \/ (x.pc = "error" /\ groups[g] = <<>>)
             y == [x EXCEPT !.mutated = b]
  <2>1. walk'[w] = y
    BY <1>1
  <2>2. x \in Walks /\ Ordered(x) /\ Owed(groups, x) /\ x.due \in SUBSET Handlers
    BY WalkParts
  <2>3. b \in BOOLEAN
    <3>1. x.mutated \in BOOLEAN
      BY <2>2 DEF Walks
    <3> QED
      BY <3>1
  <2> HIDE DEF x, b
  <2>4. /\ y \in Walks /\ y.pc = x.pc /\ y.cur = x.cur /\ y.i = x.i /\ y.rest = x.rest
        /\ y.h = x.h /\ y.due = x.due /\ y.slipped = x.slipped /\ y.took = x.took
        /\ y.consumed = x.consumed /\ y.cut = x.cut
    BY <2>2, <2>3 DEF Walks
  <2> HIDE DEF y
  <2>5. Ordered(y)
    BY <2>2, <2>4 DEF Ordered
  <2>6. ASSUME NEW k \in y.due \ y.slipped, y.pc # "idle"
        PROVE  Ahead(groups', y, k)
    <3>1. Ahead(groups, y, k) /\ GroupOf[k] \in Groups
      BY <2>2, <2>4, <2>6, GroupsType DEF Owed, Ahead
    <3> QED
      BY <1>7, <3>1 DEF Ahead, ToCome
  <2>7. Owed(groups', y)
    BY <2>2, <2>4, <2>6 DEF Owed
  <2> QED
    BY <2>1, <2>4, <2>5, <2>7
<1>10. WalkTypeOK'
  <2>1. walk' \in [Walkers -> Walks]
    BY <1>1, <1>9
  <2> QED
    BY <1>1, <1>2, <1>4, <2>1, HandlerAssumption DEF WalkTypeOK
<1> QED
  BY <1>8, <1>9, <1>10 DEF WalkInv

\* What RemoveAt leaves.
LEMMA RemoveAtLemma ==
    ASSUME NEW S, NEW s \in Seq(S), NEW p \in DOMAIN s
    PROVE  /\ RemoveAt(s, p) \in Seq(S) /\ Len(RemoveAt(s, p)) = Len(s) - 1
           /\ \A j \in 1..Len(s) - 1 :
                 RemoveAt(s, p)[j] = IF j < p THEN s[j] ELSE s[j + 1]
<1> DEFINE a == SubSeq(s, 1, p - 1)
           b == SubSeq(s, p + 1, Len(s))
<1>1. p \in 1..Len(s) /\ Len(s) \in Nat
  OBVIOUS
<1>2. /\ a \in Seq(S) /\ Len(a) = p - 1
      /\ \A j \in 1..p - 1 : a[j] = s[j]
  BY <1>1
<1>3. /\ b \in Seq(S) /\ Len(b) = Len(s) - p
      /\ \A j \in 1..Len(s) - p : b[j] = s[p + j]
  BY <1>1
<1>4. RemoveAt(s, p) = a \o b
  BY DEF RemoveAt
<1> HIDE DEF a, b
<1>5. /\ a \o b \in Seq(S) /\ Len(a \o b) = Len(s) - 1
      /\ \A j \in 1..Len(s) - 1 :
            (a \o b)[j] = IF j < p THEN a[j] ELSE b[j - (p - 1)]
  <2>1. /\ a \o b \in Seq(S) /\ Len(a \o b) = Len(a) + Len(b)
        /\ \A j \in 1..Len(a) + Len(b) :
              (a \o b)[j] = IF j <= Len(a) THEN a[j] ELSE b[j - Len(a)]
    BY <1>2, <1>3, ConcatProperties
  <2> DEFINE t == a \o b
             n == Len(a)
  <2>2. n = p - 1 /\ n + Len(b) = Len(s) - 1
    BY <1>1, <1>2, <1>3
  <2>3. /\ t \in Seq(S) /\ Len(t) = n + Len(b)
        /\ \A j \in 1..n + Len(b) : t[j] = IF j <= n THEN a[j] ELSE b[j - n]
    BY <2>1
  <2>4. \A j \in 1..Len(s) - 1 : j < p <=> j <= n
    BY <1>1, <2>2
  <2> HIDE DEF t, n
  <2>5. /\ t \in Seq(S) /\ Len(t) = Len(s) - 1
        /\ \A j \in 1..Len(s) - 1 : t[j] = IF j < p THEN a[j] ELSE b[j - (p - 1)]
    BY <2>2, <2>3, <2>4
  <2> QED
    BY <2>5 DEF t
<1>6. ASSUME NEW j \in 1..Len(s) - 1
      PROVE  (a \o b)[j] = IF j < p THEN s[j] ELSE s[j + 1]
  <2>1. CASE j < p
    BY <1>1, <1>2, <1>5, <2>1
  <2>2. CASE ~(j < p)
    <3>1. j - (p - 1) \in 1..Len(s) - p /\ p + (j - (p - 1)) = j + 1
      BY <1>1, <2>2
    <3> QED
      BY <1>3, <1>5, <2>2, <3>1
  <2> QED
    BY <2>1, <2>2
<1> QED
  BY <1>4, <1>5, <1>6

\* A removal keeps the handlers of a walk's due ahead of it, or counts them missed.
LEMMA ShiftedLemma ==
    ASSUME NEW x \in Walks, Ordered(x), Owed(groups, x),
           groups \in [Groups -> Seq(Handlers)], Listed(groups),
           NEW g \in Groups, NEW p \in DOMAIN groups[g],
           groups' = [groups EXCEPT ![g] = RemoveAt(@, p)]
    PROVE  LET y == Shifted(x, g, p)
           IN  y \in Walks /\ Ordered(y) /\ Owed(groups', y)
<1> DEFINE miss == x.pc # "idle" /\ x.cur = g /\ p < x.i /\ x.i <= Len(groups[g])
           sl == x.slipped \cup (IF miss THEN {groups[g][x.i]} ELSE {})
           gone == Len(groups[g]) = 1
           Left(c) == IF gone /\ c = g THEN None ELSE c
           d == x.due \ {groups[g][p]}
           c == Left(x.cur)
           ec == Left(x.ecur)
           r == IF gone THEN x.rest \ {g} ELSE x.rest
           m == x.mutated \/ (gone /\ x.pc = "error")
           y == [x EXCEPT !.slipped = sl, !.due = d, !.cur = c, !.ecur = ec,
                          !.rest = r, !.mutated = m]
<1>0. None \notin Groups
  BY HandlerAssumption
<1>1. /\ x.cur \in Groups \cup {None} /\ x.ecur \in Groups \cup {None}
      /\ x.rest \in SUBSET Groups /\ x.mutated \in BOOLEAN /\ x.i \in Nat \ {0}
      /\ x.due \in SUBSET Handlers /\ x.slipped \in SUBSET Handlers
  BY DEF Walks
<1>2. /\ groups[g] \in Seq(Handlers) /\ DOMAIN groups[g] = 1..Len(groups[g])
      /\ Len(groups[g]) \in Nat
  OBVIOUS
<1>3. Shifted(x, g, p) = y
  BY DEF Shifted
<1>4. /\ sl \in SUBSET Handlers /\ d \in SUBSET Handlers /\ c \in Groups \cup {None}
      /\ ec \in Groups \cup {None} /\ r \in SUBSET Groups /\ m \in BOOLEAN
  <2>1. miss => groups[g][x.i] \in Handlers
    BY <1>1, <1>2
  <2>2. sl \in SUBSET Handlers
    BY <1>1, <2>1
  <2>3. m \in BOOLEAN
    BY <1>1
  <2> QED
    BY <1>1, <2>2, <2>3
<1>5. /\ (c = x.cur \/ (c = None /\ gone /\ x.cur = g)) /\ r \subseteq x.rest
      /\ x.rest \ {g} \subseteq r /\ (~gone => r = x.rest)
      /\ x.slipped \subseteq sl /\ (miss => groups[g][x.i] \in sl)
  BY <1>1
<1> HIDE DEF sl, d, c, ec, r, m
<1>6. y \in Walks
  BY <1>4 DEF Walks
<1>7. /\ y.slipped = sl /\ y.due = d /\ y.cur = c /\ y.rest = r
      /\ y.pc = x.pc /\ y.i = x.i /\ y.h = x.h /\ y.took = x.took
      /\ y.consumed = x.consumed /\ y.cut = x.cut
  BY <1>4 DEF Walks
<1> HIDE DEF y
<1>8. Ordered(y)
  BY <1>5, <1>7 DEF Ordered
<1>9. ASSUME NEW k \in y.due \ y.slipped, x.pc # "idle"
      PROVE  Ahead(groups', y, k)
  <2> DEFINE cur == IF x.pc = "run" THEN x.cur ELSE None
             ycur == IF x.pc = "run" THEN c ELSE None
  <2>1. k \in x.due \ x.slipped /\ k # groups[g][p] /\ GroupOf[k] \in Groups
    BY <1>1, <1>5, <1>7, GroupsType DEF d
  <2>2. PICK j \in DOMAIN groups[GroupOf[k]] :
           /\ groups[GroupOf[k]][j] = k
           /\ GroupOf[k] \in x.rest \/ (GroupOf[k] = cur /\ j >= x.i)
    BY <1>9, <2>1 DEF Owed, Ahead, ToCome
  <2>3. SUFFICES ToCome(groups', k, ycur, x.i, r)
    BY <1>7 DEF Ahead
  <2>4. CASE GroupOf[k] # g
    <3>1. groups'[GroupOf[k]] = groups[GroupOf[k]]
      BY <2>1, <2>4
    <3>2. GroupOf[k] \in r \/ (GroupOf[k] = ycur /\ j >= x.i)
      BY <1>0, <1>5, <2>1, <2>2, <2>4
    <3> QED
      BY <2>2, <3>1, <3>2 DEF ToCome
  <2>5. CASE GroupOf[k] = g
    <3>1. j \in 1..Len(groups[g]) /\ p \in 1..Len(groups[g]) /\ j # p
      BY <1>2, <2>1, <2>2, <2>5
    <3>2. ~gone
      BY <1>2, <3>1
    <3>3. r = x.rest /\ ycur = cur
      BY <1>5, <3>2
    <3>4. /\ groups'[g] \in Seq(Handlers) /\ Len(groups'[g]) = Len(groups[g]) - 1
          /\ \A n \in 1..Len(groups[g]) - 1 :
                groups'[g][n] = IF n < p THEN groups[g][n] ELSE groups[g][n + 1]
      <4>1. groups'[g] = RemoveAt(groups[g], p)
        OBVIOUS
      <4> QED
        BY <1>2, <4>1, RemoveAtLemma
    <3>5. DOMAIN groups'[g] = 1..Len(groups[g]) - 1
      BY <1>2, <3>4
    <3>6. CASE j < p
      <4>1. j \in 1..Len(groups[g]) - 1 /\ groups'[g][j] = k
        BY <1>2, <2>2, <2>5, <3>1, <3>4, <3>6
      <4> QED
        BY <2>2, <2>5, <3>3, <3>5, <4>1 DEF ToCome
    <3>7. CASE j > p
      <4>1. j - 1 \in 1..Len(groups[g]) - 1 /\ groups'[g][j - 1] = k
        <5>1. j - 1 \in 1..Len(groups[g]) - 1 /\ ~(j - 1 < p) /\ (j - 1) + 1 = j
          BY <1>2, <3>1, <3>7
        <5> QED
          BY <2>2, <2>5, <3>4, <5>1
      <4>2. GroupOf[k] \in x.rest \/ (GroupOf[k] = cur /\ j - 1 >= x.i)
        <5>1. SUFFICES ASSUME GroupOf[k] \notin x.rest PROVE j - 1 >= x.i
          BY <2>2
        <5>2. GroupOf[k] = cur /\ j >= x.i /\ x.cur = g
          BY <1>0, <2>1, <2>2, <2>5, <5>1
        <5>3. j # x.i
          <6> SUFFICES ASSUME j = x.i PROVE FALSE
            OBVIOUS
          <6>1. miss
            BY <1>2, <1>9, <3>1, <3>7, <5>2
          <6> QED
            BY <1>5, <1>7, <2>2, <2>5, <6>1
        <5> QED
          BY <1>1, <3>1, <5>2, <5>3
      <4> QED
        BY <2>5, <3>3, <3>5, <4>1, <4>2 DEF ToCome
    <3> QED
      BY <3>1, <3>6, <3>7
  <2> QED
    BY <2>4, <2>5
<1>10. Owed(groups', y)
  <2>1. x.pc # "idle" => y.due \subseteq Takes(y.consumed)
    BY <1>7 DEF Owed, d
  <2>2. x.pc = "idle" /\ ~x.cut => y.due \subseteq y.slipped
    BY <1>5, <1>7 DEF Owed, d
  <2> QED
    BY <1>7, <1>9, <2>1, <2>2 DEF Owed
<1> QED
  BY <1>3, <1>6, <1>8, <1>10

\* A removal shifts the list under every walk at once.
LEMMA RemoveHandlerInv ==
    ASSUME WalkInv, NEW h \in Handlers, RemoveHandler(h)
    PROVE  WalkInv'
<1> DEFINE g == GroupOf[h]
<1>1. edits < MaxEdits /\ edits' = edits + 1
  BY DEF RemoveHandler
<1>2. PICK p \in DOMAIN groups[g] :
         /\ groups' = [groups EXCEPT ![g] = RemoveAt(@, p)]
         /\ walk' = [w \in Walkers |-> Shifted(walk[w], g, p)]
  BY DEF RemoveHandler
<1>3. /\ groups \in [Groups -> Seq(Handlers)] /\ Listed(groups)
      /\ walk \in [Walkers -> Walks] /\ edits \in 0..MaxEdits
  BY DEF WalkInv, WalkTypeOK
<1>4. g \in Groups
  BY GroupsType
<1> HIDE DEF g
<1>5. /\ groups'[g] \in Seq(Handlers) /\ Len(groups'[g]) = Len(groups[g]) - 1
      /\ \A n \in 1..Len(groups[g]) - 1 :
            groups'[g][n] = IF n < p THEN groups[g][n] ELSE groups[g][n + 1]
  <2>1. groups'[g] = RemoveAt(groups[g], p) /\ groups[g] \in Seq(Handlers)
    BY <1>2, <1>3, <1>4
  <2> QED
    BY <2>1, RemoveAtLemma
<1>6. groups' \in [Groups -> Seq(Handlers)]
  BY <1>2, <1>3, <1>4, <1>5
<1>7. Listed(groups')
  <2> SUFFICES ASSUME NEW k \in Groups, NEW j \in DOMAIN groups'[k]
               PROVE  GroupOf[groups'[k][j]] = k
    BY DEF Listed
  <2>1. CASE k # g
    BY <1>2, <1>3, <2>1 DEF Listed
  <2>2. CASE k = g
    <3>1. /\ Len(groups[g]) \in Nat /\ DOMAIN groups[g] = 1..Len(groups[g])
          /\ j \in 1..Len(groups[g]) - 1
      BY <1>3, <1>4, <1>5, <2>2
    <3>2. j \in DOMAIN groups[g] /\ j + 1 \in DOMAIN groups[g]
      BY <3>1
    <3>3. groups'[g][j] = groups[g][j] \/ groups'[g][j] = groups[g][j + 1]
      BY <1>5, <3>1
    <3> QED
      BY <1>3, <1>4, <2>2, <3>2, <3>3 DEF Listed
  <2> QED
    BY <2>1, <2>2
<1>8. ASSUME NEW w \in Walkers
      PROVE  walk'[w] \in Walks /\ Ordered(walk'[w]) /\ Owed(groups', walk'[w])
  <2>1. walk[w] \in Walks /\ Ordered(walk[w]) /\ Owed(groups, walk[w])
    BY WalkParts
  <2>2. walk'[w] = Shifted(walk[w], g, p)
    BY <1>2
  <2> QED
    BY <1>2, <1>3, <1>4, <2>1, <2>2, ShiftedLemma
<1>9. WalkTypeOK'
  <2>1. walk' \in [Walkers -> Walks]
    BY <1>2, <1>8
  <2> QED
    BY <1>1, <1>3, <1>6, <2>1, HandlerAssumption DEF WalkTypeOK
<1> QED
  BY <1>7, <1>8, <1>9 DEF WalkInv

LEMMA ClearInv ==
    ASSUME WalkInv, Clear
    PROVE  WalkInv'
<1>1. /\ edits < MaxEdits /\ edits' = edits + 1 /\ groups' = [g \in Groups |-> <<>>]
      /\ walk' = [w \in Walkers |-> Idle]
  BY DEF Clear
<1>2. groups' \in [Groups -> Seq(Handlers)] /\ Listed(groups')
  BY <1>1 DEF Listed
<1>3. WalkTypeOK'
  BY <1>1, <1>2, IdleLemma, HandlerAssumption DEF WalkInv, WalkTypeOK
<1>4. Ordered(Idle) /\ Owed(groups', Idle)
  BY IdleLemma DEF Ordered, Owed
<1> QED
  BY <1>1, <1>2, <1>3, <1>4 DEF WalkInv

LEMMA WalkInitInv == WalkInit => WalkInv
<1> SUFFICES ASSUME WalkInit PROVE WalkInv
  OBVIOUS
<1>1. /\ groups = [g \in Groups |-> IF g \in DOMAIN Registered THEN Registered[g] ELSE <<>>]
      /\ walk = [w \in Walkers |-> Idle] /\ edits = 0
  BY DEF WalkInit
<1>2. groups \in [Groups -> Seq(Handlers)] /\ Listed(groups)
  BY <1>1, HandlerAssumption DEF Listed
<1>3. WalkTypeOK
  BY <1>1, <1>2, IdleLemma, HandlerAssumption DEF WalkTypeOK
<1>4. Ordered(Idle) /\ Owed(groups, Idle)
  BY IdleLemma DEF Ordered, Owed
<1> QED
  BY <1>1, <1>2, <1>3, <1>4 DEF WalkInv

(***************************************************************************)
(* The invariant of the walks holds in every state.                        *)
(***************************************************************************)
THEOREM WalkInvariant == WalkSpec => []WalkInv
<1>1. WalkInv /\ [WalkNext]_walkVars => WalkInv'
  <2> SUFFICES ASSUME WalkInv, [WalkNext]_walkVars PROVE WalkInv'
    OBVIOUS
  <2>1. ASSUME NEW w \in Walkers, NEW consumed \in BOOLEAN, TakeUpdate(w, consumed)
        PROVE  WalkInv'
    BY <2>1, TakeUpdateInv
  <2>2. ASSUME NEW w \in Walkers, Step(w)
        PROVE  WalkInv'
    BY <2>2, PassOnInv, ReturnInv, StopPropagationInv, RaiseInv, ErrorStepInv DEF Step
  <2>3. ASSUME NEW h \in Handlers, AddHandler(h) \/ RemoveHandler(h)
        PROVE  WalkInv'
    BY <2>3, AddHandlerInv, RemoveHandlerInv
  <2>4. CASE Clear
    BY <2>4, ClearInv
  <2>5. CASE UNCHANGED walkVars
    BY <2>5 DEF walkVars, WalkInv, WalkTypeOK
  <2> QED
    BY <2>1, <2>2, <2>3, <2>4, <2>5 DEF WalkNext
<1> QED
  BY <1>1, WalkInitInv, PTL DEF WalkSpec

(***************************************************************************)
(* An update reaches every handler that was registered when its walk       *)
(* began, was not removed and did not slip to a place already passed,      *)
(* unless its group handled it, propagation was stopped or the walk cut:   *)
(* for any number of workers, handlers, groups and edits.                  *)
(***************************************************************************)
THEOREM NoneOverlookedTheorem == WalkSpec => []NoneOverlooked
<1>1. WalkInv => NoneOverlooked
  BY DEF WalkInv, Owed, NoneOverlooked
<1> QED
  BY <1>1, WalkInvariant, PTL

(***************************************************************************)
(* A worker never runs a handler of a group that has handled its update,   *)
(* whatever is added and removed under the walk.                           *)
(***************************************************************************)
THEOREM OncePerGroupTheorem == WalkSpec => []OncePerGroup
<1>1. WalkInv => OncePerGroup
  BY DEF WalkInv, Ordered, OncePerGroup
<1> QED
  BY <1>1, WalkInvariant, PTL

=============================================================================
