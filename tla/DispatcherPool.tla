--------------------------- MODULE DispatcherPool --------------------------
(***************************************************************************)
(* The handler workers of pyrogram/dispatcher.py: start(), stop(),         *)
(* handler_worker(), and park() / unpark(), which cover a worker whose     *)
(* handler waits in listen() by a relief worker.  A task's pc is the await *)
(* it is suspended at; "new" is a task that has not had its first run.     *)
(* What a worker does with an update is left to "busy".                    *)
(***************************************************************************)
EXTENDS FiniteSets, Integers, Sequences

CONSTANTS
    Base,        \* the client.workers workers of a generation
    Relief,      \* names for relief workers; bounds how many exist at a time
    QueueMax,    \* updates_queue.maxsize
    ListenerMax  \* ListenerBudget.limit

ASSUME PoolAssumption ==
    /\ Base \cap Relief = {}
    /\ IsFiniteSet(Base) /\ IsFiniteSet(Relief)
    /\ QueueMax \in Nat \ {0}
    /\ ListenerMax \in Nat \ {0}

VARIABLES
    pool,     \* where start() or stop() is
    pc,       \* where each worker is
    relief,   \* relief_workers: a task leaves it in a later done-callback
    parked,   \* Dispatcher.parked
    queue,    \* updates_queue: updates and the None of stop()
    sending,  \* sentinels stop() has still to put
    joining   \* workers stop() has still to wait for

vars == <<pool, pc, relief, parked, queue, sending, joining>>

Workers == Base \cup Relief

TypeOK ==
    /\ pool \in {"down", "running", "closing", "sentinels", "joining"}
    /\ pc \in [Workers -> {"gone", "new", "get", "busy", "parked", "resumed"}]
    /\ relief \subseteq Relief
    /\ parked \in 0..ListenerMax
    /\ queue \in Seq({"update", "stop"}) /\ Len(queue) <= QueueMax
    /\ sending \in Nat
    /\ joining \subseteq Workers

Init ==
    /\ pool = "down"
    /\ pc = [w \in Workers |-> "gone"]
    /\ relief = {} /\ parked = 0
    /\ queue = <<>> /\ sending = 0 /\ joining = {}

----------------------------------------------------------------------------
(* start() and enqueue_update() *)

Start ==
    /\ pool = "down"
    /\ pool' = "running"
    /\ pc' = [w \in Workers |-> IF w \in Base THEN "new" ELSE pc[w]]
    /\ UNCHANGED <<relief, parked, queue, sending, joining>>

\* An update that finds no room for ENQUEUE_TIMEOUT is dropped.
Enqueue ==
    /\ Len(queue) < QueueMax
    /\ queue' = Append(queue, "update")
    /\ UNCHANGED <<pool, pc, relief, parked, sending, joining>>

----------------------------------------------------------------------------
(* handler_worker() *)

\* The head of the loop: a relief worker that is not needed retires.
Again(w) == IF w \in Relief /\ parked < Cardinality(relief) THEN "gone" ELSE "get"

\* A new task runs for the first time, or a handler has returned.
Loop(w) ==
    /\ pc[w] \in {"new", "busy"}
    /\ pc' = [pc EXCEPT ![w] = Again(w)]
    /\ UNCHANGED <<pool, relief, parked, queue, sending, joining>>

\* A task created earlier runs before one that is woken now.
Settled == \A w \in Workers : pc[w] # "new"

\* The done-callback of a relief task.
Discard(w) ==
    /\ w \in relief /\ pc[w] = "gone"
    /\ relief' = relief \ {w}
    /\ UNCHANGED <<pool, pc, parked, queue, sending, joining>>

\* The next item: the end, or an update, which may be what a parked worker
\* is waiting for (listeners.feed()).
Take(w) ==
    /\ pc[w] = "get" /\ queue # <<>>
    /\ queue' = Tail(queue)
    /\ IF Head(queue) = "stop"
          THEN pc' = [pc EXCEPT ![w] = "gone"]
          ELSE \/ pc' = [pc EXCEPT ![w] = "busy"]
               \/ \E v \in Workers :
                     /\ pc[v] = "parked" /\ Settled
                     /\ pc' = [pc EXCEPT ![w] = "busy", ![v] = "resumed"]
    /\ UNCHANGED <<pool, relief, parked, sending, joining>>

\* listen() in a handler: listeners.add() lets it in, then park().
Park(w) ==
    /\ pc[w] = "busy"
    /\ pool = "running"
    /\ Cardinality({v \in Workers : pc[v] \in {"parked", "resumed"}}) < ListenerMax
    /\ parked' = parked + 1
    /\ \E r \in Relief :
          /\ pc[r] = "gone" /\ r \notin relief
          /\ relief' = relief \cup {r}
          /\ pc' = [pc EXCEPT ![w] = "parked", ![r] = "new"]
    /\ UNCHANGED <<pool, queue, sending, joining>>

\* The listener times out or is stopped.
Timeout(w) ==
    /\ pc[w] = "parked" /\ Settled
    /\ pc' = [pc EXCEPT ![w] = "resumed"]
    /\ UNCHANGED <<pool, relief, parked, queue, sending, joining>>

\* Mutant: listen() does not unpark.
UnparkForgotten(w) ==
    /\ pc[w] = "resumed"
    /\ pc' = [pc EXCEPT ![w] = "busy"]
    /\ UNCHANGED <<pool, relief, parked, queue, sending, joining>>

\* listen() goes on: unpark().
Unpark(w) ==
    /\ pc[w] = "resumed"
    /\ pc' = [pc EXCEPT ![w] = "busy"]
    /\ parked' = IF parked > 0 THEN parked - 1 ELSE 0
    /\ UNCHANGED <<pool, relief, queue, sending, joining>>

----------------------------------------------------------------------------
(* stop(), as terminate() calls it: after listeners.close() *)

CloseListeners ==
    /\ pool = "running" /\ Settled
    /\ pool' = "closing"
    /\ pc' = [w \in Workers |-> IF pc[w] = "parked" THEN "resumed" ELSE pc[w]]
    /\ UNCHANGED <<relief, parked, queue, sending, joining>>

Smaller(a, b) == IF a < b THEN a ELSE b

\* Sentinels go in while there is room; then stop() waits for a place.
Fill(n) ==
    LET k == Smaller(n, QueueMax - Len(queue))
    IN  /\ queue' = queue \o [i \in 1..k |-> "stop"]
        /\ sending' = n - k

StopBegin ==
    /\ pool = "closing"
    /\ pool' = "sentinels"
    /\ parked' = 0
    /\ Fill(Cardinality(Base) + Cardinality(relief))
    /\ UNCHANGED <<pc, relief, joining>>

PutSentinel ==
    /\ pool = "sentinels" /\ sending > 0 /\ Len(queue) < QueueMax
    /\ Fill(sending)
    /\ UNCHANGED <<pool, pc, relief, parked, joining>>

\* "Updates queue still full during stop"
PutTimeout ==
    /\ pool = "sentinels" /\ sending > 0
    /\ sending' = 0
    /\ UNCHANGED <<pool, pc, relief, parked, queue, joining>>

\* Mutant: relief workers are not waited for.
BeginJoinBase ==
    /\ pool = "sentinels" /\ sending = 0
    /\ pool' = "joining"
    /\ joining' = Base
    /\ UNCHANGED <<pc, relief, parked, queue, sending>>

BeginJoin ==
    /\ pool = "sentinels" /\ sending = 0
    /\ pool' = "joining"
    /\ joining' = Base \cup relief
    /\ UNCHANGED <<pc, relief, parked, queue, sending>>

\* Mutant: stop() waits for every worker without a timeout.
JoinForever(w) ==
    /\ w \in joining /\ pc[w] = "gone"
    /\ joining' = joining \ {w}
    /\ UNCHANGED <<pool, pc, relief, parked, queue, sending>>

\* A worker has ended, or has had its ten seconds and is cancelled; its
\* unpark(), if it was to come, finds the counter at 0.
Join(w) ==
    /\ w \in joining
    /\ joining' = joining \ {w}
    /\ pc' = [pc EXCEPT ![w] = "gone"]
    /\ UNCHANGED <<pool, relief, parked, queue, sending>>

\* Mutant: what is left in the queue stays.
StopEndUndrained ==
    /\ pool = "joining" /\ joining = {}
    /\ pool' = "down"
    /\ relief' = {}
    /\ UNCHANGED <<pc, parked, queue, sending, joining>>

\* What is left in the queue goes.
StopEnd ==
    /\ pool = "joining" /\ joining = {}
    /\ pool' = "down"
    /\ queue' = <<>>
    /\ relief' = {}
    /\ UNCHANGED <<pc, parked, sending, joining>>

Next ==
    \/ Start
    \/ Enqueue
    \/ CloseListeners
    \/ StopBegin
    \/ PutSentinel
    \/ PutTimeout
    \/ BeginJoin
    \/ StopEnd
    \/ \E w \in Workers :
          \/ Loop(w)
          \/ Discard(w)
          \/ Take(w)
          \/ Park(w)
          \/ Timeout(w)
          \/ Unpark(w)
          \/ Join(w)

(***************************************************************************)
(* stop() goes on by itself, each of its waits having a timeout.  Handlers *)
(* need never return.                                                      *)
(***************************************************************************)
Fairness ==
    /\ WF_vars(StopBegin)
    /\ WF_vars(PutSentinel \/ PutTimeout)
    /\ WF_vars(BeginJoin)
    /\ \A w \in Workers : WF_vars(Join(w))
    /\ WF_vars(StopEnd)

Spec == Init /\ [][Next]_vars /\ Fairness

----------------------------------------------------------------------------
(***************************************************************************)
(* While the pool runs, parked counts the handlers that wait in listen():  *)
(* relief is measured against it, so an error made once stays for good. It *)
(* survives a stop() that resets the counter under workers which have yet  *)
(* to unpark.                                                              *)
(***************************************************************************)
ParkedExact ==
    /\ TypeOK
    /\ pool = "running" =>
          parked = Cardinality({w \in Workers : pc[w] \in {"parked", "resumed"}})

(***************************************************************************)
(* A generation of workers is not hurt by the one before: no sentinel is   *)
(* left for it and nobody but stop() ends one of its base workers.         *)
(***************************************************************************)
FreshGeneration ==
    pool = "running" =>
        /\ \A i \in 1..Len(queue) : queue[i] = "update"
        /\ \A w \in Base : pc[w] # "gone"

(***************************************************************************)
(* After stop() no worker of either kind is left, whatever the workers     *)
(* were doing and although relief workers retire by themselves meanwhile.  *)
(***************************************************************************)
NoWorkerLeft == pool = "down" => \A w \in Workers : pc[w] = "gone"

\* stop() returns even if handlers never do and the queue stays full.
StopReturns == pool = "closing" ~> pool = "down"

=============================================================================
