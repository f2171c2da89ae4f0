-------------------------- MODULE ListenerRegistry -------------------------
(***************************************************************************)
(* The listeners of pyrogram/types/listeners/registry.py: the registries   *)
(* of several clients on one event loop, the budget they share, the tasks  *)
(* that wait in listen() (methods/listeners/listen.py), the handler        *)
(* workers that feed() them updates and one reaper per registry.           *)
(*                                                                         *)
(* A listener is found by its keys and matched by its identifier and its   *)
(* filters; module ListenerKeys is about that.  Here feed() starts from    *)
(* some of the client's live listeners and each may or may not match.      *)
(***************************************************************************)
EXTENDS FiniteSets, Naturals

CONSTANTS
    Clients,
    Slots,      \* names for the listeners of one client
    Feeds,      \* handler workers running feed()
    None,
    Limit,      \* ListenerBudget.limit
    Timeouts,   \* timeouts given to add()
    CompactAt,  \* the 32 of _compact()
    StaleMax    \* bound on _stale: larger counts compare alike in _compact()

\* A listener is put into the registry of one client, for good.
Listeners == Clients \X Slots
Home(l) == l[1]

ASSUME ListenerAssumption ==
    /\ IsFiniteSet(Listeners)
    /\ None \notin Listeners /\ None \notin Clients /\ None \notin Nat
    /\ Limit \in Nat /\ CompactAt \in Nat \ {0}
    /\ StaleMax \in Nat /\ CompactAt <= StaleMax
    /\ Cardinality(Slots) <= StaleMax
    /\ Timeouts \subseteq Nat

VARIABLES
    live,     \* the listeners in some registry's _live
    future,   \* what each listener waits with, or that it is done
    waiting,  \* listeners whose listen() has not run its finally
    heap,     \* _heap: the time left to each listener in it, None for others
    stale,    \* _stale of each registry
    closed,   \* clients whose registry is closed
    reaper,   \* the state of each registry's reaper task
    alarm,    \* time left until a waiting reaper's wait_for ends, or None
    wake,     \* clients whose _wake is set
    used,     \* ListenerBudget.used
    feed      \* each worker's feed(): its client, candidates and filter

timing == <<heap, stale, reaper, alarm, wake>>
vars == <<live, future, waiting, heap, stale, closed, reaper, alarm, wake,
          used, feed>>

Idle == [client |-> None, rest |-> {}, filtering |-> None]

TypeOK ==
    /\ live \subseteq Listeners
    /\ future \in [Listeners -> {"future", "callback", "cancelled", "done"}]
    /\ waiting \subseteq Listeners
    /\ heap \in [Listeners -> Nat \cup {None}]
    /\ stale \in [Clients -> 0..StaleMax]
    /\ closed \subseteq Clients
    /\ reaper \in [Clients -> {"none", "run", "popping", "wait"}]
    /\ alarm \in [Clients -> Nat \cup {None}]
    /\ wake \subseteq Clients
    /\ used \in Nat
    /\ feed \in [Feeds -> [client : Clients \cup {None},
                           rest : SUBSET Listeners,
                           filtering : Listeners \cup {None}]]

Init ==
    /\ live = {}
    /\ future = [l \in Listeners |-> "done"]
    /\ waiting = {}
    /\ heap = [l \in Listeners |-> None]
    /\ stale = [c \in Clients |-> 0]
    /\ closed = {}
    /\ reaper = [c \in Clients |-> "none"]
    /\ alarm = [c \in Clients |-> None]
    /\ wake = {}
    /\ used = 0
    /\ feed = [f \in Feeds |-> Idle]

----------------------------------------------------------------------------
\* Listener.pending
Pending(l) == future[l] \in {"future", "callback"}

Heap(c) == {l \in Listeners : heap[l] # None /\ Home(l) = c}

\* A listener object nothing refers to any more stands for the next one.
Unreferenced(l) ==
    /\ l \notin live /\ l \notin waiting
    /\ heap[l] = None
    /\ \A f \in Feeds : l \notin feed[f].rest /\ feed[f].filtering # l

Release == IF used > 0 THEN used - 1 ELSE used

\* add() up to _schedule(): refused on a closed registry, and when the
\* budget is used up.
Insert(l, kind) ==
    /\ Unreferenced(l)
    /\ used < Limit
    /\ used' = used + 1
    /\ live' = live \cup {l}
    /\ future' = [future EXCEPT ![l] = kind]
    /\ waiting' = IF kind = "future" THEN waiting \cup {l} ELSE waiting

\* _schedule(): push the deadline, see that there is a reaper and wake it.
Schedule(l, timeout) ==
    /\ heap' = [heap EXCEPT ![l] = timeout]
    /\ reaper' = [reaper EXCEPT ![Home(l)] = IF @ = "none" THEN "run" ELSE @]

\* Mutant: the reaper is not woken.
AddSilently(l, kind, timeout) ==
    /\ Home(l) \notin closed
    /\ Insert(l, kind)
    /\ IF timeout = None THEN UNCHANGED <<heap, reaper>> ELSE Schedule(l, timeout)
    /\ UNCHANGED <<stale, closed, alarm, wake, feed>>

\* Mutant: a closed registry takes new listeners.
AddToClosed(l, kind, timeout) ==
    /\ Insert(l, kind)
    /\ IF timeout = None
          THEN UNCHANGED <<heap, reaper, wake>>
          ELSE Schedule(l, timeout) /\ wake' = wake \cup {Home(l)}
    /\ UNCHANGED <<stale, closed, alarm, feed>>

Add(l, kind, timeout) ==
    /\ Home(l) \notin closed
    /\ Insert(l, kind)
    /\ IF timeout = None
          THEN UNCHANGED <<heap, reaper, wake>>
          ELSE Schedule(l, timeout) /\ wake' = wake \cup {Home(l)}
    /\ UNCHANGED <<stale, closed, alarm, feed>>

Count(n) == IF n < StaleMax THEN n + 1 ELSE n

\* Mutant: the place is released whether or not the listener was there.
RemoveTwice(l) ==
    /\ live' = live \ {l}
    /\ used' = Release
    /\ stale' = [stale EXCEPT ![Home(l)] = Count(@)]

\* Mutant: the dead entry of the heap is not counted.
RemoveUncounted(l) ==
    /\ live' = live \ {l}
    /\ used' = IF l \in live THEN Release ELSE used
    /\ UNCHANGED stale

\* remove(): only the caller that takes the listener out of _live releases
\* its place in the budget.
Remove(l) ==
    IF l \in live
       THEN /\ live' = live \ {l}
            /\ used' = Release
            /\ stale' = [stale EXCEPT ![Home(l)] = Count(@)]
       ELSE UNCHANGED <<live, used, stale>>

\* _fail(): a future that is done already is left alone.
Fail(l) == future' = [future EXCEPT ![l] = IF Pending(l) THEN "done" ELSE @]

\* stop() of one listener, by stop_listening() or by its owner.
Stop(l) ==
    /\ l \in live
    /\ Remove(l)
    /\ Fail(l)
    /\ UNCHANGED <<waiting, heap, closed, reaper, alarm, wake, feed>>

\* The task in listen() is cancelled, and with it the future it awaits.
Cancel(l) ==
    /\ l \in waiting /\ future[l] = "future"
    /\ future' = [future EXCEPT ![l] = "cancelled"]
    /\ UNCHANGED <<live, waiting, heap, stale, closed, reaper, alarm, wake,
                   used, feed>>

\* Mutant: the finally is missing.
ReturnOnly(l) ==
    /\ l \in waiting /\ ~Pending(l)
    /\ waiting' = waiting \ {l}
    /\ future' = [future EXCEPT ![l] = "done"]
    /\ UNCHANGED <<live, heap, stale, closed, reaper, alarm, wake, used, feed>>

\* listen() goes on once its future is done; its finally removes.
Return(l) ==
    /\ l \in waiting /\ ~Pending(l)
    /\ waiting' = waiting \ {l}
    /\ Remove(l)
    /\ future' = [future EXCEPT ![l] = "done"]
    /\ UNCHANGED <<heap, closed, reaper, alarm, wake, feed>>

\* close(): every waiter fails, heap and reaper go.
Close(c) ==
    LET mine == {l \in live : Home(l) = c}
    IN  /\ c \notin closed
        /\ closed' = closed \cup {c}
        /\ live' = live \ mine
        /\ used' = used - Cardinality(mine)
        /\ future' = [l \in Listeners |-> IF l \in mine /\ Pending(l)
                                             THEN "done" ELSE future[l]]
        /\ heap' = [l \in Listeners |-> IF Home(l) = c THEN None ELSE heap[l]]
        /\ stale' = [stale EXCEPT ![c] = 0]
        /\ reaper' = [reaper EXCEPT ![c] = "none"]
        /\ alarm' = [alarm EXCEPT ![c] = None]
        /\ UNCHANGED <<waiting, wake, feed>>

Reopen(c) ==
    /\ c \in closed
    /\ closed' = closed \ {c}
    /\ UNCHANGED <<live, future, waiting, heap, stale, reaper, alarm, wake,
                   used, feed>>

----------------------------------------------------------------------------
(* _reap(): one turn of its loop *)

\* _compact() at the head of the turn: is it due?
Compact(c) == stale[c] >= CompactAt /\ 2 * stale[c] >= Cardinality(Heap(c))

\* The heap and the stale count of c after _compact().
CompactHeap(c) ==
    IF Compact(c)
       THEN [l \in Listeners |-> IF l \in Heap(c) \ live THEN None ELSE heap[l]]
       ELSE heap
CompactStale(c) == IF Compact(c) THEN 0 ELSE stale[c]

Awake(c) ==
    \/ reaper[c] \in {"run", "popping"}
    \/ /\ reaper[c] = "wait"
       /\ c \in wake \/ alarm[c] = 0

\* Nothing is due: wait for the first deadline or for _wake.
ReapWait(c) ==
    /\ Awake(c)
    /\ wake' = wake \ {c}
    /\ heap' = CompactHeap(c)
    /\ stale' = [stale EXCEPT ![c] = CompactStale(c)]
    /\ \A l \in Heap(c) : heap'[l] # 0
    /\ reaper' = [reaper EXCEPT ![c] = "wait"]
    /\ alarm' = [alarm EXCEPT ![c] =
                   LET left == {heap'[l] : l \in Heap(c)} \ {None}
                   IN  IF left = {} THEN None
                       ELSE CHOOSE t \in left : \A u \in left : t <= u]
    /\ UNCHANGED <<live, future, waiting, closed, used, feed>>

\* An entry is due: pop it, time it out if it is still live, and go on
\* without an await.
ReapPop(c) ==
    /\ Awake(c)
    /\ wake' = wake \ {c}
    /\ reaper' = [reaper EXCEPT ![c] = "popping"]
    /\ alarm' = [alarm EXCEPT ![c] = None]
    /\ \E l \in Heap(c) :
          /\ CompactHeap(c)[l] # None /\ heap[l] = 0
          /\ heap' = [CompactHeap(c) EXCEPT ![l] = None]
          /\ IF l \in live
                THEN /\ live' = live \ {l}
                     /\ used' = Release
                     /\ stale' = [stale EXCEPT ![c] = Count(CompactStale(c))]
                     /\ Fail(l)
                ELSE /\ stale' = [stale EXCEPT ![c] = CompactStale(c)]
                     /\ UNCHANGED <<live, used, future>>
    /\ UNCHANGED <<waiting, closed, feed>>

\* loop.time() goes on: every deadline comes nearer.
Tick ==
    /\ \E l \in Listeners : heap[l] \notin {None, 0}
    /\ heap' = [l \in Listeners |-> IF heap[l] \in {None, 0} THEN heap[l]
                                                            ELSE heap[l] - 1]
    /\ alarm' = [c \in Clients |-> IF alarm[c] \in {None, 0} THEN alarm[c]
                                                            ELSE alarm[c] - 1]
    /\ UNCHANGED <<live, future, waiting, stale, closed, reaper, wake, used,
                   feed>>

----------------------------------------------------------------------------
(* feed() *)

\* The update's keys lead to some of the client's listeners.
FeedBegin(f, c) ==
    /\ feed[f].client = None
    /\ \E found \in SUBSET {l \in live : Home(l) = c} \ {{}} :
          feed' = [feed EXCEPT ![f] = [client |-> c, rest |-> found,
                                       filtering |-> None]]
    /\ UNCHANGED <<live, future, waiting, closed, used, timing>>

\* The next candidate is not pending any more, or does not match.
FeedSkip(f) ==
    /\ feed[f].filtering = None
    /\ \E l \in feed[f].rest : feed' = [feed EXCEPT ![f].rest = @ \ {l}]
    /\ UNCHANGED <<live, future, waiting, closed, used, timing>>

\* The next candidate matches: await its filter.
FeedFilter(f) ==
    /\ feed[f].filtering = None
    /\ \E l \in feed[f].rest :
          /\ Pending(l)
          /\ feed' = [feed EXCEPT ![f].rest = @ \ {l}, ![f].filtering = l]
    /\ UNCHANGED <<live, future, waiting, closed, used, timing>>

FeedFiltered(f) ==
    /\ feed[f].filtering # None
    /\ feed' = [feed EXCEPT ![f].filtering = None]
    /\ UNCHANGED <<live, future, waiting, closed, used, timing>>

\* The filter let the update pass.  The listener may be gone by now, or
\* still be live although its future was cancelled: then the next one.
FeedDeliver(f) ==
    LET l == feed[f].filtering
    IN  /\ l # None
        /\ Remove(l)
        /\ IF l \in live /\ Pending(l)
              THEN /\ future' = [future EXCEPT ![l] = "done"]
                   /\ feed' = [feed EXCEPT ![f] = Idle]
              ELSE /\ feed' = [feed EXCEPT ![f].filtering = None]
                   /\ UNCHANGED future
        /\ UNCHANGED <<waiting, heap, closed, reaper, alarm, wake>>

\* No candidate took the update: feed() returns False.
FeedEnd(f) ==
    /\ feed[f].client # None /\ feed[f].rest = {} /\ feed[f].filtering = None
    /\ feed' = [feed EXCEPT ![f] = Idle]
    /\ UNCHANGED <<live, future, waiting, closed, used, timing>>

\* No reaper is between two pops, where it does not give way to others.
Yielded == \A c \in Clients : reaper[c] # "popping"

Reap(c) ==
    /\ Yielded \/ reaper[c] = "popping"
    /\ ReapWait(c) \/ ReapPop(c)

Others ==
    \/ \E l \in Listeners :
          \/ \E kind \in {"future", "callback"},
                timeout \in Timeouts \cup {None} : Add(l, kind, timeout)
          \/ Stop(l)
          \/ Cancel(l)
          \/ Return(l)
    \/ \E c \in Clients : Close(c) \/ Reopen(c)
    \/ Tick
    \/ \E f \in Feeds :
          \/ \E c \in Clients : FeedBegin(f, c)
          \/ FeedSkip(f)
          \/ FeedFilter(f)
          \/ FeedFiltered(f)
          \/ FeedDeliver(f)
          \/ FeedEnd(f)

Next ==
    \/ \E c \in Clients : Reap(c)
    \/ Yielded /\ Others

\* The reaper runs when it is due, tasks that can go on do, time passes.
Fairness ==
    /\ \A c \in Clients : WF_vars(Reap(c))
    /\ \A l \in Listeners : WF_vars(Yielded /\ Return(l))
    /\ WF_vars(Yielded /\ Tick)

Spec == Init /\ [][Next]_vars /\ Fairness

----------------------------------------------------------------------------
(***************************************************************************)
(* The budget counts exactly the outstanding listeners, over all clients   *)
(* and however a listener ends: update, timeout, stop(), cancellation,     *)
(* close(), or several of them at once.  A place released twice would lift *)
(* the ceiling, one never released would lower it for good.                *)
(***************************************************************************)
BudgetExact == used = Cardinality(live) /\ used <= Limit

(***************************************************************************)
(* A listener is in the registry exactly as long as somebody waits for it: *)
(* nothing pending is out of reach of feed(), the reaper and close(), and  *)
(* nothing finished keeps its place, once listen() has seen the end.       *)
(***************************************************************************)
LiveIsPending ==
    \A l \in Listeners :
        /\ Pending(l) => l \in live
        /\ l \in live => Pending(l) \/ (future[l] = "cancelled" /\ l \in waiting)

(***************************************************************************)
(* close() leaves nothing behind: no listener, no deadline and no reaper,  *)
(* also when feed() was waiting for a filter of one of them.               *)
(***************************************************************************)
ClosedIsEmpty ==
    \A c \in closed :
        /\ \A l \in live : Home(l) # c
        /\ Heap(c) = {} /\ reaper[c] = "none"

(***************************************************************************)
(* _stale never counts fewer than the dead entries of the heap, so that    *)
(* _compact() cannot overlook them: whenever the reaper goes to sleep,     *)
(* fewer than CompactAt entries are dead or the larger part is alive.      *)
(***************************************************************************)
HeapPruned ==
    /\ []TypeOK
    /\ [][\A c \in Clients : ReapWait(c) =>
             LET dead == Cardinality(Heap(c)' \ live)
             IN  dead < CompactAt \/ 2 * dead < Cardinality(Heap(c)')]_vars

(***************************************************************************)
(* A deadline is kept: a listener with a timeout does not stay pending for *)
(* ever.  The reaper may be asleep with an empty heap, or until a later    *)
(* deadline, when the listener is added.                                   *)
(***************************************************************************)
DeadlinesKept ==
    \A l \in Listeners :
        (l \in live /\ heap[l] # None) ~> (l \notin live)

=============================================================================
