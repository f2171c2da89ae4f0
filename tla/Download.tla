------------------------------ MODULE Download ------------------------------
(***************************************************************************)
(* Downloads that run at the same time: get_file() of pyrogram/client.py   *)
(* from its first request on, with the workers that fetch the chunks after *)
(* the first, and ReadAhead, whose slots all transfers share.              *)
(*                                                                         *)
(* Chunks are numbered; chunk 0 is the first.  A stream hands the chunks   *)
(* to its consumer in order, a file is written where they belong.  The     *)
(* consumer is external: it asks for the next chunk, closes the generator  *)
(* or cancels the task.  So are the pool of sessions, which comes up or    *)
(* does not, and asyncio's Semaphore.  Flood waits are part of a fetch,    *)
(* pacing and progress are left out, as are redirects to a CDN and files   *)
(* of unknown size.                                                        *)
(***************************************************************************)
EXTENDS FiniteSets, Naturals

CONSTANTS
    Transfers,
    Files,      \* the transfers with a _write_file
    Workers,    \* min(dl_pool_size * dl_workers_per_session, chunks_needed)
    Last,       \* the last chunk by the size of the file
    Short,      \* the chunk that is shorter than the others, per transfer
    Size        \* read_ahead_slots

Chunks == 1..Last

ASSUME DownloadAssumption ==
    /\ Files \subseteq Transfers
    /\ IsFiniteSet(Workers) /\ Workers # {} /\ IsFiniteSet(Transfers)
    /\ Last \in Nat \ {0} /\ Size \in Nat \ {0}
    /\ Short \in [Transfers -> Nat]

VARIABLES
    pc,        \* the await get_file() is at
    launch,    \* _launch(), and the pool_task it waits for
    worker,    \* where each worker of a transfer is
    chunk,     \* the chunk a worker fetches
    cancelled, \* workers that have been cancelled and have not run since
    work,      \* the next chunk in the queue
    received,  \* chunks fetched and not handed out; chunks written
    next,      \* the chunk the consumer gets next
    ready,     \* data_ready
    held,      \* ReadAhead._held
    free,      \* what is left of read_ahead_slots
    outcome    \* history: how the transfer ended

tasks == <<worker, chunk, cancelled, work>>
slots == <<held, free>>
vars == <<pc, launch, tasks, received, next, ready, slots, outcome>>

TypeOK ==
    /\ pc \in [Transfers -> {"idle", "first", "given", "pending", "loop", "wait", "yield",
                             "drop", "closed"}]
    /\ launch \in [Transfers -> {"wait", "done", "failed", "cancelled"}]
    /\ worker \in [Transfers \X Workers -> {"off", "slot", "fetch", "done", "failed"}]
    /\ chunk \in [Transfers \X Workers -> 0..Last]
    /\ cancelled \subseteq Transfers \X Workers
    /\ work \in [Transfers -> 1..Last + 1]
    /\ received \in [Transfers -> SUBSET Chunks]
    /\ next \in [Transfers -> 0..Last + 1]
    /\ ready \in [Transfers -> BOOLEAN]
    /\ held \in [Transfers -> 0..Size] /\ free \in 0..Size
    /\ outcome \in [Transfers -> {"none", "returned", "raised", "left", "orphaned"}]

Init ==
    /\ pc = [t \in Transfers |-> "idle"]
    /\ launch = [t \in Transfers |-> "wait"]
    /\ worker = [tw \in Transfers \X Workers |-> "off"]
    /\ chunk = [tw \in Transfers \X Workers |-> 0]
    /\ cancelled = {}
    /\ work = [t \in Transfers |-> 1]
    /\ received = [t \in Transfers |-> {}]
    /\ next = [t \in Transfers |-> 0]
    /\ ready = [t \in Transfers |-> FALSE]
    /\ held = [t \in Transfers |-> 0] /\ free = Size
    /\ outcome = [t \in Transfers |-> "none"]

Full(t, c) == c < Short[t]
Over(t, w) == worker[<<t, w>>] \in {"off", "done", "failed"}

----------------------------------------------------------------------------
(* ReadAhead *)

\* Mutant: a slot is given back whether or not it is held.
ReleaseAlways(t) ==
    /\ held' = [held EXCEPT ![t] = IF @ > 0 THEN @ - 1 ELSE @]
    /\ free' = free + 1

Release(t) ==
    IF held[t] > 0 THEN held' = [held EXCEPT ![t] = @ - 1] /\ free' = free + 1
                   ELSE UNCHANGED slots

ReleaseAll(t) ==
    /\ held' = [held EXCEPT ![t] = 0]
    /\ free' = free + held[t]

----------------------------------------------------------------------------
(* _launch() and _worker() *)

Launch(t) ==
    /\ pc[t] # "idle" /\ launch[t] = "wait"
    /\ \/ /\ launch' = [launch EXCEPT ![t] = "done"]
          /\ worker' = [tw \in Transfers \X Workers |->
                          IF tw[1] = t THEN "slot" ELSE worker[tw]]
       \/ launch' = [launch EXCEPT ![t] = "failed"] /\ UNCHANGED worker
    /\ UNCHANGED <<pc, chunk, cancelled, work, received, next, ready, slots, outcome>>

\* A slot first, then the next chunk; without one the worker is done.
Acquire(t, w) ==
    /\ worker[<<t, w>>] = "slot" /\ <<t, w>> \notin cancelled
    /\ free > 0
    /\ IF work[t] <= Last
       THEN /\ worker' = [worker EXCEPT ![<<t, w>>] = "fetch"]
            /\ chunk' = [chunk EXCEPT ![<<t, w>>] = work[t]]
            /\ work' = [work EXCEPT ![t] = @ + 1]
            /\ held' = [held EXCEPT ![t] = @ + 1] /\ free' = free - 1
            /\ UNCHANGED ready
       ELSE /\ worker' = [worker EXCEPT ![<<t, w>>] = "done"]
            /\ ready' = [ready EXCEPT ![t] = TRUE]
            /\ UNCHANGED <<chunk, work, slots>>
    /\ UNCHANGED <<pc, launch, cancelled, received, next, outcome>>

\* A chunk of a stream keeps its slot until the consumer gets it.
Fetched(t, w) ==
    /\ worker[<<t, w>>] = "fetch" /\ <<t, w>> \notin cancelled
    /\ received' = [received EXCEPT ![t] = @ \cup {chunk[<<t, w>>]}]
    /\ IF t \in Files THEN Release(t) ELSE UNCHANGED slots
    /\ ready' = [ready EXCEPT ![t] = TRUE]
    /\ worker' = [worker EXCEPT ![<<t, w>>] =
                     IF Full(t, chunk[<<t, w>>]) THEN "slot" ELSE "done"]
    /\ chunk' = [chunk EXCEPT ![<<t, w>>] = 0]
    /\ UNCHANGED <<pc, launch, cancelled, work, next, outcome>>

\* Mutant: nobody is told that a worker has failed.
FetchFailsQuietly(t, w) ==
    /\ worker[<<t, w>>] = "fetch" /\ <<t, w>> \notin cancelled
    /\ Release(t)
    /\ worker' = [worker EXCEPT ![<<t, w>>] = "failed"]
    /\ chunk' = [chunk EXCEPT ![<<t, w>>] = 0]
    /\ UNCHANGED <<pc, launch, cancelled, work, received, next, ready, outcome>>

\* The request fails for good; the task's callback sets data_ready.
FetchFails(t, w) ==
    /\ worker[<<t, w>>] = "fetch" /\ <<t, w>> \notin cancelled
    /\ Release(t)
    /\ worker' = [worker EXCEPT ![<<t, w>>] = "failed"]
    /\ chunk' = [chunk EXCEPT ![<<t, w>>] = 0]
    /\ ready' = [ready EXCEPT ![t] = TRUE]
    /\ UNCHANGED <<pc, launch, cancelled, work, received, next, outcome>>

\* The CancelledError arrives.
Cancelled(t, w) ==
    /\ <<t, w>> \in cancelled
    /\ cancelled' = cancelled \ {<<t, w>>}
    /\ worker' = [worker EXCEPT ![<<t, w>>] = "done"]
    /\ chunk' = [chunk EXCEPT ![<<t, w>>] = 0]
    /\ IF worker[<<t, w>>] = "fetch" THEN Release(t) ELSE UNCHANGED slots
    /\ UNCHANGED <<pc, launch, work, received, next, ready, outcome>>

Work(t, w) == Acquire(t, w) \/ Fetched(t, w) \/ FetchFails(t, w) \/ Cancelled(t, w)

----------------------------------------------------------------------------
(* get_file() *)

CancelWorkers(t) ==
    cancelled' = cancelled \cup {<<t, w>> : w \in {v \in Workers : ~Over(t, v)}}

Start(t) ==
    /\ pc[t] = "idle"
    /\ pc' = [pc EXCEPT ![t] = "first"]
    /\ UNCHANGED <<launch, tasks, received, next, ready, slots, outcome>>

\* _drop_prefetch(): a _launch() that waits is cancelled, and pool_task with
\* it; workers are cancelled and waited for.
Drop(t, how) ==
    /\ pc' = [pc EXCEPT ![t] = "drop"]
    /\ outcome' = [outcome EXCEPT ![t] = how]
    /\ launch' = [launch EXCEPT ![t] = IF @ = "wait" THEN "cancelled" ELSE @]
    /\ CancelWorkers(t)
    /\ UNCHANGED <<worker, chunk, work, received, next, ready, slots>>

Dropped(t) ==
    /\ pc[t] = "drop" /\ \A w \in Workers : Over(t, w)
    /\ pc' = [pc EXCEPT ![t] = "closed"]
    /\ ReleaseAll(t)
    /\ UNCHANGED <<launch, tasks, received, next, ready, outcome>>

\* The first request has an answer, or fails or is cancelled.
First(t) ==
    /\ pc[t] = "first"
    /\ \/ /\ pc' = [pc EXCEPT ![t] = "given"]
          /\ UNCHANGED <<launch, tasks, received, next, ready, slots, outcome>>
       \/ Drop(t, "raised")

\* await pending: it is over at once when _launch() is, and raises what that
\* raised.
AwaitLaunch(t) ==
    /\ pc' = [pc EXCEPT ![t] = CASE launch[t] = "wait"   -> "pending"
                                 [] launch[t] = "done"   -> "loop"
                                 [] launch[t] = "failed" -> "closed"]
    /\ outcome' = [outcome EXCEPT ![t] = IF launch[t] = "failed" THEN "raised" ELSE @]

\* The consumer has the first chunk and goes on.
Second(t) ==
    /\ pc[t] = "given"
    /\ \/ ~Full(t, 0) /\ Drop(t, "returned")
       \/ /\ Full(t, 0)
          /\ next' = [next EXCEPT ![t] = 1]
          /\ AwaitLaunch(t)
          /\ UNCHANGED <<launch, tasks, received, ready, slots>>

Pending(t) ==
    /\ pc[t] = "pending" /\ launch[t] # "wait"
    /\ AwaitLaunch(t)
    /\ UNCHANGED <<launch, tasks, received, next, ready, slots>>

\* The finally of the loop: workers are cancelled and not waited for.  What a
\* stream has received goes with it.
Close(t, how) ==
    /\ pc' = [pc EXCEPT ![t] = "closed"]
    /\ outcome' = [outcome EXCEPT ![t] = how]
    /\ CancelWorkers(t)
    /\ ReleaseAll(t)
    /\ received' = [received EXCEPT ![t] = IF t \in Files THEN @ ELSE {}]
    /\ ready' = [ready EXCEPT ![t] = FALSE]
    /\ UNCHANGED <<launch, worker, chunk, work, next>>

Failed(t) == \E w \in Workers : worker[<<t, w>>] = "failed"
AllOver(t) == \A w \in Workers : Over(t, w)

\* Mutant: whether all workers have ended is looked at first.
LoopEndsEarly(t) ==
    IF AllOver(t) THEN Close(t, "returned") ELSE
    IF Failed(t) THEN Close(t, "raised") ELSE
        /\ pc' = [pc EXCEPT ![t] = "wait"]
        /\ UNCHANGED <<launch, tasks, received, next, ready, slots, outcome>>

LoopEnds(t) ==
    IF Failed(t) THEN Close(t, "raised") ELSE
    IF AllOver(t) THEN Close(t, "returned") ELSE
        /\ pc' = [pc EXCEPT ![t] = "wait"]
        /\ UNCHANGED <<launch, tasks, received, next, ready, slots, outcome>>

Loop(t) ==
    /\ pc[t] = "loop"
    /\ IF t \in Files
       THEN IF received[t] = Chunks THEN Close(t, "returned") ELSE LoopEnds(t)
       ELSE IF next[t] \in received[t]
       THEN /\ pc' = [pc EXCEPT ![t] = "yield"]
            /\ received' = [received EXCEPT ![t] = @ \ {next[t]}]
            /\ Release(t)
            /\ UNCHANGED <<launch, tasks, next, ready, outcome>>
       ELSE LoopEnds(t)

\* A file is looked at every half second, and yields nothing.
Wake(t) ==
    /\ pc[t] = "wait"
    /\ ready[t] \/ t \in Files
    /\ ready' = [ready EXCEPT ![t] = FALSE]
    /\ pc' = [pc EXCEPT ![t] = IF t \in Files THEN "yield" ELSE "loop"]
    /\ UNCHANGED <<launch, tasks, received, next, slots, outcome>>

\* The consumer asks for more.
More(t) ==
    /\ pc[t] = "yield"
    /\ IF t \in Files
       THEN pc' = [pc EXCEPT ![t] = "loop"]
            /\ UNCHANGED <<launch, tasks, received, next, ready, slots, outcome>>
       ELSE IF Full(t, next[t]) /\ next[t] < Last
       THEN /\ pc' = [pc EXCEPT ![t] = "loop"]
            /\ next' = [next EXCEPT ![t] = @ + 1]
            /\ UNCHANGED <<launch, tasks, received, ready, slots, outcome>>
       ELSE Close(t, "returned")

\* The consumer closes the generator, or its task is cancelled.  Nothing
\* guards the await of the launched workers, nor that of dropped ones.
Leave(t) ==
    \/ pc[t] = "given" /\ Drop(t, "left")
    \/ pc[t] \in {"wait", "yield"} /\ Close(t, "left")
    \/ /\ pc[t] \in {"pending", "drop"}
       /\ pc' = [pc EXCEPT ![t] = "closed"]
       /\ outcome' = [outcome EXCEPT ![t] = IF launch[t] = "done" THEN "orphaned" ELSE "left"]
       /\ launch' = [launch EXCEPT ![t] = IF @ = "wait" THEN "cancelled" ELSE @]
       /\ UNCHANGED <<tasks, received, next, ready, slots>>

Read(t) ==
    \/ First(t) \/ Second(t) \/ Pending(t) \/ Loop(t) \/ Wake(t) \/ More(t)
    \/ Dropped(t) \/ Launch(t)

Terminated ==
    /\ \A t \in Transfers : pc[t] = "closed" /\ \A w \in Workers : ~ENABLED Work(t, w)
    /\ UNCHANGED vars

Next ==
    \/ \E t \in Transfers : Start(t) \/ Read(t) \/ Leave(t)
    \/ \E t \in Transfers, w \in Workers : Work(t, w)
    \/ Terminated

\* Requests end, the consumer asks for more or leaves, and the semaphore is
\* first come, first served.
Fairness ==
    /\ \A t \in Transfers : WF_vars(Read(t))
    /\ \A t \in Transfers, w \in Workers : WF_vars(Work(t, w)) /\ SF_vars(Acquire(t, w))

Spec == Init /\ [][Next]_vars /\ Fairness

----------------------------------------------------------------------------
Fetching(t) == {w \in Workers : worker[<<t, w>>] = "fetch"}

\* The slots that transfers hold, each as its transfer and a number.
Taken == {s \in Transfers \X (1..Size) : s[2] <= held[s[1]]}

(***************************************************************************)
(* The slots that transfers hold and the free ones make up the budget, at  *)
(* any time: a worker that is cancelled after its transfer gave all slots  *)
(* back does not give one back again.  A slot stands for a request or for  *)
(* a chunk in memory, so that the read-ahead of all transfers is bounded,  *)
(* and a transfer that has ended holds none, unless it was cancelled in    *)
(* the moment its workers were launched, or while it waited for them.      *)
(***************************************************************************)
BudgetExact ==
    /\ TypeOK
    /\ free + Cardinality(Taken) = Size
    /\ \A t \in Transfers :
          IF pc[t] = "closed" /\ outcome[t] # "orphaned" THEN held[t] = 0
          ELSE held[t] = Cardinality(Fetching(t))
                         + (IF t \in Files THEN 0 ELSE Cardinality(received[t]))

(***************************************************************************)
(* A download that ends without an exception is complete: every chunk up   *)
(* to the end of the file was handed out or written, although requests     *)
(* fail, the file is shorter than its size says, and workers end at the    *)
(* first short chunk they meet.                                            *)
(***************************************************************************)
Complete ==
    \A t \in Transfers : pc[t] = "closed" /\ outcome[t] = "returned" /\ Full(t, 0) =>
        \A c \in Chunks : c <= Short[t] =>
            IF t \in Files THEN c \in received[t] ELSE c <= next[t]

(***************************************************************************)
(* Transfers that share the budget do not starve each other: each one ends *)
(* as long as consumers ask for more, unless slots were lost to one that   *)
(* was orphaned.                                                           *)
(***************************************************************************)
TransfersEnd ==
    \A t \in Transfers : pc[t] = "first" ~>
        (pc[t] = "closed" \/ \E s \in Transfers : outcome[s] = "orphaned")

=============================================================================
