---------------------------- MODULE HybridStorage --------------------------
(***************************************************************************)
(* pyrogram/storage/hybrid_storage.py: a local store in front of a backend *)
(* to which a background writer mirrors every write through a bounded      *)
(* queue.  A write is a key and a version; the value stored under a key is *)
(* the version last written, 0 for none.  Durable keys stand for session   *)
(* attributes and update states, Cache keys for peers and usernames.  The  *)
(* local store is the in-memory one; the backend is external and may fail  *)
(* any write.                                                              *)
(***************************************************************************)
EXTENDS Naturals, Sequences, FiniteSets

CONSTANTS
    Durable, Cache,  \* keys
    QueueMax,        \* queue_size
    MaxWrites,       \* bound on the writes of a behaviour
    None,
    Stop             \* the (None, None) that close() puts into the queue

VARIABLES
    phase,       \* where open() and close() are
    local,       \* the local store
    backend,     \* the backend
    queue,       \* _queue
    unfinished,  \* the queue's count of unfinished tasks, for join()
    writer,      \* where the _writer task is suspended, "off" if there is none
    inflight,    \* the write the writer has taken, or None
    closing,     \* _closing
    dropped,     \* _dropped
    writes,      \* history: writes so far
    lost,        \* history: keys of writes discarded while the storage is open
    failed,      \* history: the backend has failed a write
    purged       \* history: delete() was called since open()

history == <<writes, lost, failed, purged>>
vars == <<phase, local, backend, queue, unfinished, writer, inflight, closing,
          dropped, writes, lost, failed, purged>>

Keys == Durable \cup Cache
Write == [key : Keys, version : 1..MaxWrites]

ASSUME StorageAssumption ==
    /\ Durable \cap Cache = {}
    /\ QueueMax \in Nat \ {0}
    /\ MaxWrites \in Nat
    /\ None \notin Write /\ Stop \notin Write /\ None # Stop

TypeOK ==
    /\ phase \in {"closed", "open", "flushing", "stopping"}
    /\ local \in [Keys -> 0..MaxWrites] /\ backend \in [Keys -> 0..MaxWrites]
    /\ queue \in Seq(Write \cup {Stop}) /\ Len(queue) <= QueueMax
    /\ unfinished \in Nat
    /\ writer \in {"off", "get", "apply", "sleep", "done"}
    /\ inflight \in Write \cup {None}
    /\ closing \in BOOLEAN
    /\ dropped \in Nat
    /\ writes \in 0..MaxWrites /\ lost \subseteq Keys
    /\ failed \in BOOLEAN /\ purged \in BOOLEAN

Init ==
    /\ phase = "closed"
    /\ local = [k \in Keys |-> 0] /\ backend = [k \in Keys |-> 0]
    /\ queue = <<>> /\ unfinished = 0
    /\ writer = "off" /\ inflight = None
    /\ closing = FALSE /\ dropped = 0
    /\ writes = 0 /\ lost = {} /\ failed = FALSE /\ purged = FALSE

----------------------------------------------------------------------------
\* Mutant: _closing stays set after a close().
OpenClosing ==
    /\ phase = "closed"
    /\ phase' = "open"
    /\ local' = backend
    /\ writer' = "get"
    /\ purged' = FALSE
    /\ UNCHANGED <<backend, queue, unfinished, inflight, closing, dropped, writes,
                   lost, failed>>

\* open(): the backend is copied into a fresh local store.
Open ==
    /\ phase = "closed"
    /\ phase' = "open"
    /\ local' = backend
    /\ closing' = FALSE
    /\ writer' = "get"
    /\ purged' = FALSE
    /\ UNCHANGED <<backend, queue, unfinished, inflight, dropped, writes, lost,
                   failed>>

\* Mutant: the oldest write of any kind is the victim.
VictimOldest == 1

\* _make_room(): the oldest write that may be dropped, else the oldest.
Victim ==
    LET spare == {i \in 1..Len(queue) : queue[i].key \in Cache}
    IN  IF spare = {} THEN 1
        ELSE CHOOSE i \in spare : \A j \in spare : i <= j

Without(i) == SubSeq(queue, 1, i - 1) \o SubSeq(queue, i + 1, Len(queue))

\* Mutant: _make_room() marks only the victim as done.
MakeRoomUnbalanced(w) ==
    /\ queue' = Append(Without(Victim), w)
    /\ unfinished' = unfinished + Len(queue) - 1
    /\ dropped' = dropped + 1
    /\ lost' = lost \cup {queue[Victim].key}

\* _make_room(): everything is taken out, marked as done and, except for the
\* victim, put back; then there is room for w.
MakeRoom(w) ==
    /\ queue' = Append(Without(Victim), w)
    /\ unfinished' = unfinished + (Len(queue) - 1) - Len(queue) + 1
    /\ dropped' = dropped + 1
    /\ lost' = lost \cup {queue[Victim].key}

\* _enqueue()
Enqueue(w) ==
    IF closing THEN UNCHANGED <<queue, unfinished, dropped, lost>>
    ELSE IF Len(queue) < QueueMax
    THEN /\ queue' = Append(queue, w)
         /\ unfinished' = unfinished + 1
         /\ UNCHANGED <<dropped, lost>>
    ELSE MakeRoom(w)

\* update_peers(), update_usernames(), update_state(), a session attribute or
\* save(): the local store first, then the queue.
Update(k) ==
    /\ phase # "closed" /\ ~purged
    /\ writes < MaxWrites
    /\ writes' = writes + 1
    /\ local' = [local EXCEPT ![k] = writes + 1]
    /\ Enqueue([key |-> k, version |-> writes + 1])
    /\ UNCHANGED <<phase, backend, writer, inflight, closing, failed,
                   purged>>

----------------------------------------------------------------------------
(* _writer_loop() *)

Take ==
    /\ writer = "get" /\ queue # <<>>
    /\ queue' = Tail(queue)
    /\ IF Head(queue) = Stop
          THEN /\ writer' = "done"
               /\ unfinished' = unfinished - 1
               /\ UNCHANGED inflight
          ELSE /\ writer' = "apply"
               /\ inflight' = Head(queue)
               /\ UNCHANGED unfinished
    /\ UNCHANGED <<phase, local, backend, closing, dropped, history>>

ApplyOk ==
    /\ writer = "apply"
    /\ backend' = [backend EXCEPT ![inflight.key] = inflight.version]
    /\ writer' = "get"
    /\ inflight' = None
    /\ unfinished' = unfinished - 1
    /\ UNCHANGED <<phase, local, queue, closing, dropped, history>>

\* Mutant: the exception ends the writer.
ApplyFailsForGood ==
    /\ writer = "apply"
    /\ writer' = "done"
    /\ failed' = TRUE
    /\ UNCHANGED <<phase, local, backend, queue, unfinished, inflight, closing,
                   dropped, writes, lost, purged>>

\* "Hybrid storage backend write failed, retrying"
ApplyFails ==
    /\ writer = "apply"
    /\ writer' = "sleep"
    /\ failed' = TRUE
    /\ UNCHANGED <<phase, local, backend, queue, unfinished, inflight, closing,
                   dropped, writes, lost, purged>>

\* The write goes back to the end of the queue, if there is room there.
Requeue ==
    /\ writer = "sleep"
    /\ writer' = "get"
    /\ inflight' = None
    /\ IF Len(queue) < QueueMax
          THEN /\ queue' = Append(queue, inflight)
               /\ UNCHANGED <<unfinished, lost>>
          ELSE /\ lost' = lost \cup {inflight.key}
               /\ unfinished' = unfinished - 1
               /\ UNCHANGED queue
    /\ UNCHANGED <<phase, local, backend, closing, dropped, writes, failed,
                   purged>>

----------------------------------------------------------------------------
(* close() and delete() *)

CloseBegin ==
    /\ phase = "open"
    /\ phase' = "flushing"
    /\ UNCHANGED <<local, backend, queue, unfinished, writer, inflight, closing,
                   dropped, history>>

\* What is left of the work is given up and counted.
GiveUp ==
    /\ phase' = "closed"
    /\ closing' = TRUE
    /\ IF writer = "off"
          THEN UNCHANGED <<queue, unfinished, writer, inflight, dropped>>
          ELSE /\ queue' = <<>>
               /\ unfinished' = 0
               /\ writer' = "off"
               /\ inflight' = None
               /\ dropped' = dropped + (IF inflight # None THEN 1 ELSE 0)
                     + Cardinality({i \in 1..Len(queue) : queue[i] # Stop})
    /\ UNCHANGED <<local, backend, history>>

\* flush() has seen the queue joined; the writer is told to end.
FlushDone ==
    /\ phase = "flushing" /\ unfinished = 0
    /\ IF writer = "off"
          THEN GiveUp
          ELSE /\ phase' = "stopping"
               /\ closing' = TRUE
               /\ queue' = Append(queue, Stop)
               /\ unfinished' = unfinished + 1
               /\ UNCHANGED <<local, backend, writer, inflight, dropped, history>>

\* Mutant: flush() waits for ever.
FlushForever ==
    /\ phase = "flushing" /\ unfinished > 0 /\ writer = "done"
    /\ GiveUp

\* "Hybrid storage still had %s writes queued": no time is left to wait for
\* the writer, which is cancelled.
FlushTimeout ==
    /\ phase = "flushing" /\ unfinished > 0
    /\ GiveUp

\* The writer has ended, or the time is up and it is cancelled.
Stopped ==
    /\ phase = "stopping"
    /\ GiveUp

\* Mutant: the writer keeps what it has taken.
DeleteBesideWriter ==
    /\ phase \in {"open", "closed"}
    /\ queue' = <<>> /\ unfinished' = unfinished - Len(queue)
    /\ backend' = [k \in Keys |-> 0] /\ local' = [k \in Keys |-> 0]
    /\ purged' = TRUE
    /\ UNCHANGED <<phase, writer, inflight, closing, dropped, writes, lost, failed>>

\* delete(): the writer is cancelled and what is queued goes with the rest.
Delete ==
    /\ phase \in {"open", "closed"}
    /\ writer' = "off" /\ inflight' = None
    /\ queue' = <<>> /\ unfinished' = 0
    /\ backend' = [k \in Keys |-> 0] /\ local' = [k \in Keys |-> 0]
    /\ purged' = TRUE
    /\ UNCHANGED <<phase, closing, dropped, writes, lost, failed>>

Next ==
    \/ Open
    \/ \E k \in Keys : Update(k)
    \/ Take
    \/ ApplyOk
    \/ ApplyFails
    \/ Requeue
    \/ CloseBegin
    \/ FlushDone
    \/ FlushTimeout
    \/ Stopped
    \/ Delete

(***************************************************************************)
(* The writer task goes on, a backend that fails while the client runs is  *)
(* not gone for ever, and flush() and the wait for the writer have a       *)
(* timeout.                                                                *)
(***************************************************************************)
Fairness ==
    /\ WF_vars(Take)
    /\ SF_vars(ApplyOk /\ phase = "open")
    /\ WF_vars(Requeue)
    /\ WF_vars(FlushDone \/ FlushTimeout)
    /\ WF_vars(Stopped)

Spec == Init /\ [][Next]_vars /\ Fairness

----------------------------------------------------------------------------
(***************************************************************************)
(* The queue's own count agrees with what is queued or in flight, through  *)
(* _make_room(), which empties and refills the queue, retries and the      *)
(* sentinel.  join() in flush() waits for the count to be 0: too high and  *)
(* every close() takes its full timeout, too low and it returns early.     *)
(***************************************************************************)
JoinExact ==
    /\ TypeOK
    /\ unfinished = Len(queue) + (IF inflight # None THEN 1 ELSE 0)

(***************************************************************************)
(* As long as the backend has failed no write and none was discarded, a    *)
(* drained queue means that the backend has what the local store has.      *)
(***************************************************************************)
Idle == phase = "open" /\ writer = "get" /\ queue = <<>>
MirroredIfUndisturbed == Idle /\ ~failed /\ lost = {} => backend = local

(***************************************************************************)
(* A session attribute or an update state gives way to a new write only    *)
(* when nothing else is queued.                                            *)
(***************************************************************************)
DurableLast ==
    [][\A k \in Durable : k \in lost' \ lost /\ dropped' # dropped =>
          \A i \in 1..Len(queue) : queue[i].key \in Durable]_vars

(***************************************************************************)
(* After delete() the session stays deleted: no queued, in-flight or       *)
(* retried write puts it back.                                             *)
(***************************************************************************)
PurgeFinal == purged => \A k \in Keys : backend[k] = 0

\* Every write is given up or done with in the end: a queue does not stay
\* filled, whatever the backend fails on the way.
Drains == unfinished > 0 ~> unfinished = 0

\* close() comes to an end although the backend may be gone.
CloseReturns == phase = "flushing" ~> phase = "closed"

=============================================================================
