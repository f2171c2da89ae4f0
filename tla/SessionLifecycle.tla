------------------------- MODULE SessionLifecycle --------------------------
(***************************************************************************)
(* How the tasks of one pyrogram/session/session.py Session start, stop    *)
(* and restart its connection.  Every task is a process whose pc is the    *)
(* await it is suspended at; a step runs to its next await, as asyncio     *)
(* does.  The tasks are:                                                   *)
(*   Owner       the caller of start(), which retries without limit;       *)
(*   Closer      the caller of stop();                                     *)
(*   Caller      an _invoke() that finds the session down, or gets no      *)
(*               answer, and calls restart();                              *)
(*   Background  the _safe_restart() that _teardown() leaves behind;       *)
(*   c in Conns  the recv_worker started with connection c, which restarts *)
(*               the session itself when its connection fails.             *)
(* A connection, its recv_worker and its ping_worker carry the same name;  *)
(* a name is used again once nothing refers to it.                         *)
(***************************************************************************)
EXTENDS FiniteSets, Naturals

CONSTANTS
    Conns,        \* names for connections and their tasks
    Owner, Closer, Caller, Background,
    None,         \* Python's None
    MaxAttempts,  \* Session.MAX_RETRIES, the limit restart() gives start()
    BrokenAnytime \* may a broken packet arrive while a start is in progress?

ASSUME LifecycleAssumption ==
    /\ Owner \notin {Closer, Caller, Background, None}
    /\ Closer \notin {Caller, Background, None}
    /\ Caller \notin {Background, None}
    /\ Background # None
    /\ {Owner, Closer, Caller, Background, None} \cap Conns = {}
    /\ MaxAttempts \in Nat \ {0}
    /\ BrokenAnytime \in BOOLEAN

Procs == Conns \cup {Owner, Closer, Caller, Background}

VARIABLES
    pc,          \* where each task is suspended
    ret,         \* what a task does after the _stop() it is in
    ref,         \* the task or connection a task has hold of while it waits
    attempts,    \* attempts of each task's start(); not counted for Owner,
                 \* whose start() has no limit
    cancelled,   \* tasks with a pending CancelledError
    started,     \* Session.is_started
    stopping,    \* Session._stopping
    closed,      \* Session._closed
    teardown,    \* Session._teardown_started
    startActive, \* Session._start_active
    lock,        \* holder of Session._restart_lock
    connection,  \* Session.connection
    open,        \* connections whose socket is open
    recvTask,    \* Session.recv_task
    pingTask,    \* Session.ping_task
    ping         \* the state of each ping_worker

procs == <<pc, ret, ref, attempts, cancelled>>
flags == <<started, stopping, closed, teardown, startActive, lock>>
links == <<connection, open, recvTask, pingTask, ping>>
vars == <<pc, ret, ref, attempts, cancelled, started, stopping, closed,
          teardown, startActive, lock, connection, open, recvTask, pingTask,
          ping>>

TypeOK ==
    /\ pc \in [Procs -> {"new", "idle", "done", "reading", "spawned", "lockwait",
                         "ping", "recv", "close", "unhook",
                         "connect", "handshake", "answered", "hook",
                         "backoff"}]
    /\ ret \in [Procs -> {"none", "stop", "restart", "retry", "fatal", "late"}]
    /\ ref \in [Procs -> Conns \cup {None}]
    /\ attempts \in [Procs -> 0..MaxAttempts]
    /\ cancelled \subseteq Conns
    /\ {started, stopping, closed, teardown, startActive} \subseteq BOOLEAN
    /\ lock \in Procs \cup {None}
    /\ connection \in Conns \cup {None} /\ open \subseteq Conns
    /\ recvTask \in Conns \cup {None}
    /\ pingTask \in Conns \cup {None}
    /\ ping \in [Conns -> {"none", "run", "ending"}]

Init ==
    /\ pc = [p \in Procs |-> IF p = Owner THEN "new" ELSE
                             IF p \in Conns THEN "done" ELSE "idle"]
    /\ ret = [p \in Procs |-> "none"]
    /\ ref = [p \in Procs |-> None]
    /\ attempts = [p \in Procs |-> 0]
    /\ cancelled = {}
    /\ started = FALSE /\ stopping = FALSE /\ closed = FALSE
    /\ teardown = FALSE /\ startActive = FALSE /\ lock = None
    /\ connection = None /\ open = {}
    /\ recvTask = None /\ pingTask = None
    /\ ping = [c \in Conns |-> "none"]

----------------------------------------------------------------------------
Resting(p) == pc[p] \in {"new", "idle", "done", "reading"}

\* Where a task is once the coroutine it ran has returned or raised.
Rest(p) == IF p \in Conns THEN "done" ELSE "idle"

\* Mutant: the lock is released but _restart_done is not set.
LeaveSilently(p) ==
    /\ pc' = [pc EXCEPT ![p] = Rest(p)]
    /\ ret' = [ret EXCEPT ![p] = "none"]
    /\ ref' = [ref EXCEPT ![p] = None]
    /\ attempts' = [attempts EXCEPT ![p] = 0]
    /\ cancelled' = cancelled \ {p}
    /\ lock' = IF lock = p THEN None ELSE lock

\* p leaves restart() or start(): the lock is released, _restart_done is set
\* and everyone waiting for it goes on.
Leave(p) ==
    LET woken == {p} \cup (IF lock = p THEN {q \in Procs : pc[q] = "lockwait"}
                                       ELSE {})
    IN  /\ pc' = [q \in Procs |-> IF q \in woken THEN Rest(q) ELSE pc[q]]
        /\ ret' = [ret EXCEPT ![p] = "none"]
        /\ ref' = [ref EXCEPT ![p] = None]
        /\ attempts' = [attempts EXCEPT ![p] = 0]
        /\ cancelled' = cancelled \ woken
        /\ lock' = IF lock = p THEN None ELSE lock

\* Mutant: start() leaves _start_active set.
LeaveStartActive(p) == Leave(p) /\ startActive' = startActive

\* The same out of start(), whose finally marks the start as completed.
LeaveStart(p) == Leave(p) /\ startActive' = FALSE

\* The head of _stop(), up to the await of ping_task.
BeginStop(p, why) ==
    /\ started' = FALSE
    /\ stopping' = TRUE
    /\ pc' = [pc EXCEPT ![p] = "ping"]
    /\ ret' = [ret EXCEPT ![p] = why]

EndPings == ping' = [c \in Conns |-> IF ping[c] = "run" THEN "ending"
                                                        ELSE ping[c]]

\* A name whose socket is closed and whose tasks are over can stand for the
\* next connection: a reference to a finished task is as good as None.
Free(c) ==
    /\ c \notin open
    /\ pc[c] = "done" /\ ping[c] = "none"
    /\ \A p \in Procs : ref[p] # c

\* The head of the loop in start(): a fresh connection object.
BeginAttempt(p) ==
    /\ \E c \in Conns : Free(c)
    /\ LET c == CHOOSE x \in Conns : Free(x)
       IN  connection' = c /\ ref' = [ref EXCEPT ![p] = c]
    /\ pc' = [pc EXCEPT ![p] = "connect"]
    /\ attempts' = [attempts EXCEPT ![p] = IF p = Owner THEN @ ELSE @ + 1]
    /\ stopping' = FALSE
    /\ teardown' = FALSE

----------------------------------------------------------------------------
(* start() *)

OwnerStart ==
    /\ pc[Owner] = "new"
    /\ IF closed
          THEN LeaveStart(Owner) /\ UNCHANGED <<stopping, teardown, connection>>
          ELSE /\ BeginAttempt(Owner)
               /\ startActive' = TRUE
               /\ UNCHANGED <<ret, cancelled, lock>>
    /\ UNCHANGED <<started, closed, open, recvTask, pingTask, ping>>

\* connect() succeeds, whether or not somebody closed the object meanwhile.
ConnectOk(p) ==
    /\ pc[p] = "connect" /\ p \notin cancelled
    /\ open' = open \cup {ref[p]}
    /\ recvTask' = ref[p]
    /\ pc' = [pc EXCEPT ![p] = "handshake", ![ref[p]] = "reading"]
    /\ UNCHANGED <<ret, ref, attempts, cancelled, flags, connection, pingTask,
                   ping>>

\* The ping and InitConnection are answered over the current connection.
Answered(p) ==
    /\ pc[p] = "handshake" /\ p \notin cancelled
    /\ connection \in open /\ ~teardown
    /\ \E c \in Conns : pc[c] = "reading"
    /\ pc' = [pc EXCEPT ![p] = "answered"]
    /\ UNCHANGED <<ret, ref, attempts, cancelled, flags, links>>

\* OSError, TimeoutError, a 5xx or a FloodWait: stop, then maybe try again.
TryFails(p) ==
    /\ pc[p] \in {"connect", "handshake"} /\ p \notin cancelled
    /\ BeginStop(p, "retry")
    /\ EndPings
    /\ ref' = [ref EXCEPT ![p] = pingTask]
    /\ UNCHANGED <<attempts, cancelled, closed, teardown, startActive, lock,
                   connection, open, recvTask, pingTask>>

\* Any other RPCError ends the start; so does a cancellation.
TryRefused(p) ==
    /\ \/ pc[p] = "handshake" /\ p \notin cancelled /\ cancelled' = cancelled
       \/ /\ pc[p] \in {"connect", "handshake", "answered"}
          /\ p \in cancelled
          /\ cancelled' = cancelled \ {p}
    /\ BeginStop(p, "fatal")
    /\ EndPings
    /\ ref' = [ref EXCEPT ![p] = pingTask]
    /\ UNCHANGED <<attempts, closed, teardown, startActive, lock, connection,
                   open, recvTask, pingTask>>

\* Mutant: stop() during the handshake goes unnoticed.
ResumeUnchecked(p) ==
    /\ pc[p] = "answered" /\ p \notin cancelled
    /\ pingTask' = ref[p]
    /\ started' = TRUE
    /\ startActive' = FALSE
    /\ ping' = [ping EXCEPT ![ref[p]] = "run"]
    /\ pc' = [pc EXCEPT ![p] = "hook"]
    /\ UNCHANGED <<stopping, ret, ref, attempts, cancelled, closed, teardown,
                   lock, connection, open, recvTask>>

\* start() resumes with both answers: the ping task, the check of _closed.
Resume(p) ==
    /\ pc[p] = "answered" /\ p \notin cancelled
    /\ pingTask' = ref[p]
    /\ IF closed
          THEN /\ BeginStop(p, "late")
               /\ ping' = [c \in Conns |-> IF c = ref[p] \/ ping[c] = "run"
                                              THEN "ending" ELSE ping[c]]
               /\ UNCHANGED startActive
          ELSE /\ started' = TRUE
               /\ startActive' = FALSE
               /\ ping' = [ping EXCEPT ![ref[p]] = "run"]
               /\ pc' = [pc EXCEPT ![p] = "hook"]
               /\ UNCHANGED <<stopping, ret>>
    /\ UNCHANGED <<ref, attempts, cancelled, closed, teardown, lock,
                   connection, open, recvTask>>

\* connect_handler has returned; a cancellation in it is only logged.
HookDone(p) ==
    /\ pc[p] = "hook"
    /\ Leave(p)
    /\ UNCHANGED <<started, stopping, closed, teardown, startActive, links>>

BackoffEnds(p) ==
    /\ pc[p] = "backoff"
    /\ IF closed \/ p \in cancelled
          THEN LeaveStart(p) /\ UNCHANGED <<stopping, teardown, connection>>
          ELSE BeginAttempt(p) /\ UNCHANGED <<ret, cancelled, startActive, lock>>
    /\ UNCHANGED <<started, closed, open, recvTask, pingTask, ping>>

----------------------------------------------------------------------------
(* _stop() *)

PingEnds(c) ==
    /\ ping[c] = "ending"
    /\ ping' = [ping EXCEPT ![c] = "none"]
    /\ UNCHANGED <<procs, flags, connection, open, recvTask, pingTask>>

\* The ping task is over, or the wait for it was cancelled and went on.
StopRecvTask(p) ==
    /\ pc[p] = "ping"
    /\ ref[p] # None /\ p \notin cancelled => ping[ref[p]] = "none"
    /\ IF recvTask # None /\ recvTask # p
          THEN /\ pc' = [pc EXCEPT ![p] = "recv"]
               /\ ref' = [ref EXCEPT ![p] = recvTask]
               /\ cancelled' = (cancelled \ {p}) \cup
                                 (IF pc[recvTask] = "done" THEN {} ELSE {recvTask})
          ELSE /\ pc' = [pc EXCEPT ![p] = "close"]
               /\ ref' = [ref EXCEPT ![p] = connection]
               /\ cancelled' = cancelled \ {p}
    /\ UNCHANGED <<ret, attempts, flags, links>>

\* The receive task is over: on to the window, then connection.close().
StopClose(p) ==
    /\ pc[p] = "recv"
    /\ p \notin cancelled => pc[ref[p]] = "done"
    /\ pc' = [pc EXCEPT ![p] = "close"]
    /\ ref' = [ref EXCEPT ![p] = connection]
    /\ cancelled' = cancelled \ {p}
    /\ UNCHANGED <<ret, attempts, flags, links>>

\* The connection is closed, pending requests have failed.
Closed(p) ==
    /\ pc[p] = "close" /\ p \notin cancelled
    /\ open' = open \ {ref[p]}
    /\ pc' = [pc EXCEPT ![p] = "unhook"]
    /\ ref' = [ref EXCEPT ![p] = None]
    /\ UNCHANGED <<ret, attempts, cancelled, flags, connection, recvTask,
                   pingTask, ping>>

\* A cancellation during connection.close() is not caught in _stop(): it
\* leaves the start() or restart() around it.  The socket is closed at once,
\* only the wait for it is given up.
CloseCancelled(p) ==
    /\ pc[p] = "close" /\ p \in cancelled
    /\ open' = open \ {ref[p]}
    /\ IF ret[p] = "restart" THEN Leave(p) /\ UNCHANGED startActive
                             ELSE LeaveStart(p)
    /\ UNCHANGED <<started, stopping, closed, teardown, connection, recvTask,
                   pingTask, ping>>

\* Owner gave start() no limit, restart() gives it MAX_RETRIES.
MayRetry(p) == p = Owner \/ attempts[p] < MaxAttempts

\* disconnect_handler has returned: back to whoever called _stop().
Stopped(p) ==
    /\ pc[p] = "unhook"
    /\ CASE ret[p] = "stop" ->
              /\ Leave(p)
              /\ UNCHANGED <<stopping, teardown, startActive, connection>>
         [] ret[p] = "restart" /\ closed ->
              /\ Leave(p)
              /\ UNCHANGED <<stopping, teardown, startActive, connection>>
         [] ret[p] = "restart" /\ ~closed ->
              /\ BeginAttempt(p)
              /\ startActive' = TRUE
              /\ cancelled' = cancelled \ {p}
              /\ UNCHANGED <<ret, lock>>
         [] ret[p] = "retry" /\ ~closed /\ MayRetry(p) ->
              /\ pc' = [pc EXCEPT ![p] = "backoff"]
              /\ cancelled' = cancelled \ {p}
              /\ UNCHANGED <<ret, ref, attempts, stopping, teardown,
                             startActive, lock, connection>>
         [] OTHER ->
              /\ LeaveStart(p)
              /\ UNCHANGED <<stopping, teardown, connection>>
    /\ UNCHANGED <<started, closed, open, recvTask, pingTask, ping>>

----------------------------------------------------------------------------
(* stop() and restart() *)

Stop ==
    /\ pc[Closer] = "idle" /\ ~closed
    /\ closed' = TRUE
    /\ BeginStop(Closer, "stop")
    /\ EndPings
    /\ ref' = [ref EXCEPT ![Closer] = pingTask]
    /\ UNCHANGED <<attempts, cancelled, teardown, startActive, lock,
                   connection, open, recvTask, pingTask>>

\* Mutant: a second restart() runs beside the first.
RestartUnlocked(p) ==
    IF closed
    THEN Leave(p) /\ UNCHANGED <<started, stopping, ping>>
    ELSE /\ lock' = p
         /\ BeginStop(p, "restart")
         /\ EndPings
         /\ ref' = [ref EXCEPT ![p] = pingTask]
         /\ UNCHANGED <<attempts, cancelled>>

\* restart(): a second one waits for the first and does nothing itself.
Restart(p) ==
    IF closed
    THEN Leave(p) /\ UNCHANGED <<started, stopping, ping>>
    ELSE IF lock # None
    THEN /\ pc' = [pc EXCEPT ![p] = "lockwait"]
         /\ UNCHANGED <<ret, ref, attempts, cancelled, lock, started, stopping,
                        ping>>
    ELSE /\ lock' = p
         /\ BeginStop(p, "restart")
         /\ EndPings
         /\ ref' = [ref EXCEPT ![p] = pingTask]
         /\ UNCHANGED <<attempts, cancelled>>

WaitCancelled(p) ==
    /\ pc[p] = "lockwait" /\ p \in cancelled
    /\ Leave(p)
    /\ UNCHANGED <<started, stopping, closed, teardown, startActive, links>>

\* _invoke(): the session is down and nobody is starting it, or it does not
\* answer.
CallerRestart ==
    /\ pc[Caller] = "idle" /\ pc[Owner] # "new" /\ ~closed
    /\ started \/ ~startActive
    /\ Restart(Caller)
    /\ UNCHANGED <<closed, teardown, startActive, connection, open, recvTask,
                   pingTask>>

\* recv_worker: the read fails or brings a transport error.
RecvFails(c) ==
    /\ pc[c] = "reading" /\ c \notin cancelled
    /\ IF started
          THEN Restart(c)
          ELSE /\ pc' = [pc EXCEPT ![c] = "done"]
               /\ UNCHANGED <<ret, ref, attempts, cancelled, started, stopping,
                              lock, ping>>
    /\ UNCHANGED <<closed, teardown, startActive, connection, open, recvTask,
                   pingTask>>

RecvCancelled(c) ==
    /\ pc[c] = "reading" /\ c \in cancelled
    /\ pc' = [pc EXCEPT ![c] = "done"]
    /\ cancelled' = cancelled \ {c}
    /\ UNCHANGED <<ret, ref, attempts, flags, links>>

\* Mutant: the packet is dropped and nothing is restarted.
BrokenPacketForgotten ==
    /\ ~teardown
    /\ connection \in open
    /\ \E c \in Conns : pc[c] = "reading"
    /\ pc[Background] = "idle"
    /\ started /\ lock = None /\ Resting(Owner)
    /\ teardown' = TRUE
    /\ UNCHANGED <<procs, started, stopping, closed, startActive, lock, links>>

\* handle_packet: a packet breaks the length or parity rules; _teardown().
BrokenPacket ==
    /\ ~teardown
    /\ connection \in open
    /\ \E c \in Conns : pc[c] = "reading"
    /\ pc[Background] = "idle"
    /\ BrokenAnytime \/ (started /\ lock = None /\ Resting(Owner))
    /\ teardown' = TRUE
    /\ pc' = [pc EXCEPT ![Background] = "spawned"]
    /\ UNCHANGED <<ret, ref, attempts, cancelled, started, stopping, closed,
                   startActive, lock, links>>

BackgroundRestart ==
    /\ pc[Background] = "spawned"
    /\ Restart(Background)
    /\ UNCHANGED <<closed, teardown, startActive, connection, open, recvTask,
                   pingTask>>

Step(p) ==
    \/ ConnectOk(p)
    \/ Answered(p)
    \/ TryFails(p)
    \/ TryRefused(p)
    \/ Resume(p)
    \/ HookDone(p)
    \/ BackoffEnds(p)
    \/ StopRecvTask(p)
    \/ StopClose(p)
    \/ Closed(p)
    \/ CloseCancelled(p)
    \/ Stopped(p)
    \/ WaitCancelled(p)

Quiet == \A p \in Procs : Resting(p)

\* A stopped session stays where it is.
Terminated ==
    /\ closed /\ Quiet
    /\ UNCHANGED vars

Next ==
    \/ OwnerStart
    \/ Stop
    \/ CallerRestart
    \/ BrokenPacket
    \/ BackgroundRestart
    \/ \E c \in Conns : PingEnds(c) \/ RecvFails(c) \/ RecvCancelled(c)
    \/ \E p \in Procs : Step(p)
    \/ Terminated


\* Packets are read from the current connection.
Read == connection \in open /\ \E c \in Conns : pc[c] = "reading"
Working == started /\ Read /\ ~teardown

(***************************************************************************)
(* Every task runs on; the watchdog of the client keeps invoking, so a     *)
(* session found down, or silent for WAIT_TIMEOUT because nothing is read  *)
(* any more, is restarted by Caller; and the network does not defeat every *)
(* attempt for ever.                                                       *)
(***************************************************************************)
Fairness ==
    /\ WF_vars(OwnerStart)
    /\ WF_vars(CallerRestart /\ ~(started /\ Read))
    /\ WF_vars(BackgroundRestart)
    /\ \A c \in Conns : WF_vars(PingEnds(c)) /\ WF_vars(RecvCancelled(c))
    /\ \A p \in Procs : WF_vars(Step(p))
    /\ SF_vars(\E p \in Procs : ConnectOk(p))
    /\ SF_vars(\E p \in Procs : Answered(p))
    /\ SF_vars(\E p \in Procs : Resume(p) /\ Read)

Spec == Init /\ [][Next]_vars /\ Fairness

----------------------------------------------------------------------------
(***************************************************************************)
(* One socket, one reader: restarts by several tasks never leave a second  *)
(* connection open or a second recv_worker reading.                        *)
(***************************************************************************)
OneConnection ==
    /\ TypeOK
    /\ Cardinality(open) <= 1
    /\ Cardinality({c \in Conns : pc[c] = "reading"}) <= 1

(***************************************************************************)
(* "Discarding packet and closing connection": when the dust of a broken   *)
(* packet has settled its connection is closed or has been replaced.       *)
(***************************************************************************)
TeardownCloses == teardown /\ Quiet => connection \notin open

(***************************************************************************)
(* Once stop() was called the session never counts as started again, and   *)
(* when the last task involved has come to rest nothing it owned is left:  *)
(* no socket, no receive task and no ping task, however the stop fell into *)
(* a start or a restart.                                                   *)
(***************************************************************************)
StopIsFinal ==
    /\ closed => ~started
    /\ closed /\ Quiet /\ pc[Owner] # "new" =>
          /\ open = {}
          /\ \A c \in Conns : pc[c] = "done" /\ ping[c] = "none"

(***************************************************************************)
(* A session that lost its connection comes back to work unless it is      *)
(* stopped: also when restart() ran out of attempts, and when the          *)
(* connection fails between the last answer of the handshake and the       *)
(* moment start() sets is_started, where recv_worker does not restart it.  *)
(***************************************************************************)
Revives == ~Working ~> Working \/ closed

\* stop() always comes to an end: no task waits for one that waits for it.
StopEnds == closed ~> (Quiet /\ open = {})

=============================================================================
