----------------------- MODULE SessionLifecycleProofs ----------------------
(***************************************************************************)
(* The invariants of SessionLifecycle for any number of connections and    *)
(* attempts.  LifeInv says, for each await of start() and _stop(), what is *)
(* left of the old connection and what there is of the new one; the task   *)
(* at that await is, stop() apart, the only one at work.                   *)
(***************************************************************************)
EXTENDS SessionLifecycle, FiniteSetTheorems, TLAPS

\* The awaits of _stop() and of start().
Stopping == {"ping", "recv", "close", "unhook"}
Starting == {"connect", "handshake", "answered", "backoff"}
Busy == Stopping \cup Starting

\* p, which is not stop(), is in start() or in a _stop() of it or of restart().
Starter(p) == p # Closer /\ pc[p] \in Busy
At(p, places) == p # Closer /\ pc[p] \in places

\* No recv_worker reads; every ping_worker is over.
NoReader == \A c \in Conns : pc[c] # "reading"
NoPing == \A c \in Conns : ping[c] = "none"

\* The awaits each task can be at, and its attempts there.
Places ==
    /\ \A c \in Conns : pc[c] \in {"done", "reading", "lockwait", "hook"} \cup Busy
    /\ pc[Owner] \in {"new", "idle", "hook"} \cup Busy
    /\ pc[Closer] \in {"idle"} \cup Stopping
    /\ pc[Caller] \in {"idle", "lockwait", "hook"} \cup Busy
    /\ pc[Background] \in {"idle", "spawned", "lockwait", "hook"} \cup Busy
    /\ pc[Closer] # "idle" => closed /\ ret[Closer] = "stop"
    /\ attempts[Owner] = 0 /\ attempts[Closer] = 0
    /\ \A p \in Procs \ {Owner} :
          /\ pc[p] = "backoff" => attempts[p] < MaxAttempts
          /\ pc[p] \in Stopping /\ ret[p] = "restart" => attempts[p] = 0
          /\ pc[p] \notin Busy \cup {"hook"} => attempts[p] = 0

\* One task at a time starts or restarts the session; it holds the lock, or is
\* the owner's start(), beside which no restart() begins.
OneStarter ==
    /\ \A p, q \in Procs : Starter(p) /\ Starter(q) => p = q
    /\ lock # None => /\ lock \notin {Owner, Closer}
                      /\ pc[lock] \in Busy \cup {"hook"}
    /\ \A p \in Procs : Starter(p) =>
          /\ ~started
          /\ IF p = Owner THEN lock = None /\ startActive ELSE lock = p
    /\ closed => ~started

\* Before start() there is nothing; _teardown() happens only after it.
BeforeStart ==
    /\ pc[Owner] = "new" =>
          /\ lock = None /\ ~started /\ open = {} /\ NoPing
          /\ \A c \in Conns : pc[c] = "done"
          /\ pc[Background] = "idle"
    /\ pc[Background] = "spawned" => pc[Owner] = "idle"

\* The open socket is that of Session.connection, and none is open between the
\* close() of one and the connect() of the next.
Sockets ==
    /\ open \subseteq {connection}
    /\ \A p \in Procs :
          /\ At(p, {"connect", "handshake", "answered"}) =>
                ref[p] = connection /\ ref[p] \in Conns \ {p}
          /\ At(p, {"close"}) => ref[p] = connection
          /\ At(p, {"unhook", "backoff", "connect"}) => open = {}
          /\ At(p, {"connect"}) => pc[ref[p]] = "done"

\* Only Session.recv_task reads or is cancelled; after _stop() has waited for
\* it, it is over, unless it is the task that runs _stop().
Readers ==
    /\ \A c \in Conns : pc[c] = "reading" => c = recvTask
    /\ cancelled \subseteq {c \in Conns : c = recvTask /\ pc[c] # "done"}
    /\ \A p \in Procs :
          /\ At(p, {"recv"}) => ref[p] = recvTask /\ ref[p] # None /\ ref[p] # p
          /\ At(p, {"close", "unhook", "backoff", "connect"}) =>
                \/ recvTask \in {None, p}
                \/ pc[recvTask] = "done"
          /\ At(p, {"handshake", "answered"}) => recvTask = ref[p]

\* Only Session.ping_task runs; whoever is past its await has seen its end.
\* stop() cancels a receive task that restarts the session only after that, so
\* that the cancelled one skips no ping task that still runs.
Pings ==
    /\ \A c \in Conns : ping[c] # "none" => c = pingTask
    /\ \A p \in Procs :
          /\ At(p, {"ping"}) => ref[p] = pingTask
          /\ At(p, Busy \ {"ping"}) => NoPing
          /\ p \in cancelled /\ Starter(p) => NoPing
          /\ pc[Closer] = "ping" /\ p = recvTask /\ Starter(p) =>
                ref[Closer] = pingTask

\* On a closed session with nobody starting it either nothing is left, or
\* stop() has hold of what is left.
Closing ==
    closed /\ (\A p \in Procs : ~Starter(p)) =>
        \/ open = {} /\ NoReader /\ NoPing
        \/ pc[Closer] = "ping" /\ ref[Closer] = pingTask
        \/ pc[Closer] = "recv" /\ NoPing /\ ref[Closer] = recvTask
        \/ pc[Closer] = "close" /\ NoPing /\ NoReader /\ ref[Closer] = connection

\* After a broken packet the connection is closed, or a task that will close it
\* is on its way; no attempt outlives the flag.
Torn ==
    /\ ~closed /\ teardown =>
          \/ open = {}
          \/ pc[Background] = "spawned"
          \/ \E p \in Procs : At(p, {"ping", "recv", "close"})
    /\ teardown => /\ \A p \in Procs : ~At(p, {"connect", "handshake", "answered"})
                   /\ lock # None => pc[lock] # "hook"

LifeInv ==
    /\ TypeOK
    /\ Places
    /\ OneStarter
    /\ BeforeStart
    /\ Sockets
    /\ Readers
    /\ Pings
    /\ Closing
    /\ Torn

\* A new session is one before its start().
LEMMA InitLemma == Init => LifeInv
<1> SUFFICES ASSUME Init PROVE LifeInv
  OBVIOUS
<1> USE LifecycleAssumption DEF Init, Procs
<1>1. TypeOK
  <2>1. MaxAttempts \in Nat /\ 0 \in 0..MaxAttempts
    OBVIOUS
  <2>2. ping \in [Conns -> {"none", "run", "ending"}]
    OBVIOUS
  <2> QED
    BY <2>1, <2>2 DEF TypeOK
<1>2. Places
  BY DEF Places, Busy, Stopping, Starting
<1>3. OneStarter /\ BeforeStart /\ Torn
  BY DEF OneStarter, BeforeStart, Torn, Starter, At, Busy, Stopping, Starting, NoPing
<1>4. Sockets /\ Readers /\ Pings /\ Closing
  BY DEF Sockets, Readers, Pings, Closing, At, Starter, Busy, Stopping, Starting
<1> QED
  BY <1>1, <1>2, <1>3, <1>4 DEF LifeInv

\* stop() takes hold of the ping task, beside whatever start is under way.
LEMMA StopLemma == LifeInv /\ Stop => LifeInv'
<1> SUFFICES ASSUME LifeInv, Stop PROVE LifeInv'
  OBVIOUS
<1> USE LifecycleAssumption DEF Procs, Busy, Stopping, Starting
<1>0. TypeOK /\ Places /\ OneStarter /\ BeforeStart /\ Sockets /\ Readers
      /\ Pings /\ Closing /\ Torn
  BY DEF LifeInv
<1>1. TypeOK'
  BY <1>0 DEF TypeOK, Stop, BeginStop, EndPings
<1>a. /\ pc[Closer] = "idle" /\ pc'[Closer] = "ping" /\ ret'[Closer] = "stop"
      /\ ref'[Closer] = pingTask /\ closed' /\ ~started'
      /\ \A q \in Procs \ {Closer} : pc'[q] = pc[q] /\ ret'[q] = ret[q] /\ ref'[q] = ref[q]
      /\ \A c \in Conns : ping'[c] = "none" <=> ping[c] = "none"
      /\ UNCHANGED <<attempts, cancelled, teardown, startActive, lock,
                   connection, open, recvTask, pingTask>>
  BY <1>0 DEF TypeOK, Stop, BeginStop, EndPings
<1>2. Places'
  BY <1>0, <1>a DEF Places
<1>3. OneStarter'
  BY <1>0, <1>a DEF OneStarter, Starter, TypeOK
<1>4. BeforeStart'
  BY <1>0, <1>a DEF BeforeStart, NoPing
<1>5. Sockets'
  BY <1>0, <1>a DEF Sockets, At
<1>6. Readers'
  BY <1>0, <1>a DEF Readers, At, TypeOK
<1>7. Pings'
  BY <1>0, <1>a DEF Pings, At, Starter, NoPing
<1>8. Closing'
  BY <1>0, <1>a DEF Closing
<1>9. Torn'
  BY <1>0, <1>a DEF Torn, At, OneStarter, TypeOK
<1> QED
  BY <1>1, <1>2, <1>3, <1>4, <1>5, <1>6, <1>7, <1>8, <1>9 DEF LifeInv

\* A ping task ends.
LEMMA PingEndsLemma ==
    ASSUME NEW c \in Conns, LifeInv,
           PingEnds(c)
    PROVE  LifeInv'
<1> USE LifecycleAssumption DEF Procs, Busy, Stopping, Starting
<1>0. /\ TypeOK /\ Places /\ OneStarter /\ BeforeStart /\ Sockets
      /\ Readers /\ Pings /\ Closing /\ Torn
  BY DEF LifeInv
<1>a. /\ \A d \in Conns : ping'[d] # "none" => ping[d] # "none"
      /\ UNCHANGED <<pc, ret, ref, attempts, cancelled, started, stopping,
                     closed, teardown, startActive, lock, connection, open,
                     recvTask, pingTask>>
  BY <1>0 DEF TypeOK, PingEnds, procs, flags
<1>1. TypeOK'
  BY <1>0 DEF TypeOK, PingEnds, procs, flags
<1>2. Places'
  BY <1>0, <1>a DEF Places, TypeOK
<1>3. OneStarter'
  BY <1>0, <1>a DEF OneStarter, Starter, TypeOK
<1>4. BeforeStart'
  BY <1>0, <1>a DEF BeforeStart, NoPing, TypeOK
<1>5. Sockets'
  BY <1>0, <1>a DEF Sockets, At, TypeOK
<1>6. Readers'
  BY <1>0, <1>a DEF Readers, At, TypeOK
<1>7. Pings'
  BY <1>0, <1>a DEF Pings, At, Starter, NoPing, TypeOK
<1>8. Closing'
  BY <1>0, <1>a DEF Closing, Starter, NoReader, NoPing, TypeOK
<1>9. Torn'
  BY <1>0, <1>a DEF Torn, At, OneStarter, TypeOK
<1> QED
  BY <1>1, <1>2, <1>3, <1>4, <1>5, <1>6, <1>7, <1>8, <1>9 DEF LifeInv

\* A receive task that reads is cancelled.
LEMMA RecvCancelledLemma ==
    ASSUME NEW c \in Conns, LifeInv,
           RecvCancelled(c)
    PROVE  LifeInv'
<1> USE LifecycleAssumption DEF Procs, Busy, Stopping, Starting
<1>0. /\ TypeOK /\ Places /\ OneStarter /\ BeforeStart /\ Sockets
      /\ Readers /\ Pings /\ Closing /\ Torn
  BY DEF LifeInv
<1>a. /\ pc[c] = "reading" /\ pc' = [pc EXCEPT ![c] = "done"]
      /\ cancelled' = cancelled \ {c}
      /\ UNCHANGED <<ret, ref, attempts, started, stopping, closed, teardown,
                     startActive, lock, connection, open, recvTask, pingTask,
                     ping>>
  BY <1>0 DEF TypeOK, RecvCancelled, flags, links
<1>1. TypeOK'
  BY <1>0 DEF TypeOK, RecvCancelled, flags, links
<1>2. Places'
  BY <1>0, <1>a DEF Places, TypeOK
<1>3. OneStarter'
  BY <1>0, <1>a DEF OneStarter, Starter, TypeOK
<1>4. BeforeStart'
  BY <1>0, <1>a DEF BeforeStart, NoPing, TypeOK
<1>5. Sockets'
  BY <1>0, <1>a DEF Sockets, At, TypeOK
<1>6. Readers'
  BY <1>0, <1>a DEF Readers, At, TypeOK
<1>7. Pings'
  BY <1>0, <1>a DEF Pings, At, Starter, NoPing, TypeOK
<1>8. Closing'
  BY <1>0, <1>a DEF Closing, Starter, NoReader, NoPing, TypeOK
<1>9. Torn'
  BY <1>0, <1>a DEF Torn, At, OneStarter, TypeOK
<1> QED
  BY <1>1, <1>2, <1>3, <1>4, <1>5, <1>6, <1>7, <1>8, <1>9 DEF LifeInv

\* The handshake is answered.
LEMMA AnsweredLemma ==
    ASSUME NEW p \in Procs, LifeInv,
           Answered(p)
    PROVE  LifeInv'
<1> USE LifecycleAssumption DEF Procs, Busy, Stopping, Starting
<1>0. /\ TypeOK /\ Places /\ OneStarter /\ BeforeStart /\ Sockets
      /\ Readers /\ Pings /\ Closing /\ Torn
  BY DEF LifeInv
<1>a. /\ pc[p] = "handshake" /\ pc' = [pc EXCEPT ![p] = "answered"]
      /\ p # Closer
      /\ UNCHANGED <<ret, ref, attempts, cancelled, started, stopping, closed,
                     teardown, startActive, lock, connection, open, recvTask,
                     pingTask, ping>>
  BY <1>0 DEF TypeOK, Places, Answered, flags, links
<1>1. TypeOK'
  BY <1>0 DEF TypeOK, Answered, flags, links
<1>2. Places'
  BY <1>0, <1>a DEF Places, TypeOK
<1>3. OneStarter'
  BY <1>0, <1>a DEF OneStarter, Starter, TypeOK
<1>4. BeforeStart'
  BY <1>0, <1>a DEF BeforeStart, NoPing, TypeOK
<1>5. Sockets'
  BY <1>0, <1>a DEF Sockets, At, TypeOK
<1>6. Readers'
  BY <1>0, <1>a DEF Readers, At, TypeOK
<1>7. Pings'
  BY <1>0, <1>a DEF Pings, At, Starter, NoPing, TypeOK
<1>8. Closing'
  BY <1>0, <1>a DEF Closing, Starter, NoReader, NoPing, TypeOK
<1>9. Torn'
  BY <1>0, <1>a DEF Torn, At, OneStarter, TypeOK
<1> QED
  BY <1>1, <1>2, <1>3, <1>4, <1>5, <1>6, <1>7, <1>8, <1>9 DEF LifeInv

\* An attempt fails: start() begins _stop().
LEMMA TryFailsLemma ==
    ASSUME NEW p \in Procs, LifeInv,
           TryFails(p) \/ TryRefused(p)
    PROVE  LifeInv'
<1> USE LifecycleAssumption DEF Procs, Busy, Stopping, Starting
<1>0. /\ TypeOK /\ Places /\ OneStarter /\ BeforeStart /\ Sockets
      /\ Readers /\ Pings /\ Closing /\ Torn
  BY DEF LifeInv
<1>a. /\ pc[p] \in {"connect", "handshake", "answered"} /\ p # Closer
      /\ pc' = [pc EXCEPT ![p] = "ping"]
      /\ ret'[p] # "restart" /\ \A q \in Procs \ {p} : ret'[q] = ret[q]
      /\ ref' = [ref EXCEPT ![p] = pingTask]
      /\ cancelled' \subseteq cancelled
      /\ ~started'
      /\ \A d \in Conns : ping'[d] = "none" <=> ping[d] = "none"
      /\ UNCHANGED <<attempts, closed, teardown, startActive, lock, connection,
                     open, recvTask, pingTask>>
  BY <1>0 DEF TypeOK, Places, TryFails, TryRefused, BeginStop, EndPings
<1>1. TypeOK'
  <2>1. CASE TryFails(p)
    BY <1>0, <2>1 DEF TypeOK, TryFails, BeginStop, EndPings
  <2>2. CASE TryRefused(p)
    BY <1>0, <2>2 DEF TypeOK, TryRefused, BeginStop, EndPings
  <2> QED
    BY <2>1, <2>2
<1>2. Places'
  BY <1>0, <1>a DEF Places, TypeOK
<1>3. OneStarter'
  BY <1>0, <1>a DEF OneStarter, Starter, TypeOK
<1>4. BeforeStart'
  BY <1>0, <1>a DEF BeforeStart, NoPing, TypeOK
<1>5. Sockets'
  BY <1>0, <1>a DEF Sockets, At, TypeOK
<1>6. Readers'
  BY <1>0, <1>a DEF Readers, At, TypeOK
<1>7. Pings'
  BY <1>0, <1>a DEF Pings, At, Starter, NoPing, TypeOK
<1>8. Closing'
  BY <1>0, <1>a DEF Closing, Starter, NoReader, NoPing, TypeOK
<1>9. Torn'
  BY <1>0, <1>a DEF Torn, At, OneStarter, TypeOK
<1> QED
  BY <1>1, <1>2, <1>3, <1>4, <1>5, <1>6, <1>7, <1>8, <1>9 DEF LifeInv

\* start() resumes after stop() was called: its ping task is new, so it takes
\* hold of that one.
LEMMA ResumeLateLemma ==
    ASSUME NEW p \in Procs, LifeInv,
           Resume(p), closed
    PROVE  LifeInv'
<1> USE LifecycleAssumption DEF Procs, Busy, Stopping, Starting
<1>0. /\ TypeOK /\ Places /\ OneStarter /\ BeforeStart /\ Sockets
      /\ Readers /\ Pings /\ Closing /\ Torn
  BY DEF LifeInv
<1>a. /\ pc[p] = "answered" /\ p # Closer /\ p \notin cancelled
      /\ pc' = [pc EXCEPT ![p] = "ping"]
      /\ ret' = [ret EXCEPT ![p] = "late"]
      /\ ~started' /\ pingTask' = ref[p]
      /\ \A d \in Conns : ping'[d] # "none" => d = ref[p] \/ ping[d] # "none"
      /\ UNCHANGED <<ref, attempts, cancelled, closed, teardown, startActive,
                     lock, connection, open, recvTask>>
  BY <1>0 DEF TypeOK, Places, Resume, BeginStop
<1>1. TypeOK'
  <2>1. ping' \in [Conns -> {"none", "run", "ending"}]
    BY <1>0 DEF TypeOK, Resume
  <2>2. pingTask' \in Conns \cup {None}
    BY <1>0, <1>a DEF TypeOK
  <2> QED
    BY <1>0, <1>a, <2>1, <2>2 DEF TypeOK, Resume, BeginStop
<1>2. Places'
  BY <1>0, <1>a DEF Places, TypeOK
<1>3. OneStarter'
  BY <1>0, <1>a DEF OneStarter, Starter, TypeOK
<1>4. BeforeStart'
  BY <1>0, <1>a DEF BeforeStart, NoPing, TypeOK, OneStarter, Starter
<1>5. Sockets'
  BY <1>0, <1>a DEF Sockets, At, TypeOK
<1>6. Readers'
  BY <1>0, <1>a DEF Readers, At, TypeOK
<1>7. Pings'
  BY <1>0, <1>a DEF Pings, At, Starter, NoPing, TypeOK, Sockets, Readers, OneStarter
<1>8. Closing'
  BY <1>0, <1>a DEF Closing, Starter, NoReader, NoPing, TypeOK
<1>9. Torn'
  BY <1>0, <1>a DEF Torn, At, OneStarter, TypeOK
<1> QED
  BY <1>1, <1>2, <1>3, <1>4, <1>5, <1>6, <1>7, <1>8, <1>9 DEF LifeInv

\* start() resumes and the session is started.
LEMMA ResumeLemma ==
    ASSUME NEW p \in Procs, LifeInv,
           Resume(p), ~closed
    PROVE  LifeInv'
<1> USE LifecycleAssumption DEF Procs, Busy, Stopping, Starting
<1>0. /\ TypeOK /\ Places /\ OneStarter /\ BeforeStart /\ Sockets
      /\ Readers /\ Pings /\ Closing /\ Torn
  BY DEF LifeInv
<1>a. /\ pc[p] = "answered" /\ p # Closer /\ p \notin cancelled
      /\ pc' = [pc EXCEPT ![p] = "hook"]
      /\ ~startActive' /\ pingTask' = ref[p]
      /\ ref[p] = connection /\ ref[p] \in Conns
      /\ \A d \in Conns : ping'[d] # "none" => d = ref[p] \/ ping[d] # "none"
      /\ UNCHANGED <<ret, ref, attempts, cancelled, closed, teardown,
                     lock, connection, open, recvTask>>
  BY <1>0 DEF TypeOK, Places, Sockets, At, Resume
<1>1. TypeOK'
  <2>1. ping' \in [Conns -> {"none", "run", "ending"}]
    BY <1>0 DEF TypeOK, Resume
  <2>2. pingTask' \in Conns \cup {None}
    BY <1>0, <1>a DEF TypeOK
  <2> QED
    BY <1>0, <1>a, <2>1, <2>2 DEF TypeOK, Resume
<1>2. Places'
  BY <1>0, <1>a DEF Places, TypeOK
<1>3. OneStarter'
  BY <1>0, <1>a DEF OneStarter, Starter, TypeOK, Places
<1>4. BeforeStart'
  BY <1>0, <1>a DEF BeforeStart, NoPing, TypeOK, OneStarter, Starter
<1>5. Sockets'
  BY <1>0, <1>a DEF Sockets, At, TypeOK
<1>6. Readers'
  BY <1>0, <1>a DEF Readers, At, TypeOK
<1>7. Pings'
  BY <1>0, <1>a DEF Pings, At, Starter, NoPing, TypeOK, OneStarter
<1>8. Closing'
  BY <1>0, <1>a DEF Closing, Starter, NoReader, NoPing, TypeOK
<1>9. Torn'
  BY <1>0, <1>a DEF Torn, At, OneStarter, TypeOK
<1> QED
  BY <1>1, <1>2, <1>3, <1>4, <1>5, <1>6, <1>7, <1>8, <1>9 DEF LifeInv

\* connect() succeeds: one socket, one reader.
LEMMA ConnectOkLemma ==
    ASSUME NEW p \in Procs, LifeInv,
           ConnectOk(p)
    PROVE  LifeInv'
<1> USE LifecycleAssumption DEF Procs, Busy, Stopping, Starting
<1>0. /\ TypeOK /\ Places /\ OneStarter /\ BeforeStart /\ Sockets
      /\ Readers /\ Pings /\ Closing /\ Torn
  BY DEF LifeInv
<1>a. /\ pc[p] = "connect" /\ p # Closer /\ p \notin cancelled
      /\ ref[p] \in Conns /\ ref[p] # p /\ ref[p] = connection
      /\ pc[ref[p]] = "done" /\ open = {} /\ open' = {ref[p]}
      /\ recvTask' = ref[p]
      /\ pc' = [pc EXCEPT ![p] = "handshake", ![ref[p]] = "reading"]
      /\ UNCHANGED <<ret, ref, attempts, cancelled, started, stopping, closed,
                     teardown, startActive, lock, connection, pingTask, ping>>
  BY <1>0 DEF TypeOK, Places, Sockets, At, ConnectOk, flags
<1>1. TypeOK'
  BY <1>0, <1>a DEF TypeOK
<1>2. Places'
  BY <1>0, <1>a DEF Places, TypeOK
<1>3. OneStarter'
  BY <1>0, <1>a DEF OneStarter, Starter, TypeOK
<1>4. BeforeStart'
  BY <1>0, <1>a DEF BeforeStart, NoPing, TypeOK, OneStarter, Starter
<1>5. Sockets'
  BY <1>0, <1>a DEF Sockets, At, TypeOK, OneStarter, Starter
<1>6. Readers'
  BY <1>0, <1>a DEF Readers, At, TypeOK, OneStarter, Starter
<1>7. Pings'
  BY <1>0, <1>a DEF Pings, At, Starter, NoPing, TypeOK, OneStarter
<1>8. Closing'
  BY <1>0, <1>a DEF Closing, Starter, NoReader, NoPing, TypeOK
<1>9. Torn'
  BY <1>0, <1>a DEF Torn, At, OneStarter, TypeOK
<1> QED
  BY <1>1, <1>2, <1>3, <1>4, <1>5, <1>6, <1>7, <1>8, <1>9 DEF LifeInv

\* What Leave() changes, task by task.
LEMMA LeaveLemma ==
    ASSUME NEW p \in Procs, LifeInv,
           Leave(p)
    PROVE  /\ \A q \in Procs : \/ pc'[q] = pc[q]
                               \/ /\ q = p \/ pc[q] = "lockwait"
                                  /\ pc'[q] = Rest(q)
           /\ pc'[p] = Rest(p)
           /\ \A q \in Procs \ {p} : /\ ret'[q] = ret[q]
                                     /\ ref'[q] = ref[q]
                                     /\ attempts'[q] = attempts[q]
           /\ attempts'[p] = 0
           /\ cancelled' \subseteq cancelled
           /\ \A q \in cancelled' : pc'[q] = pc[q] /\ q # p
           /\ lock' = IF lock = p THEN None ELSE lock
           /\ pc' \in [Procs -> {"new", "idle", "done", "reading", "spawned", "lockwait",
                         "ping", "recv", "close", "unhook",
                         "connect", "handshake", "answered", "hook",
                         "backoff"}]
           /\ ret' \in [Procs -> {"none", "stop", "restart", "retry", "fatal", "late"}]
           /\ ref' \in [Procs -> Conns \cup {None}]
           /\ attempts' \in [Procs -> 0..MaxAttempts]
<1> USE LifecycleAssumption
<1>0. TypeOK
  BY DEF LifeInv
<1>1. \A q \in Procs : Rest(q) \in {"done", "idle"}
  BY DEF Rest
<1>2. MaxAttempts \in Nat /\ 0 \in 0..MaxAttempts
  OBVIOUS
<1>3. DEFINE woken == {p} \cup (IF lock = p THEN {q \in Procs : pc[q] = "lockwait"}
                                             ELSE {})
<1>4. /\ pc' = [q \in Procs |-> IF q \in woken THEN Rest(q) ELSE pc[q]]
      /\ ret' = [ret EXCEPT ![p] = "none"]
      /\ ref' = [ref EXCEPT ![p] = None]
      /\ attempts' = [attempts EXCEPT ![p] = 0]
      /\ cancelled' = cancelled \ woken
      /\ lock' = IF lock = p THEN None ELSE lock
  BY DEF Leave
<1>5. p \in woken /\ \A q \in woken : q = p \/ pc[q] = "lockwait"
  OBVIOUS
<1>6. cancelled \subseteq Procs
  BY <1>0 DEF TypeOK, Procs
<1> HIDE DEF woken
<1> QED
  BY <1>0, <1>1, <1>2, <1>4, <1>5, <1>6 DEF TypeOK

\* Whoever leaves with nothing in hand keeps the invariant.
LEMMA LeaveKeeps ==
    ASSUME NEW p \in Procs, LifeInv,
           Leave(p),
           UNCHANGED <<started, closed, teardown, connection, recvTask,
                       pingTask, ping>>,
           open' \subseteq open, {stopping', startActive'} \subseteq BOOLEAN,
           startActive' = startActive \/ p = Owner \/ Starter(p),
           Starter(p) => pc[p] \in {"close", "unhook", "backoff"} /\ open' = {},
           p = Closer => pc[p] = "unhook",
           pc[p] = "spawned" => closed
    PROVE  LifeInv'
<1> USE LifecycleAssumption DEF Procs, Busy, Stopping, Starting
<1>0. /\ TypeOK /\ Places /\ OneStarter /\ BeforeStart /\ Sockets
      /\ Readers /\ Pings /\ Closing /\ Torn
  BY DEF LifeInv
<1>a. /\ \A q \in Procs : \/ pc'[q] = pc[q]
                          \/ /\ q = p \/ pc[q] = "lockwait"
                             /\ pc'[q] = Rest(q)
      /\ pc'[p] = Rest(p)
      /\ \A q \in Procs \ {p} : /\ ret'[q] = ret[q]
                                /\ ref'[q] = ref[q]
                                /\ attempts'[q] = attempts[q]
      /\ attempts'[p] = 0
      /\ cancelled' \subseteq cancelled
      /\ \A q \in cancelled' : pc'[q] = pc[q] /\ q # p
      /\ lock' = IF lock = p THEN None ELSE lock
      /\ \A q \in Conns : Rest(q) = "done"
      /\ \A q \in Procs \ Conns : Rest(q) = "idle"
  BY LeaveLemma DEF Rest
<1>1. TypeOK'
  BY <1>0, LeaveLemma DEF TypeOK
<1>2. Places'
  BY <1>0, <1>a DEF Places, TypeOK
<1>3. OneStarter'
  BY <1>0, <1>a DEF OneStarter, Starter, TypeOK, Places
<1>4. BeforeStart'
  BY <1>0, <1>a DEF BeforeStart, NoPing, TypeOK
<1>5. Sockets'
  BY <1>0, <1>a DEF Sockets, At, TypeOK
<1>6. Readers'
  BY <1>0, <1>a DEF Readers, At, TypeOK
<1>7. Pings'
  BY <1>0, <1>a DEF Pings, At, Starter, NoPing, TypeOK
<1>8. Closing'
  BY <1>0, <1>a DEF Closing, Starter, NoReader, NoPing, TypeOK,
                   OneStarter, Sockets, Readers, Pings, At, Places
<1>9. Torn'
  BY <1>0, <1>a DEF Torn, At, OneStarter, TypeOK, Starter
<1> QED
  BY <1>1, <1>2, <1>3, <1>4, <1>5, <1>6, <1>7, <1>8, <1>9 DEF LifeInv

\* A task leaves a hook, the wait for the lock, or a failed start.
LEMMA LeavesLemma ==
    ASSUME NEW p \in Procs, LifeInv,
           HookDone(p) \/ WaitCancelled(p) \/ CloseCancelled(p)
    PROVE  LifeInv'
<1> USE LifecycleAssumption DEF Procs, Busy, Stopping, Starting
<1>0. TypeOK /\ Places /\ Sockets
  BY DEF LifeInv
<1>1. CASE HookDone(p)
  <2>1. /\ Leave(p) /\ pc[p] = "hook" /\ p # Closer
        /\ UNCHANGED <<started, stopping, closed, teardown, startActive,
                       connection, open, recvTask, pingTask, ping>>
    BY <1>0, <1>1 DEF HookDone, links, Places
  <2>2. ~Starter(p) /\ {stopping, startActive} \subseteq BOOLEAN
    BY <1>0, <2>1 DEF Starter, TypeOK
  <2> QED
    BY <2>1, <2>2, LeaveKeeps
<1>2. CASE WaitCancelled(p)
  <2>1. /\ Leave(p) /\ pc[p] = "lockwait" /\ p # Closer
        /\ UNCHANGED <<started, stopping, closed, teardown, startActive,
                       connection, open, recvTask, pingTask, ping>>
    BY <1>0, <1>2 DEF WaitCancelled, links, Places
  <2>2. ~Starter(p) /\ {stopping, startActive} \subseteq BOOLEAN
    BY <1>0, <2>1 DEF Starter, TypeOK
  <2> QED
    BY <2>1, <2>2, LeaveKeeps
<1>3. CASE CloseCancelled(p)
  <2>1. /\ Leave(p) /\ pc[p] = "close" /\ p # Closer
        /\ startActive' = startActive \/ startActive' = FALSE
        /\ open' = open \ {ref[p]}
        /\ UNCHANGED <<started, stopping, closed, teardown, connection,
                       recvTask, pingTask, ping>>
    BY <1>0, <1>3 DEF CloseCancelled, LeaveStart, TypeOK
  <2>2. Starter(p) /\ open' = {} /\ open' \subseteq open
    BY <1>0, <2>1 DEF Starter, At, Sockets
  <2>3. {stopping', startActive'} \subseteq BOOLEAN
    BY <1>0, <2>1 DEF TypeOK
  <2> QED
    BY <2>1, <2>2, <2>3, LeaveKeeps
<1> QED
  BY <1>1, <1>2, <1>3

\* A fresh attempt when nothing of the last one is left.
LEMMA AttemptLemma ==
    ASSUME NEW p \in Procs, LifeInv,
           BeginAttempt(p),
           UNCHANGED <<ret, closed, lock, started, open, recvTask, pingTask,
                       ping>>,
           ~closed, ~started, p = Owner => startActive', startActive' \in BOOLEAN,
           p # Closer, cancelled' = cancelled \ {p},
           \A q \in Procs : Starter(q) => q = p,
           IF p = Owner THEN lock = None ELSE lock = p /\ attempts[p] < MaxAttempts,
           open = {}, NoPing, pc[p] \in {"new", "unhook", "backoff"},
           recvTask \in {None, p} \/ pc[recvTask] = "done"
    PROVE  LifeInv'
<1> USE LifecycleAssumption DEF Procs, Busy, Stopping, Starting
<1>0. /\ TypeOK /\ Places /\ OneStarter /\ BeforeStart /\ Sockets
      /\ Readers /\ Pings /\ Closing /\ Torn
  BY DEF LifeInv
<1>p. PICK c \in Conns : Free(c) /\ connection' = c
  BY DEF BeginAttempt
<1>a. /\ connection' \in Conns /\ connection' # p /\ pc[connection'] = "done"
      /\ ref' = [ref EXCEPT ![p] = connection']
      /\ pc' = [pc EXCEPT ![p] = "connect"]
      /\ attempts' = [attempts EXCEPT ![p] = IF p = Owner THEN @ ELSE @ + 1]
      /\ stopping' = FALSE /\ teardown' = FALSE
  BY <1>0, <1>p DEF TypeOK, BeginAttempt, Free
<1>1. TypeOK'
  <2>1. p = Owner \/ attempts[p] + 1 \in 0..MaxAttempts
    BY <1>0 DEF TypeOK
  <2>2. attempts' \in [Procs -> 0..MaxAttempts]
    BY <1>0, <1>a, <2>1 DEF TypeOK
  <2>3. cancelled' \subseteq Conns
    BY <1>0 DEF TypeOK
  <2>4. pc' \in [Procs -> {"new", "idle", "done", "reading", "spawned", "lockwait",
                         "ping", "recv", "close", "unhook",
                         "connect", "handshake", "answered", "hook",
                         "backoff"}]
    BY <1>0, <1>a DEF TypeOK
  <2>5. ref' \in [Procs -> Conns \cup {None}]
    BY <1>0, <1>a DEF TypeOK
  <2> QED
    BY <1>0, <1>a, <2>2, <2>3, <2>4, <2>5 DEF TypeOK
<1>2. Places'
  BY <1>0, <1>a, <1>p DEF Places, TypeOK
<1>3. OneStarter'
  BY <1>0, <1>a, <1>p DEF OneStarter, Starter, TypeOK, Places
<1>4. BeforeStart'
  BY <1>0, <1>a, <1>p DEF BeforeStart, NoPing, TypeOK, OneStarter
<1>5. Sockets'
  BY <1>0, <1>a, <1>p DEF Sockets, At, TypeOK, Starter
<1>6. Readers'
  BY <1>0, <1>a, <1>p DEF Readers, At, TypeOK, Starter
<1>7. Pings'
  BY <1>0, <1>a, <1>p DEF Pings, At, Starter, NoPing, TypeOK, Places
<1>8. Closing'
  BY <1>0, <1>a, <1>p DEF Closing, Starter, NoReader, NoPing, TypeOK
<1>9. Torn'
  BY <1>0, <1>a, <1>p DEF Torn, At, OneStarter, TypeOK, Starter
<1> QED
  BY <1>1, <1>2, <1>3, <1>4, <1>5, <1>6, <1>7, <1>8, <1>9 DEF LifeInv

\* After the pause start() gives up or tries again.
LEMMA BackoffLemma ==
    ASSUME NEW p \in Procs, LifeInv,
           BackoffEnds(p)
    PROVE  LifeInv'
<1> USE LifecycleAssumption DEF Procs, Busy, Stopping, Starting
<1>0. /\ TypeOK /\ Places /\ OneStarter /\ Sockets /\ Readers /\ Pings
  BY DEF LifeInv
<1>1. /\ pc[p] = "backoff" /\ p # Closer /\ Starter(p)
      /\ UNCHANGED <<started, closed, open, recvTask, pingTask, ping>>
  BY <1>0 DEF BackoffEnds, Places, Starter
<1>2. /\ open = {} /\ NoPing
      /\ recvTask \in {None, p} \/ pc[recvTask] = "done"
      /\ ~started /\ \A q \in Procs : Starter(q) => q = p
      /\ IF p = Owner THEN lock = None /\ startActive
                      ELSE lock = p /\ attempts[p] < MaxAttempts
  BY <1>0, <1>1 DEF Sockets, Readers, Pings, At, OneStarter, Places
<1>3. CASE closed \/ p \in cancelled
  <2>1. /\ Leave(p) /\ startActive' = FALSE
        /\ UNCHANGED <<stopping, teardown, connection>>
    BY <1>3 DEF BackoffEnds, LeaveStart
  <2>2. {stopping', startActive'} \subseteq BOOLEAN
    BY <1>0, <2>1 DEF TypeOK
  <2> QED
    BY <1>1, <1>2, <2>1, <2>2, LeaveKeeps
<1>4. CASE ~(closed \/ p \in cancelled)
  <2>1. /\ BeginAttempt(p)
        /\ UNCHANGED <<ret, cancelled, startActive, lock>>
    BY <1>4 DEF BackoffEnds
  <2>2. cancelled' = cancelled \ {p}
    BY <1>4, <2>1
  <2> QED
    BY <1>0, <1>1, <1>2, <1>4, <2>1, <2>2, AttemptLemma DEF TypeOK
<1> QED
  BY <1>3, <1>4

\* _stop() returns to stop(), to restart() or to the loop in start().
LEMMA StoppedLemma ==
    ASSUME NEW p \in Procs, LifeInv,
           Stopped(p)
    PROVE  LifeInv'
<1> USE LifecycleAssumption DEF Procs, Busy, Stopping, Starting
<1>0. /\ TypeOK /\ Places /\ OneStarter /\ BeforeStart /\ Sockets
      /\ Readers /\ Pings /\ Closing /\ Torn
  BY DEF LifeInv
<1>1. /\ pc[p] = "unhook"
      /\ UNCHANGED <<started, closed, open, recvTask, pingTask, ping>>
      /\ p = Closer => ret[p] = "stop"
  BY <1>0 DEF Stopped, Places
<1>2. p # Closer =>
        /\ Starter(p)
        /\ open = {} /\ NoPing
        /\ recvTask \in {None, p} \/ pc[recvTask] = "done"
        /\ ~started /\ \A q \in Procs : Starter(q) => q = p
        /\ IF p = Owner THEN lock = None ELSE lock = p
  BY <1>0, <1>1 DEF Sockets, Readers, Pings, At, OneStarter, Starter
<1>3. CASE ret[p] = "stop" \/ (ret[p] = "restart" /\ closed)
  <2>1. /\ Leave(p)
        /\ UNCHANGED <<stopping, teardown, startActive, connection>>
    BY <1>3 DEF Stopped
  <2>2. {stopping', startActive'} \subseteq BOOLEAN
    BY <1>0, <2>1 DEF TypeOK
  <2>3. Starter(p) => p # Closer
    BY DEF Starter
  <2> QED
    BY <1>1, <1>2, <2>1, <2>2, <2>3, LeaveKeeps
<1>4. CASE ret[p] = "restart" /\ ~closed
  <2>1. /\ BeginAttempt(p) /\ startActive' = TRUE
        /\ cancelled' = cancelled \ {p} /\ UNCHANGED <<ret, lock>>
    BY <1>4 DEF Stopped
  <2>2. p # Closer /\ (p # Owner => attempts[p] < MaxAttempts)
    BY <1>0, <1>1, <1>4 DEF Places
  <2> QED
    BY <1>1, <1>2, <1>4, <2>1, <2>2, AttemptLemma
<1>5. CASE ret[p] = "retry" /\ ~closed /\ MayRetry(p)
  <2>1. /\ pc' = [pc EXCEPT ![p] = "backoff"]
        /\ cancelled' = cancelled \ {p}
        /\ UNCHANGED <<ret, ref, attempts, stopping, teardown, startActive,
                       lock, connection>>
    BY <1>5 DEF Stopped
  <2>2. p # Closer /\ (p # Owner => attempts[p] < MaxAttempts)
    BY <1>1, <1>5 DEF MayRetry
  <2>3. TypeOK'
    BY <1>0, <1>1, <2>1 DEF TypeOK
  <2>4. Places'
    BY <1>0, <1>1, <2>1, <2>2 DEF Places, TypeOK
  <2>5. OneStarter' /\ BeforeStart'
    BY <1>0, <1>1, <2>1, <2>2 DEF OneStarter, Starter, BeforeStart, NoPing, TypeOK
  <2>6. Sockets'
    BY <1>0, <1>1, <2>1, <2>2 DEF Sockets, At, TypeOK
  <2>7. Readers'
    BY <1>0, <1>1, <2>1, <2>2 DEF Readers, At, TypeOK
  <2>8. Pings'
    BY <1>0, <1>1, <2>1, <2>2 DEF Pings, At, Starter, NoPing, TypeOK
  <2>9. Closing' /\ Torn'
    BY <1>0, <1>1, <1>2, <1>5, <2>1, <2>2 DEF Closing, Torn, At, OneStarter, TypeOK
  <2> QED
    BY <2>3, <2>4, <2>5, <2>6, <2>7, <2>8, <2>9 DEF LifeInv
<1>6. CASE ~ \/ ret[p] = "stop" \/ (ret[p] = "restart" /\ closed)
             \/ ret[p] = "restart" /\ ~closed
             \/ ret[p] = "retry" /\ ~closed /\ MayRetry(p)
  <2>1. /\ Leave(p) /\ startActive' = FALSE
        /\ UNCHANGED <<stopping, teardown, connection>>
    BY <1>6 DEF Stopped, LeaveStart
  <2>2. {stopping', startActive'} \subseteq BOOLEAN /\ p # Closer
    BY <1>0, <1>1, <1>6, <2>1 DEF TypeOK
  <2> QED
    BY <1>1, <1>2, <2>1, <2>2, LeaveKeeps
<1> QED
  BY <1>3, <1>4, <1>5, <1>6

\* start() returns at once on a closed session, else makes its first attempt.
LEMMA OwnerStartLemma == LifeInv /\ OwnerStart => LifeInv'
<1> SUFFICES ASSUME LifeInv, OwnerStart PROVE LifeInv'
  OBVIOUS
<1> USE LifecycleAssumption DEF Procs, Busy, Stopping, Starting
<1>0. /\ TypeOK /\ Places /\ OneStarter /\ BeforeStart /\ Pings
  BY DEF LifeInv
<1>1. /\ pc[Owner] = "new" /\ Owner \in Procs
      /\ UNCHANGED <<started, closed, open, recvTask, pingTask, ping>>
  BY DEF OwnerStart
<1>2. /\ lock = None /\ ~started /\ open = {} /\ NoPing
      /\ \A c \in Conns : pc[c] = "done"
      /\ \A q \in Procs : ~Starter(q)
  BY <1>0, <1>1 DEF BeforeStart, OneStarter, Starter
<1>3. CASE closed
  <2>1. /\ Leave(Owner) /\ startActive' = FALSE
        /\ UNCHANGED <<stopping, teardown, connection>>
    BY <1>3 DEF OwnerStart, LeaveStart
  <2>2. {stopping', startActive'} \subseteq BOOLEAN
    BY <1>0, <2>1 DEF TypeOK
  <2> QED
    BY <1>1, <1>2, <2>1, <2>2, LeaveKeeps
<1>4. CASE ~closed
  <2>1. /\ BeginAttempt(Owner) /\ startActive' = TRUE
        /\ UNCHANGED <<ret, cancelled, lock>>
    BY <1>4 DEF OwnerStart
  <2>2. /\ cancelled' = cancelled \ {Owner}
        /\ recvTask \in {None, Owner} \/ pc[recvTask] = "done"
    BY <1>0, <1>2, <2>1 DEF TypeOK
  <2> QED
    BY <1>1, <1>2, <1>4, <2>1, <2>2, AttemptLemma
<1> QED
  BY <1>3, <1>4

\* restart() with the lock free: the task begins _stop().
LEMMA RestartLemma ==
    ASSUME NEW p \in Procs \ {Owner, Closer}, LifeInv,
           ~closed, lock = None,
           \A q \in Procs : ~Starter(q),
           pc[p] \in {"idle", "reading", "spawned"}, p \notin cancelled,
           pc[Owner] # "new",
           Restart(p), UNCHANGED <<closed, teardown, startActive, connection,
                                   open, recvTask, pingTask>>
    PROVE  LifeInv'
<1> USE LifecycleAssumption DEF Procs, Busy, Stopping, Starting
<1>0. /\ TypeOK /\ Places /\ OneStarter /\ BeforeStart /\ Sockets
      /\ Readers /\ Pings /\ Closing /\ Torn
  BY DEF LifeInv
<1>a. /\ lock' = p /\ started' = FALSE /\ stopping' = TRUE
      /\ pc' = [pc EXCEPT ![p] = "ping"]
      /\ ret' = [ret EXCEPT ![p] = "restart"]
      /\ ref' = [ref EXCEPT ![p] = pingTask]
      /\ \A d \in Conns : ping'[d] = "none" <=> ping[d] = "none"
      /\ UNCHANGED <<attempts, cancelled>>
  BY <1>0 DEF TypeOK, Restart, BeginStop, EndPings
<1>1. TypeOK'
  <2>1. ping' \in [Conns -> {"none", "run", "ending"}]
    BY <1>0 DEF TypeOK, Restart, EndPings
  <2> QED
    BY <1>0, <1>a, <2>1 DEF TypeOK
<1>2. Places'
  BY <1>0, <1>a DEF Places, TypeOK
<1>3. OneStarter'
  BY <1>0, <1>a DEF OneStarter, Starter, TypeOK, Places
<1>4. BeforeStart'
  BY <1>0, <1>a DEF BeforeStart, NoPing, TypeOK, Places
<1>5. Sockets'
  BY <1>0, <1>a DEF Sockets, At, TypeOK
<1>6. Readers'
  BY <1>0, <1>a DEF Readers, At, TypeOK
<1>7. Pings'
  BY <1>0, <1>a DEF Pings, At, Starter, NoPing, TypeOK, Places
<1>8. Closing'
  BY <1>0, <1>a DEF Closing, Starter, NoReader, NoPing, TypeOK
<1>9. Torn'
  BY <1>0, <1>a DEF Torn, At, OneStarter, TypeOK
<1> QED
  BY <1>1, <1>2, <1>3, <1>4, <1>5, <1>6, <1>7, <1>8, <1>9 DEF LifeInv

\* restart() while another one runs: the task waits.
LEMMA LockWaitLemma ==
    ASSUME NEW p \in Procs \ {Owner, Closer}, LifeInv,
           ~closed, lock # None,
           pc[p] \in {"idle", "reading", "spawned"}, p \notin cancelled,
           pc[Owner] # "new",
           Restart(p), UNCHANGED <<closed, teardown, startActive, connection,
                                   open, recvTask, pingTask>>
    PROVE  LifeInv'
<1> USE LifecycleAssumption DEF Procs, Busy, Stopping, Starting
<1>0. /\ TypeOK /\ Places /\ OneStarter /\ BeforeStart /\ Sockets
      /\ Readers /\ Pings /\ Closing /\ Torn
  BY DEF LifeInv
<1>a. /\ pc' = [pc EXCEPT ![p] = "lockwait"]
      /\ UNCHANGED <<ret, ref, attempts, cancelled, lock, started, stopping,
                     ping>>
  BY <1>0 DEF TypeOK, Restart
<1>1. TypeOK'
  BY <1>0 DEF TypeOK, Restart
<1>2. Places'
  BY <1>0, <1>a DEF Places, TypeOK
<1>3. OneStarter'
  BY <1>0, <1>a DEF OneStarter, Starter, TypeOK
<1>4. BeforeStart'
  BY <1>0, <1>a DEF BeforeStart, NoPing, TypeOK, Places
<1>5. Sockets'
  BY <1>0, <1>a DEF Sockets, At, TypeOK
<1>6. Readers'
  BY <1>0, <1>a DEF Readers, At, TypeOK
<1>7. Pings'
  BY <1>0, <1>a DEF Pings, At, Starter, NoPing, TypeOK
<1>8. Closing'
  BY <1>0, <1>a DEF Closing, Starter, NoReader, NoPing, TypeOK
<1>9. Torn'
  BY <1>0, <1>a DEF Torn, At, OneStarter, TypeOK, Sockets
<1> QED
  BY <1>1, <1>2, <1>3, <1>4, <1>5, <1>6, <1>7, <1>8, <1>9 DEF LifeInv

\* restart() by an invoke() or by the background task of _teardown().
LEMMA RestartsLemma ==
    ASSUME LifeInv, CallerRestart \/ BackgroundRestart
    PROVE  LifeInv'
<1> USE LifecycleAssumption DEF Procs, Busy, Stopping, Starting
<1>0. /\ TypeOK /\ Places /\ OneStarter /\ BeforeStart
  BY DEF LifeInv
<1>1. CASE CallerRestart
  <2>1. /\ Caller \in Procs \ {Owner, Closer} /\ Caller \notin cancelled
        /\ pc[Caller] = "idle" /\ pc[Owner] # "new" /\ ~closed
        /\ started \/ ~startActive
        /\ Restart(Caller)
        /\ UNCHANGED <<closed, teardown, startActive, connection, open,
                       recvTask, pingTask>>
    BY <1>0, <1>1 DEF CallerRestart, TypeOK
  <2>2. lock = None => \A q \in Procs : ~Starter(q)
    BY <1>0, <2>1 DEF OneStarter
  <2> QED
    BY <2>1, <2>2, RestartLemma, LockWaitLemma
<1>2. CASE BackgroundRestart
  <2>1. /\ Background \in Procs \ {Owner, Closer} /\ Background \notin cancelled
        /\ pc[Background] = "spawned" /\ pc[Owner] = "idle"
        /\ Restart(Background)
        /\ UNCHANGED <<closed, teardown, startActive, connection, open,
                       recvTask, pingTask>>
    BY <1>0, <1>2 DEF BackgroundRestart, TypeOK, BeforeStart
  <2>2. lock = None => \A q \in Procs : ~Starter(q)
    BY <1>0, <2>1 DEF OneStarter, Starter
  <2>3. CASE closed
    <3>1. Leave(Background) /\ UNCHANGED <<started, stopping, ping>>
      BY <2>1, <2>3 DEF Restart
    <3>2. ~Starter(Background) /\ {stopping', startActive'} \subseteq BOOLEAN
      BY <1>0, <2>1, <3>1 DEF Starter, TypeOK
    <3> QED
      BY <2>1, <2>3, <3>1, <3>2, LeaveKeeps
  <2> QED
    BY <2>1, <2>2, <2>3, RestartLemma, LockWaitLemma
<1> QED
  BY <1>1, <1>2

\* A read fails: the receive task restarts a started session, else it ends.
LEMMA RecvFailsLemma ==
    ASSUME NEW c \in Conns, LifeInv,
           RecvFails(c)
    PROVE  LifeInv'
<1> USE LifecycleAssumption DEF Procs, Busy, Stopping, Starting
<1>0. /\ TypeOK /\ Places /\ OneStarter /\ BeforeStart /\ Sockets
      /\ Readers /\ Pings /\ Closing /\ Torn
  BY DEF LifeInv
<1>1. /\ c \in Procs \ {Owner, Closer} /\ c \notin cancelled
      /\ pc[c] = "reading" /\ pc[Owner] # "new"
      /\ UNCHANGED <<closed, teardown, startActive, connection, open,
                     recvTask, pingTask>>
  BY <1>0 DEF RecvFails, BeforeStart
<1>2. CASE started
  <2>1. /\ Restart(c) /\ ~closed /\ \A q \in Procs : ~Starter(q)
    BY <1>0, <1>2 DEF RecvFails, OneStarter
  <2> QED
    BY <1>1, <2>1, RestartLemma, LockWaitLemma
<1>3. CASE ~started
  <2>1. /\ pc' = [pc EXCEPT ![c] = "done"]
        /\ UNCHANGED <<ret, ref, attempts, cancelled, started, stopping, lock,
                       ping>>
    BY <1>3 DEF RecvFails
  <2>2. TypeOK'
    BY <1>0, <1>1, <2>1 DEF TypeOK
  <2>3. Places'
    BY <1>0, <1>1, <2>1 DEF Places, TypeOK
  <2>4. OneStarter' /\ BeforeStart'
    BY <1>0, <1>1, <2>1 DEF OneStarter, Starter, BeforeStart, NoPing, TypeOK
  <2>5. Sockets'
    BY <1>0, <1>1, <2>1 DEF Sockets, At, TypeOK
  <2>6. Readers'
    BY <1>0, <1>1, <2>1 DEF Readers, At, TypeOK
  <2>7. Pings'
    BY <1>0, <1>1, <2>1 DEF Pings, At, Starter, NoPing, TypeOK
  <2>8. Closing'
    BY <1>0, <1>1, <2>1 DEF Closing, Starter, NoReader, NoPing, TypeOK
  <2>9. Torn'
    BY <1>0, <1>1, <2>1 DEF Torn, At, OneStarter, TypeOK
  <2> QED
    BY <2>2, <2>3, <2>4, <2>5, <2>6, <2>7, <2>8, <2>9 DEF LifeInv
<1> QED
  BY <1>2, <1>3

\* A packet that breaks the protocol arrives on a started session.
LEMMA BrokenPacketLemma ==
    ASSUME LifeInv, ~BrokenAnytime, BrokenPacket
    PROVE  LifeInv'
<1> USE LifecycleAssumption DEF Procs, Busy, Stopping, Starting
<1>0. /\ TypeOK /\ Places /\ OneStarter /\ BeforeStart /\ Sockets
      /\ Readers /\ Pings /\ Closing /\ Torn
  BY DEF LifeInv
<1>a. /\ started /\ lock = None /\ pc[Owner] = "idle" /\ teardown' = TRUE
      /\ pc[Background] = "idle"
      /\ pc' = [pc EXCEPT ![Background] = "spawned"]
      /\ UNCHANGED <<ret, ref, attempts, cancelled, started, stopping, closed,
                     startActive, lock, connection, open, recvTask, pingTask,
                     ping>>
  BY <1>0 DEF TypeOK, Places, BeforeStart, BrokenPacket, links, Resting
<1>1. TypeOK'
  BY <1>0, <1>a DEF TypeOK
<1>2. Places'
  BY <1>0, <1>a DEF Places, TypeOK
<1>3. OneStarter'
  BY <1>0, <1>a DEF OneStarter, Starter, TypeOK
<1>4. BeforeStart'
  BY <1>0, <1>a DEF BeforeStart, NoPing, TypeOK
<1>5. Sockets'
  BY <1>0, <1>a DEF Sockets, At, TypeOK
<1>6. Readers'
  BY <1>0, <1>a DEF Readers, At, TypeOK
<1>7. Pings'
  BY <1>0, <1>a DEF Pings, At, Starter, NoPing, TypeOK
<1>8. Closing'
  BY <1>0, <1>a DEF Closing, Starter, NoReader, NoPing, TypeOK
<1>9. Torn'
  BY <1>0, <1>a DEF Torn, At, OneStarter, TypeOK, Starter
<1> QED
  BY <1>1, <1>2, <1>3, <1>4, <1>5, <1>6, <1>7, <1>8, <1>9 DEF LifeInv

\* _stop() is done with the ping task.
LEMMA StopRecvTaskLemma ==
    ASSUME NEW p \in Procs, LifeInv,
           StopRecvTask(p)
    PROVE  LifeInv'
<1> USE LifecycleAssumption DEF Procs, Busy, Stopping, Starting
<1>0. /\ TypeOK /\ Places /\ OneStarter /\ BeforeStart /\ Sockets
      /\ Readers /\ Pings /\ Closing /\ Torn
  BY DEF LifeInv
<1>a. /\ pc[p] = "ping"
      /\ ref[p] # None /\ p \notin cancelled => ping[ref[p]] = "none"
      /\ \/ /\ recvTask # None /\ recvTask # p
            /\ pc' = [pc EXCEPT ![p] = "recv"]
            /\ ref' = [ref EXCEPT ![p] = recvTask]
            /\ cancelled' \subseteq (cancelled \ {p}) \cup {recvTask}
            /\ recvTask \in cancelled' => pc[recvTask] # "done"
         \/ /\ recvTask \in {None, p}
            /\ pc' = [pc EXCEPT ![p] = "close"]
            /\ ref' = [ref EXCEPT ![p] = connection]
            /\ cancelled' = cancelled \ {p}
      /\ UNCHANGED <<ret, attempts, started, stopping, closed, teardown,
                     startActive, lock, connection, open, recvTask, pingTask,
                     ping>>
  BY <1>0 DEF TypeOK, Readers, StopRecvTask, flags, links
<1>b. p # Closer \/ (recvTask \in Procs /\ Starter(recvTask)) => NoPing
  BY <1>0, <1>a DEF Pings, At, Starter, NoPing, TypeOK
<1>c. (closed /\ ref[p] = pingTask /\ p = Closer) => NoPing
  BY <1>0, <1>a DEF Pings, NoPing, TypeOK
<1>1. TypeOK'
  BY <1>0 DEF TypeOK, StopRecvTask, flags, links
<1>2. Places'
  BY <1>0, <1>a DEF Places, TypeOK
<1>3. OneStarter'
  BY <1>0, <1>a DEF OneStarter, Starter, TypeOK
<1>4. BeforeStart'
  BY <1>0, <1>a DEF BeforeStart, NoPing, TypeOK, Places
<1>5. Sockets'
  BY <1>0, <1>a DEF Sockets, At, TypeOK
<1>6. Readers'
  BY <1>0, <1>a DEF Readers, At, TypeOK
<1>7. Pings'
  BY <1>0, <1>a, <1>b DEF Pings, At, Starter, NoPing, TypeOK, OneStarter, Readers
<1>8. Closing'
  BY <1>0, <1>a, <1>c DEF Closing, Starter, NoReader, NoPing, TypeOK, Readers
<1>9. Torn'
  BY <1>0, <1>a DEF Torn, At, OneStarter, TypeOK
<1> QED
  BY <1>1, <1>2, <1>3, <1>4, <1>5, <1>6, <1>7, <1>8, <1>9 DEF LifeInv

\* _stop() is done with the receive task.
LEMMA StopCloseLemma ==
    ASSUME NEW p \in Procs, LifeInv,
           StopClose(p)
    PROVE  LifeInv'
<1> USE LifecycleAssumption DEF Procs, Busy, Stopping, Starting
<1>0. /\ TypeOK /\ Places /\ OneStarter /\ BeforeStart /\ Sockets
      /\ Readers /\ Pings /\ Closing /\ Torn
  BY DEF LifeInv
<1>a. /\ pc[p] = "recv"
      /\ p \notin cancelled => pc[ref[p]] = "done"
      /\ pc' = [pc EXCEPT ![p] = "close"]
      /\ ref' = [ref EXCEPT ![p] = connection]
      /\ cancelled' = cancelled \ {p}
      /\ UNCHANGED <<ret, attempts, started, stopping, closed, teardown,
                     startActive, lock, connection, open, recvTask, pingTask,
                     ping>>
  BY <1>0 DEF TypeOK, StopClose, flags, links
<1>1. TypeOK'
  BY <1>0 DEF TypeOK, StopClose, flags, links
<1>2. Places'
  BY <1>0, <1>a DEF Places, TypeOK
<1>3. OneStarter'
  BY <1>0, <1>a DEF OneStarter, Starter, TypeOK
<1>4. BeforeStart'
  BY <1>0, <1>a DEF BeforeStart, NoPing, TypeOK
<1>5. Sockets'
  BY <1>0, <1>a DEF Sockets, At, TypeOK
<1>6. Readers'
  BY <1>0, <1>a DEF Readers, At, TypeOK
<1>7. Pings'
  BY <1>0, <1>a DEF Pings, At, Starter, NoPing, TypeOK
<1>8. Closing'
  BY <1>0, <1>a DEF Closing, Starter, NoReader, NoPing, TypeOK, Readers
<1>9. Torn'
  BY <1>0, <1>a DEF Torn, At, OneStarter, TypeOK
<1> QED
  BY <1>1, <1>2, <1>3, <1>4, <1>5, <1>6, <1>7, <1>8, <1>9 DEF LifeInv

\* _stop() has closed the connection.
LEMMA ClosedLemma ==
    ASSUME NEW p \in Procs, LifeInv,
           Closed(p)
    PROVE  LifeInv'
<1> USE LifecycleAssumption DEF Procs, Busy, Stopping, Starting
<1>0. /\ TypeOK /\ Places /\ OneStarter /\ BeforeStart /\ Sockets
      /\ Readers /\ Pings /\ Closing /\ Torn
  BY DEF LifeInv
<1>a. /\ pc[p] = "close" /\ p \notin cancelled
      /\ open' = open \ {ref[p]}
      /\ pc' = [pc EXCEPT ![p] = "unhook"]
      /\ ref' = [ref EXCEPT ![p] = None]
      /\ UNCHANGED <<ret, attempts, cancelled, started, stopping, closed,
                     teardown, startActive, lock, connection, recvTask,
                     pingTask, ping>>
  BY <1>0 DEF TypeOK, Closed, flags
<1>1. TypeOK'
  BY <1>0 DEF TypeOK, Closed, flags
<1>2. Places'
  BY <1>0, <1>a DEF Places, TypeOK
<1>3. OneStarter'
  BY <1>0, <1>a DEF OneStarter, Starter, TypeOK
<1>4. BeforeStart'
  BY <1>0, <1>a DEF BeforeStart, NoPing, TypeOK
<1>5. Sockets'
  BY <1>0, <1>a DEF Sockets, At, TypeOK
<1>6. Readers'
  BY <1>0, <1>a DEF Readers, At, TypeOK
<1>7. Pings'
  BY <1>0, <1>a DEF Pings, At, Starter, NoPing, TypeOK
<1>8. Closing'
  BY <1>0, <1>a DEF Closing, Starter, NoReader, NoPing, TypeOK, Sockets
<1>9. Torn'
  BY <1>0, <1>a DEF Torn, At, OneStarter, TypeOK, Places, Sockets
<1> QED
  BY <1>1, <1>2, <1>3, <1>4, <1>5, <1>6, <1>7, <1>8, <1>9 DEF LifeInv

\* Every step keeps the invariant.
LEMMA NextLemma ==
    ASSUME ~BrokenAnytime, LifeInv, [Next]_vars
    PROVE  LifeInv'
<1>1. ASSUME NEW p \in Procs, Step(p) PROVE LifeInv'
  <2>1. Resume(p) => LifeInv'
    BY ResumeLateLemma, ResumeLemma
  <2> QED
    BY <1>1, <2>1, ConnectOkLemma, AnsweredLemma, TryFailsLemma, LeavesLemma,
       BackoffLemma, StopRecvTaskLemma, StopCloseLemma, ClosedLemma,
       StoppedLemma DEF Step
<1>2. ASSUME NEW c \in Conns, PingEnds(c) \/ RecvFails(c) \/ RecvCancelled(c)
      PROVE  LifeInv'
  BY <1>2, PingEndsLemma, RecvFailsLemma, RecvCancelledLemma
<1>3. ASSUME UNCHANGED vars PROVE LifeInv'
  <2> USE <1>3 DEF vars
  <2>1. TypeOK' /\ Places' /\ OneStarter' /\ BeforeStart'
    BY DEF LifeInv, TypeOK, Places, OneStarter, BeforeStart, Starter, NoPing
  <2>2. Sockets' /\ Readers' /\ Pings'
    BY DEF LifeInv, Sockets, Readers, Pings, At, Starter, NoPing
  <2>3. Closing' /\ Torn'
    BY DEF LifeInv, Closing, Torn, At, Starter, NoReader, NoPing
  <2> QED
    BY <2>1, <2>2, <2>3 DEF LifeInv
<1> QED
  BY <1>1, <1>2, <1>3, OwnerStartLemma, StopLemma, RestartsLemma,
     BrokenPacketLemma DEF Next, Terminated

\* While a packet can break the protocol only on a session that is started, the
\* task that restarts it is the only one at work, and what it does at each await
\* fits what is left of the old connection.
THEOREM LifeInvariant ==
    ASSUME ~BrokenAnytime
    PROVE  Spec => []LifeInv
<1>1. LifeInv /\ [Next]_vars => LifeInv'
  BY NextLemma
<1> QED
  BY InitLemma, <1>1, PTL DEF Spec

\* A set with at most one element has cardinality 0 or 1.
LEMMA AtMostOne ==
    ASSUME NEW x, NEW S, S \subseteq {x}
    PROVE  Cardinality(S) <= 1
<1>1. IsFiniteSet({x}) /\ Cardinality({x}) = 1
  BY FS_Singleton
<1> QED
  BY <1>1, FS_Subset

\* One socket and one reader, whatever tasks restart the session: the lock of
\* restart(), _start_active and the order of _stop() see to it.
THEOREM OneConnectionTheorem ==
    ASSUME ~BrokenAnytime
    PROVE  Spec => []OneConnection
<1>1. LifeInv => OneConnection
  <2> SUFFICES ASSUME LifeInv PROVE OneConnection
    OBVIOUS
  <2>1. TypeOK /\ open \subseteq {connection}
    BY DEF LifeInv, Sockets
  <2>2. {c \in Conns : pc[c] = "reading"} \subseteq {recvTask}
    BY DEF LifeInv, Readers
  <2> QED
    BY <2>1, <2>2, AtMostOne DEF OneConnection
<1> QED
  BY <1>1, LifeInvariant, PTL

\* Nothing of a stopped session is left once every task is at rest, wherever in
\* a start or a restart stop() was called.
THEOREM StopIsFinalTheorem ==
    ASSUME ~BrokenAnytime
    PROVE  Spec => []StopIsFinal
<1>1. LifeInv => StopIsFinal
  <2> SUFFICES ASSUME LifeInv PROVE StopIsFinal
    OBVIOUS
  <2> USE LifecycleAssumption DEF Procs, Busy, Stopping, Starting
  <2>1. Places /\ OneStarter /\ Closing
    BY DEF LifeInv
  <2>2. ASSUME closed, Quiet
        PROVE  open = {} /\ NoReader /\ NoPing
    BY <2>1, <2>2 DEF Quiet, Resting, Closing, Starter
  <2>3. ASSUME closed, Quiet, NEW c \in Conns
        PROVE  pc[c] = "done"
    BY <2>1, <2>2, <2>3 DEF Quiet, Resting, Places, NoReader
  <2> QED
    BY <2>1, <2>2, <2>3 DEF StopIsFinal, OneStarter, NoPing
<1> QED
  BY <1>1, LifeInvariant, PTL

\* The connection that brought a broken packet is closed or replaced once every
\* task is at rest: its restart has run, or another one closed it first.
THEOREM TeardownClosesTheorem ==
    ASSUME ~BrokenAnytime
    PROVE  Spec => []TeardownCloses
<1>1. LifeInv => TeardownCloses
  <2> SUFFICES ASSUME LifeInv, teardown, Quiet PROVE connection \notin open
    BY DEF TeardownCloses
  <2> USE LifecycleAssumption DEF Procs, Busy, Stopping, Starting
  <2>1. Closing /\ Torn
    BY DEF LifeInv
  <2>2. /\ \A p \in Procs : pc[p] \in {"new", "idle", "done", "reading"}
    BY DEF Quiet, Resting
  <2> QED
    BY <2>1, <2>2 DEF Closing, Torn, Starter, At
<1> QED
  BY <1>1, LifeInvariant, PTL

=============================================================================
