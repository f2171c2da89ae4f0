----------------------------- MODULE SessionRpc ----------------------------
(***************************************************************************)
(* Requests over one pyrogram/session/session.py Session: invoke(),        *)
(* _wait_started() and send(), the results they wait for, handle_packet()  *)
(* filling them in and _fail_pending() giving them up while the connection *)
(* is lost, restarted or stopped.  A call's pc is the await it is at:      *)
(*   gate     _start_completed, in _wait_started(); then "gated"           *)
(*   restart  restart(), called from _wait_started(); then "restarted"     *)
(*   write    connection.send()                                            *)
(*   wait     the event of its result; "late" once the wait timed out      *)
(*   sleep    a backoff or the seconds of a FloodWait                      *)
(*   join     restart(), after a send that failed; then "joined"           *)
(* What start() and _stop() do in detail is SessionLifecycle's subject;    *)
(* here a session is a phase.  A message is handled at most once           *)
(* (SessionReplay).  The server is external.                               *)
(***************************************************************************)
EXTENDS FiniteSets, Naturals

CONSTANTS
    Calls,       \* calls of invoke()
    Ids,         \* message ids; one that nothing refers to is used again
    None,
    Kinds,       \* what the server may answer to a message it accepts
    Retries,     \* the retries given to invoke()
    BadMsgMax,   \* the 1 of send(): resends after a bad_msg_notification
    BadSaltMax,  \* the 3 of send(): resends after a bad_server_salt
    FloodMax,    \* FloodWaits that fit into the flood budget
    MaxSalt      \* bound on how often the server changes its salt

VARIABLES
    pc,          \* where each call is suspended, or how it ended
    msg,         \* the message each call has in send(): its id and salt
    resend,      \* the retry argument of send()
    retries,     \* retries left to each call
    floods,      \* FloodWaits each call has slept through
    results,     \* Session.results
    salt,        \* Session.salt
    phase,       \* where start(), _stop() and restart() are
    closed,      \* Session._closed
    restarter,   \* the call that runs restart(), None for recv_worker
    startExc,    \* is Session._start_exc set?
    wire,        \* requests on their way
    replies,     \* what the server has sent and we have not handled yet
    serverSalt,  \* the salt the server accepts
    executed     \* history: calls the server has answered

calls == <<pc, msg, resend, retries, floods>>
session == <<phase, closed, restarter, startExc>>
server == <<wire, replies, serverSalt, executed>>
vars == <<pc, msg, resend, retries, floods, results, salt, phase, closed,
          restarter, startExc, wire, replies, serverSalt, executed>>

Salts == 0..MaxSalt
Sending == {"write", "wait", "late"}
Over == {"returned", "raised", "cancelled"}
Reply == [kind : Kinds \cup {"salt"}, salt : Salts]
Empty == [kind |-> "none", salt |-> 0]
Lost == [kind |-> "lost", salt |-> 0]

ASSUME RpcAssumption ==
    /\ IsFiniteSet(Calls) /\ IsFiniteSet(Ids)
    /\ None \notin Calls \cup Ids \cup Reply \cup {Empty, Lost}
    /\ None \notin [id : Ids, salt : Salts]
    /\ Kinds \subseteq {"answer", "error", "busy", "flood", "badmsg"}
    /\ Retries \in Nat \ {0}
    /\ Cardinality(Ids) >= Retries * Cardinality(Calls)
    /\ BadMsgMax \in Nat /\ BadSaltMax \in Nat /\ BadMsgMax <= BadSaltMax
    /\ FloodMax \in Nat /\ MaxSalt \in Nat

TypeOK ==
    /\ pc \in [Calls -> Sending \cup Over \cup
                          {"idle", "gate", "gated", "restart", "restarted",
                           "sleep", "join", "joined"}]
    /\ msg \in [Calls -> [id : Ids, salt : Salts] \cup {None}]
    /\ resend \in [Calls -> 0..(BadSaltMax + 1)]
    /\ retries \in [Calls -> 0..Retries]
    /\ floods \in [Calls -> 0..FloodMax]
    /\ results \in [Ids -> Reply \cup {Empty, Lost, None}]
    /\ salt \in Salts /\ serverSalt \in Salts
    /\ phase \in {"up", "stopping", "connecting", "down"}
    /\ closed \in BOOLEAN /\ startExc \in BOOLEAN
    /\ restarter \in Calls \cup {None}
    /\ wire \subseteq [id : Ids, salt : Salts, call : Calls]
    /\ replies \subseteq [id : Ids \cup {None}, kind : Kinds \cup {"salt", "created"},
                          salt : Salts]
    /\ executed \subseteq Calls

Init ==
    /\ pc = [c \in Calls |-> "idle"]
    /\ msg = [c \in Calls |-> None]
    /\ resend = [c \in Calls |-> 0]
    /\ retries = [c \in Calls |-> Retries] /\ floods = [c \in Calls |-> 0]
    /\ results = [i \in Ids |-> None]
    /\ salt = 0 /\ serverSalt = 0
    /\ phase = "up" /\ closed = FALSE /\ startExc = FALSE /\ restarter = None
    /\ wire = {} /\ replies = {} /\ executed = {}

----------------------------------------------------------------------------
(* The parts send() and _invoke() are made of *)

\* Mutant: an id may be one a late answer is still to come for.
FreshUnchecked(i, pending) == pending[i] = None

\* MsgId() never repeats itself.
Fresh(i, pending) ==
    /\ pending[i] = None
    /\ \A m \in wire \cup replies : m.id # i

\* The head of send(): the message gets its id and is packed with the salt s.
BeginSend(c, n, s, pending) ==
    LET i == CHOOSE i \in Ids : Fresh(i, pending)
    IN  /\ i \in Ids /\ Fresh(i, pending)
        /\ pc' = [pc EXCEPT ![c] = "write"]
        /\ msg' = [msg EXCEPT ![c] = [id |-> i, salt |-> s]]
        /\ resend' = [resend EXCEPT ![c] = n]
        /\ results' = [pending EXCEPT ![i] = Empty]

\* c is suspended at, or has ended with, p; it has no message in send().
Leave(c, p, pending) ==
    /\ pc' = [pc EXCEPT ![c] = p]
    /\ msg' = [msg EXCEPT ![c] = None]
    /\ resend' = [resend EXCEPT ![c] = 0]
    /\ results' = pending

\* restart() up to its first await: one that is running is waited for.
Restart(c) ==
    /\ phase' = IF phase \in {"up", "down"} THEN "stopping" ELSE phase
    /\ restarter' = IF phase \in {"up", "down"} THEN c ELSE restarter

\* _wait_started(), once no start() is running.
WaitStarted(c, pending) ==
    \/ /\ closed
       /\ Leave(c, "raised", pending)
       /\ UNCHANGED <<phase, restarter>>
    \/ /\ ~closed /\ phase # "up"
       /\ Leave(c, "restart", pending)
       /\ Restart(c)
    \/ /\ ~closed /\ phase = "up"
       /\ BeginSend(c, 0, salt, pending)
       /\ UNCHANGED <<phase, restarter>>

\* The head of the loop in _invoke(): a start() in progress is waited for.
Loop(c, pending) ==
    IF phase = "connecting"
       THEN Leave(c, "gate", pending) /\ UNCHANGED <<phase, restarter>>
       ELSE WaitStarted(c, pending)

\* Mutant: the entry stays in results.
WithoutKept(c) == results

\* results.pop(msg_id)
Without(c) == [results EXCEPT ![msg[c].id] = None]

\* A failed send that is to be repeated after a while.
RetrySoon(c) ==
    /\ retries' = [retries EXCEPT ![c] = @ - 1]
    /\ Leave(c, IF retries[c] = 1 THEN "raised" ELSE "sleep", Without(c))
    /\ UNCHANGED <<phase, restarter>>

\* A failed send that calls for a new connection first; restart() returns at
\* once when the session is stopped.
RetryRestart(c) ==
    /\ retries' = [retries EXCEPT ![c] = @ - 1]
    /\ IF retries[c] = 1
          THEN Leave(c, "raised", Without(c)) /\ UNCHANGED <<phase, restarter>>
          ELSE IF closed THEN Loop(c, Without(c))
          ELSE Leave(c, "join", Without(c)) /\ Restart(c)

----------------------------------------------------------------------------
(* A call *)

Invoke(c) ==
    /\ pc[c] = "idle"
    /\ Loop(c, results)
    /\ UNCHANGED <<retries, floods, salt, closed, startExc, server>>

\* start() is over: started, stopped, or failed, which calls for a restart.
Gated(c) ==
    /\ pc[c] = "gated"
    /\ WaitStarted(c, results)
    /\ UNCHANGED <<retries, floods, salt, closed, startExc, server>>

\* restart() is over, in _wait_started(); without an exception to raise the
\* send is tried, whatever became of the session.
Restarted(c) ==
    /\ pc[c] = "restarted"
    /\ IF phase # "up" /\ startExc THEN Leave(c, "raised", results)
                                     ELSE BeginSend(c, 0, salt, results)
    /\ UNCHANGED <<retries, floods, salt, session, server>>

\* restart() is over, or the time to sleep: round the loop again.
Again(c) ==
    /\ pc[c] \in {"sleep", "joined"}
    /\ Loop(c, results)
    /\ UNCHANGED <<retries, floods, salt, closed, startExc, server>>

Written(c) ==
    /\ pc[c] = "write" /\ phase # "down"
    /\ pc' = [pc EXCEPT ![c] = "wait"]
    /\ wire' = wire \cup {[id |-> msg[c].id, salt |-> msg[c].salt, call |-> c]}
    /\ UNCHANGED <<msg, resend, retries, floods, results, salt, session,
                   replies, serverSalt, executed>>

\* OSError or a timeout in connection.send().
WriteFails(c) ==
    /\ pc[c] = "write"
    /\ RetrySoon(c) \/ RetryRestart(c)
    /\ UNCHANGED <<floods, salt, closed, startExc, server>>

\* The wait times out; until the task runs again an answer may still come.
Timeout(c) ==
    /\ pc[c] = "wait" /\ results[msg[c].id] = Empty
    /\ pc' = [pc EXCEPT ![c] = "late"]
    /\ UNCHANGED <<msg, resend, retries, floods, results, salt, session, server>>

\* The task runs again and finds a result of this kind.
Finds(c, kind) ==
    /\ pc[c] \in {"wait", "late"}
    /\ results[msg[c].id].kind = kind

Returns(c) ==
    /\ Finds(c, "answer")
    /\ Leave(c, "returned", Without(c))
    /\ UNCHANGED <<retries, floods, salt, session, server>>

Refused(c) ==
    /\ Finds(c, "error")
    /\ Leave(c, "raised", Without(c))
    /\ UNCHANGED <<retries, floods, salt, session, server>>

\* "Request timed out": is the connection dead, or only slow?
Silent(c) ==
    /\ pc[c] = "late" /\ Finds(c, "none")
    /\ RetrySoon(c) \/ RetryRestart(c)
    /\ UNCHANGED <<floods, salt, closed, startExc, server>>

\* "Connection lost while awaiting a response", or a 500 or 503.
Disconnected(c) ==
    /\ Finds(c, "lost") \/ Finds(c, "busy")
    /\ RetrySoon(c)
    /\ UNCHANGED <<floods, salt, closed, startExc, server>>

\* Mutant: the seconds slept are not added up.
FloodedUncounted(c) ==
    /\ Finds(c, "flood")
    /\ Leave(c, "sleep", Without(c))
    /\ UNCHANGED <<retries, floods, salt, session, server>>

\* A FloodWait is slept through without counting as a retry, as long as the
\* flood budget lasts.
Flooded(c) ==
    /\ Finds(c, "flood")
    /\ IF floods[c] < FloodMax
          THEN /\ floods' = [floods EXCEPT ![c] = @ + 1]
               /\ Leave(c, "sleep", Without(c))
          ELSE Leave(c, "raised", Without(c)) /\ UNCHANGED floods
    /\ UNCHANGED <<retries, salt, session, server>>

BadMsg(c) ==
    /\ Finds(c, "badmsg")
    /\ IF resend[c] > BadMsgMax
          THEN Leave(c, "raised", Without(c))
          ELSE BeginSend(c, resend[c] + 1, salt, Without(c))
    /\ UNCHANGED <<retries, floods, salt, session, server>>

BadSalt(c) ==
    /\ Finds(c, "salt")
    /\ IF resend[c] > BadSaltMax
          THEN Leave(c, "raised", Without(c)) /\ UNCHANGED salt
          ELSE LET s == results[msg[c].id].salt
               IN  salt' = s /\ BeginSend(c, resend[c] + 1, s, Without(c))
    /\ UNCHANGED <<retries, floods, session, server>>

\* The caller's task is cancelled; send() cleans up in its finally.
Cancel(c) ==
    /\ pc[c] \notin Over \cup {"idle"} /\ c # restarter
    /\ Leave(c, "cancelled", IF pc[c] \in Sending THEN Without(c) ELSE results)
    /\ UNCHANGED <<retries, floods, salt, session, server>>

----------------------------------------------------------------------------
(* The session *)

\* Mutant: a result that is there already is overwritten.
FailPendingOver == [i \in Ids |-> IF results[i] = None THEN None ELSE Lost]

\* _fail_pending()
FailPending == [i \in Ids |-> IF results[i] = Empty THEN Lost ELSE results[i]]

\* start() and the restart() around it are over: whoever waits is woken.
Woken(p) ==
    CASE p = "gate" -> "gated"
      [] p = "restart" -> "restarted"
      [] p = "join" -> "joined"
      [] OTHER -> p
Wake == pc' = [c \in Calls |-> Woken(pc[c])]

\* recv_worker: the connection fails.
ConnectionFails ==
    /\ phase = "up"
    /\ results' = FailPending
    /\ phase' = "stopping"
    /\ restarter' = None
    /\ UNCHANGED <<calls, salt, closed, startExc, server>>

\* _stop() is through: the connection is closed and nobody waits on it.
Stopped ==
    /\ phase = "stopping"
    /\ results' = FailPending
    /\ wire' = {}
    /\ phase' = IF closed THEN "down" ELSE "connecting"
    /\ restarter' = IF closed THEN None ELSE restarter
    /\ startExc' = IF closed THEN startExc ELSE FALSE
    /\ IF closed THEN Wake ELSE UNCHANGED pc
    /\ UNCHANGED <<msg, resend, retries, floods, salt, closed, replies,
                   serverSalt, executed>>

StartOk ==
    /\ phase = "connecting" /\ ~closed
    /\ phase' = "up"
    /\ restarter' = None
    /\ Wake
    /\ UNCHANGED <<msg, resend, retries, floods, results, salt, closed, startExc,
                   server>>

\* An attempt fails and start() has others left, or the session is stopped.
AttemptFails ==
    /\ phase = "connecting"
    /\ results' = FailPending
    /\ wire' = {}
    /\ phase' = IF closed THEN "down" ELSE "connecting"
    /\ restarter' = IF closed THEN None ELSE restarter
    /\ IF closed THEN Wake ELSE UNCHANGED pc
    /\ UNCHANGED <<msg, resend, retries, floods, salt, closed, startExc, replies,
                   serverSalt, executed>>

\* The last attempt of restart() fails: its exception ends the call that
\* awaits restart() itself.
StartFails ==
    /\ phase = "connecting" /\ ~closed
    /\ results' = FailPending
    /\ wire' = {}
    /\ phase' = "down"
    /\ startExc' = TRUE
    /\ restarter' = None
    /\ pc' = [c \in Calls |-> IF c = restarter THEN "raised" ELSE Woken(pc[c])]
    /\ UNCHANGED <<msg, resend, retries, floods, salt, closed, replies,
                   serverSalt, executed>>

\* The call that runs restart() is cancelled.  start() stops the session and
\* records the cancellation; in _stop() it goes through and leaves what is
\* pending to time out.
CancelRestart(c) ==
    /\ c = restarter
    /\ phase' = "down"
    /\ restarter' = None
    /\ pc' = [d \in Calls |-> IF d = c THEN "cancelled" ELSE Woken(pc[d])]
    /\ wire' = {}
    /\ IF phase = "connecting" THEN results' = FailPending /\ startExc' = TRUE
                               ELSE UNCHANGED <<results, startExc>>
    /\ UNCHANGED <<msg, resend, retries, floods, salt, closed, replies,
                   serverSalt, executed>>

Stop ==
    /\ ~closed
    /\ closed' = TRUE
    /\ phase' = IF phase = "connecting" THEN phase ELSE "stopping"
    /\ UNCHANGED <<calls, results, salt, restarter, startExc, server>>

\* handle_packet: what was sent for a message goes into its result, if
\* somebody waits for it; a new salt is taken over at once.
Deliver(r) ==
    /\ r \in replies
    /\ phase \in {"up", "connecting"}
    /\ replies' = replies \ {r}
    /\ salt' = IF r.kind \in {"salt", "created"} THEN r.salt ELSE salt
    /\ results' = [i \in Ids |->
                     IF i = r.id /\ results[i] # None
                        THEN [kind |-> r.kind, salt |-> r.salt] ELSE results[i]]
    /\ UNCHANGED <<calls, session, wire, serverSalt, executed>>

----------------------------------------------------------------------------
(* The server *)

Serve(m) ==
    /\ m \in wire
    /\ wire' = wire \ {m}
    /\ \E kind \in Kinds :
          LET k == IF m.salt = serverSalt THEN kind ELSE "salt"
          IN  /\ replies' = replies \cup
                              {[id |-> m.id, kind |-> k, salt |-> serverSalt]}
              /\ executed' = IF k = "answer" THEN executed \cup {m.call} ELSE executed
    /\ UNCHANGED <<calls, results, salt, session, serverSalt>>

\* The salt changes, with or without a new_session_created.
NewSalt ==
    /\ serverSalt < MaxSalt
    /\ serverSalt' = serverSalt + 1
    /\ \/ UNCHANGED replies
       \/ replies' = replies \cup
                       {[id |-> None, kind |-> "created", salt |-> serverSalt + 1]}
    /\ UNCHANGED <<calls, results, salt, session, wire, executed>>

Terminated ==
    /\ closed /\ phase = "down" /\ \A c \in Calls : pc[c] \in Over
    /\ UNCHANGED vars

Run(c) ==
    \/ Gated(c)
    \/ Restarted(c)
    \/ Again(c)
    \/ Written(c)
    \/ WriteFails(c)
    \/ Timeout(c)
    \/ Returns(c)
    \/ Refused(c)
    \/ Silent(c)
    \/ Disconnected(c)
    \/ Flooded(c)
    \/ BadMsg(c)
    \/ BadSalt(c)

Next ==
    \/ \E c \in Calls : Invoke(c) \/ Run(c) \/ Cancel(c) \/ CancelRestart(c)
    \/ ConnectionFails
    \/ Stopped
    \/ StartOk
    \/ AttemptFails
    \/ StartFails
    \/ Stop
    \/ \E r \in replies : Deliver(r)
    \/ \E m \in wire : Serve(m)
    \/ NewSalt
    \/ Terminated

(***************************************************************************)
(* Every await of a call has a timeout or is on a restart(), and restart() *)
(* ends: _stop() does (SessionLifecycle), and start() is given a limit.    *)
(* Nothing is asked of the server or of the network.                       *)
(***************************************************************************)
Fairness ==
    /\ \A c \in Calls : WF_vars(Run(c))
    /\ WF_vars(Stopped)
    /\ WF_vars(StartOk \/ StartFails \/ (AttemptFails /\ closed))

Spec == Init /\ [][Next]_vars /\ Fairness

----------------------------------------------------------------------------
(***************************************************************************)
(* Session.results holds an entry for each message somebody is waiting     *)
(* for, each its own, and no other: whatever ends a send(), be it an       *)
(* answer, a timeout, a failed write, a lost connection or a cancellation, *)
(* a client that runs for weeks does not collect them.                     *)
(***************************************************************************)
ResultsExact ==
    /\ TypeOK
    /\ \A c, d \in Calls : msg[c] # None /\ msg[d] # None /\ c # d =>
          msg[c].id # msg[d].id
    /\ {i \in Ids : results[i] # None} =
          {msg[c].id : c \in {d \in Calls : pc[d] \in Sending}}

(***************************************************************************)
(* An answer that has been received is not thrown away: the call returns   *)
(* it, although the connection is lost or the wait times out in the moment *)
(* before its task runs again.  Sending the request once more would        *)
(* execute it twice.                                                       *)
(***************************************************************************)
Answered(c) == pc[c] \in Sending /\ results[msg[c].id].kind = "answer"
AnswerKept ==
    [][\A c \in Calls : Answered(c) =>
          Answered(c)' \/ pc'[c] \in {"returned", "cancelled"}]_vars

\* Every call ends, however often it is told to wait, to try again or to
\* use another salt, and whatever becomes of the session.
CallsEnd == \A c \in Calls : pc[c] # "idle" ~> pc[c] \in Over

----------------------------------------------------------------------------
Outcome(c) ==
    CASE pc[c] = "idle" -> "idle"
      [] pc[c] = "returned" -> "returned"
      [] pc[c] \in {"raised", "cancelled"} -> "failed"
      [] OTHER -> "pending"

Call == INSTANCE RpcCall WITH outcome <- [c \in Calls |-> Outcome(c)]

(***************************************************************************)
(* The session implements RpcCall: what a call returns was the server's    *)
(* answer to that call and not to another one, or to an earlier message    *)
(* whose answer is late.                                                   *)
(***************************************************************************)
ImplementsCall == Call!Spec

=============================================================================
