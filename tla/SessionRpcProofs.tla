-------------------------- MODULE SessionRpcProofs -------------------------
(***************************************************************************)
(* What Session.results holds, that an answer is not lost, and that the    *)
(* session implements RpcCall step by step, for every number of calls, of  *)
(* retries and of salts, and whatever the server may answer.               *)
(***************************************************************************)
EXTENDS SessionRpc, TLAPS

----------------------------------------------------------------------------
(* The inductive invariant *)

\* A call has a message exactly while it is in send(), and no two have the
\* same one.
OwnMessage ==
    /\ \A c \in Calls : msg[c] # None <=> pc[c] \in Sending
    /\ \A c, d \in Calls : msg[c] # None /\ msg[d] # None /\ c # d =>
          msg[c].id # msg[d].id

\* There is a result for a message exactly while a call is in send() with it.
OwnResult ==
    \A i \in Ids : results[i] # None <=>
                   \E c \in Calls : pc[c] \in Sending /\ msg[c].id = i

\* A call goes on only while it has a retry left, and the call that runs
\* restart() is waiting for it.
CallsInOrder ==
    /\ \A c \in Calls : pc[c] \notin Over => retries[c] > 0
    /\ restarter # None => pc[restarter] \in {"restart", "join"}
    /\ phase \in {"up", "down"} => restarter = None

\* A message is answered once: it is on its way, or a reply to it is, or
\* neither, and while one is, nothing has come in for the call that waits.
AnsweredOnce ==
    /\ \A m \in wire, r \in replies : m.id # r.id
    /\ \A m, n \in wire : m.id = n.id => m = n
    /\ \A r, s \in replies : r.id = s.id => r = s \/ r.id = None
    /\ \A r \in replies : r.kind = "created" <=> r.id = None
    /\ \A m \in wire \cup replies, c \in Calls :
          pc[c] \in Sending /\ msg[c].id = m.id =>
             pc[c] # "write" /\ results[m.id] \in {Empty, Lost}
    /\ \A c \in Calls : pc[c] = "write" => results[msg[c].id] \in {Empty, Lost}

\* A message, a reply to it and the result it brings belong to the one call.
Belongs ==
    /\ \A m \in wire : pc[m.call] # "idle"
    /\ \A m \in wire, c \in Calls : pc[c] \in Sending /\ msg[c].id = m.id => c = m.call
    /\ \A r \in replies, c \in Calls :
          r.kind = "answer" /\ pc[c] \in Sending /\ msg[c].id = r.id => c \in executed
    /\ \A c \in Calls : Answered(c) => c \in executed

RpcInv ==
    /\ TypeOK
    /\ OwnMessage
    /\ OwnResult
    /\ CallsInOrder
    /\ AnsweredOnce
    /\ Belongs

----------------------------------------------------------------------------
(* What the steps of a call have in common *)

Stages == Sending \cup Over \cup {"idle", "gate", "gated", "restart", "restarted",
                                  "sleep", "join", "joined"}

\* results without the entry of the message c has in send(), if any.
Pending(c) == IF pc[c] \in Sending THEN Without(c) ELSE results

\* What a step of c does not do to other calls, and how c itself ends.
CallStep(c) ==
    /\ \A d \in Calls \ {c} : pc'[d] = pc[d] /\ (Answered(d) => Answered(d)')
    /\ pc'[c] # "idle" /\ pc[c] \notin Over
    /\ pc'[c] = "returned" => Answered(c)
    /\ Answered(c) => Answered(c)' \/ pc'[c] \in {"returned", "cancelled"}
    /\ executed' = executed

\* None is none of the values it is told apart from.
LEMMA NoneApart ==
    /\ None \notin Calls /\ None \notin Ids /\ None \notin Reply
    /\ None # Empty /\ None # Lost
    /\ None \notin [id : Ids, salt : Salts]
  BY RpcAssumption

\* The replies of the server are neither an empty result nor a lost one.
LEMMA Kinds4 ==
    /\ "none" \notin Kinds /\ "lost" \notin Kinds /\ "salt" \notin Kinds
    /\ "created" \notin Kinds
    /\ Empty.kind = "none" /\ Lost.kind = "lost"
  BY RpcAssumption DEF Empty, Lost

\* A message has an id and a salt.
LEMMA MsgType ==
    ASSUME RpcInv, NEW c \in Calls, pc[c] \in Sending
    PROVE  /\ msg[c] \in [id : Ids, salt : Salts] /\ msg[c] # None
           /\ msg[c].id \in Ids /\ msg[c].salt \in Salts
           /\ results[msg[c].id] # None
<1>1. msg[c] # None
  BY DEF RpcInv, OwnMessage
<1>2. msg[c] \in [id : Ids, salt : Salts]
  BY <1>1 DEF RpcInv, TypeOK
<1>3. msg[c].id \in Ids /\ msg[c].salt \in Salts
  BY <1>2
<1> QED BY <1>1, <1>2, <1>3 DEF RpcInv, OwnResult

\* Without c's own entry, results has those of the other calls.
LEMMA PendingLemma ==
    ASSUME RpcInv, NEW c \in Calls
    PROVE  /\ Pending(c) \in [Ids -> Reply \cup {Empty, Lost, None}]
           /\ \A i \in Ids : Pending(c)[i] # None <=>
                 \E d \in Calls \ {c} : pc[d] \in Sending /\ msg[d].id = i
           /\ \A d \in Calls \ {c} : pc[d] \in Sending =>
                 Pending(c)[msg[d].id] = results[msg[d].id]
<1>1. results \in [Ids -> Reply \cup {Empty, Lost, None}]
  BY DEF RpcInv, TypeOK
<1>2. CASE pc[c] \notin Sending
  <2>1. Pending(c) = results
    BY <1>2 DEF Pending
  <2> QED BY <1>1, <1>2, <2>1 DEF RpcInv, OwnResult
<1>3. CASE pc[c] \in Sending
  <2> DEFINE i == msg[c].id
  <2>1. i \in Ids
    BY <1>3, MsgType
  <2>2. /\ Pending(c) = [results EXCEPT ![i] = None]
    BY <1>3 DEF Pending, Without
  <2>3. \A d \in Calls \ {c} : pc[d] \in Sending => msg[d].id \in Ids /\ msg[d].id # i
    BY <1>3, MsgType DEF RpcInv, OwnMessage
  <2> HIDE DEF i
  <2>4. \A j \in Ids : Pending(c)[j] = IF j = i THEN None ELSE results[j]
    BY <1>1, <2>1, <2>2
  <2>5. Pending(c) \in [Ids -> Reply \cup {Empty, Lost, None}]
    BY <1>1, <2>1, <2>2
  <2>6. ASSUME NEW j \in Ids
        PROVE  Pending(c)[j] # None <=>
                  \E d \in Calls \ {c} : pc[d] \in Sending /\ msg[d].id = j
    <3>1. results[j] # None <=> \E d \in Calls : pc[d] \in Sending /\ msg[d].id = j
      BY DEF RpcInv, OwnResult
    <3> QED BY <3>1, <2>3, <2>4 DEF i
  <2> QED BY <2>3, <2>4, <2>5, <2>6
<1> QED BY <1>2, <1>3

\* c leaves send(), or was not in it, and is suspended elsewhere or ends.
LEMMA LeaveLemma ==
    ASSUME RpcInv, NEW c \in Calls, c # restarter,
           NEW p \in Stages \ (Sending \cup {"idle"}),
           Leave(c, p, Pending(c)),
           retries' \in [Calls -> 0..Retries],
           \A d \in Calls \ {c} : retries'[d] = retries[d],
           p \in Over \/ retries'[c] > 0,
           floods' \in [Calls -> 0..FloodMax], salt' \in Salts,
           \/ UNCHANGED <<phase, restarter>>
           \/ Restart(c) /\ p \in {"restart", "join"},
           UNCHANGED <<closed, startExc, server>>
    PROVE  /\ RpcInv'
           /\ pc'[c] = p
           /\ \A d \in Calls \ {c} : pc'[d] = pc[d] /\ (Answered(d) => Answered(d)')
<1> USE DEF server
<1>1. /\ pc' = [pc EXCEPT ![c] = p] /\ msg' = [msg EXCEPT ![c] = None]
      /\ resend' = [resend EXCEPT ![c] = 0] /\ results' = Pending(c)
  BY DEF Leave
<1>2. /\ pc \in [Calls -> Stages] /\ msg \in [Calls -> [id : Ids, salt : Salts] \cup {None}]
      /\ resend \in [Calls -> 0..(BadSaltMax + 1)]
      /\ 0 \in 0..(BadSaltMax + 1)
  BY RpcAssumption DEF RpcInv, TypeOK, Stages
<1>3. /\ pc'[c] = p /\ msg'[c] = None
      /\ \A d \in Calls \ {c} : pc'[d] = pc[d] /\ msg'[d] = msg[d]
      /\ p \notin Sending /\ p # "idle"
  BY <1>1, <1>2
<1>4. /\ results' \in [Ids -> Reply \cup {Empty, Lost, None}]
      /\ \A i \in Ids : results'[i] # None <=>
            \E d \in Calls \ {c} : pc[d] \in Sending /\ msg[d].id = i
      /\ \A d \in Calls \ {c} : pc[d] \in Sending =>
            results'[msg[d].id] = results[msg[d].id]
  BY <1>1, PendingLemma
<1>5. TypeOK'
  <2>1. /\ pc' \in [Calls -> Stages] /\ msg' \in [Calls -> [id : Ids, salt : Salts] \cup {None}]
        /\ resend' \in [Calls -> 0..(BadSaltMax + 1)]
    BY <1>1, <1>2
  <2>2. phase' \in {"up", "stopping", "connecting", "down"}
        /\ restarter' \in Calls \cup {None}
    BY DEF RpcInv, TypeOK, Restart
  <2> QED BY <2>1, <2>2, <1>4 DEF RpcInv, TypeOK, Stages
<1>6. OwnMessage'
  BY <1>3 DEF RpcInv, OwnMessage
<1>7. OwnResult'
  BY <1>3, <1>4 DEF OwnResult
<1>8. CallsInOrder'
  <2>1. \A d \in Calls : pc'[d] \notin Over => retries'[d] > 0
    BY <1>3 DEF RpcInv, CallsInOrder
  <2>2. CASE UNCHANGED <<phase, restarter>>
    BY <2>1, <2>2, <1>3 DEF RpcInv, CallsInOrder, TypeOK
  <2>3. CASE Restart(c) /\ p \in {"restart", "join"}
    <3>1. CASE phase \in {"up", "down"}
      BY <2>1, <2>3, <3>1, <1>3 DEF Restart, CallsInOrder
    <3>2. CASE phase \notin {"up", "down"}
      BY <2>1, <2>3, <3>2, <1>3 DEF Restart, RpcInv, CallsInOrder, TypeOK
    <3> QED BY <3>1, <3>2
  <2> QED BY <2>2, <2>3
<1>9. AnsweredOnce'
  BY <1>3, <1>4, MsgType DEF RpcInv, AnsweredOnce, Sending
<1>10. \A d \in Calls \ {c} : Answered(d) <=> Answered(d)'
  BY <1>3, <1>4 DEF Answered
<1>11. Belongs'
  <2>1. ~Answered(c)'
    BY <1>3 DEF Answered
  <2>2. \A m \in wire : m.call \in Calls
    BY DEF RpcInv, TypeOK
  <2>3. \A m \in wire : pc'[m.call] # "idle"
    BY <1>3, <2>2 DEF RpcInv, Belongs
  <2>4. \A d \in Calls : Answered(d)' => d \in executed
    BY <1>10, <2>1 DEF RpcInv, Belongs
  <2> QED BY <1>3, <2>3, <2>4 DEF RpcInv, Belongs
<1> QED BY <1>3, <1>5, <1>6, <1>7, <1>8, <1>9, <1>10, <1>11 DEF RpcInv

\* c begins to send: with an id that nothing refers to.
LEMMA BeginSendLemma ==
    ASSUME RpcInv, NEW c \in Calls, c # restarter,
           NEW n \in 0..(BadSaltMax + 1), NEW s \in Salts,
           BeginSend(c, n, s, Pending(c)),
           retries' \in [Calls -> 0..Retries],
           \A d \in Calls \ {c} : retries'[d] = retries[d],
           retries'[c] > 0,
           floods' \in [Calls -> 0..FloodMax], salt' \in Salts,
           UNCHANGED <<session, server>>
    PROVE  /\ RpcInv'
           /\ pc'[c] = "write"
           /\ \A d \in Calls \ {c} : pc'[d] = pc[d] /\ (Answered(d) => Answered(d)')
<1> USE DEF server, session
<1> DEFINE i == CHOOSE i \in Ids : Fresh(i, Pending(c))
           new == [id |-> i, salt |-> s]
<1>1. /\ i \in Ids /\ Fresh(i, Pending(c))
      /\ pc' = [pc EXCEPT ![c] = "write"] /\ msg' = [msg EXCEPT ![c] = new]
      /\ resend' = [resend EXCEPT ![c] = n]
      /\ results' = [Pending(c) EXCEPT ![i] = Empty]
  BY DEF BeginSend
<1> HIDE DEF i
<1>2. new \in [id : Ids, salt : Salts] /\ new.id = i /\ new # None
  BY <1>1, NoneApart
<1> HIDE DEF new
<1>3. Pending(c)[i] = None /\ \A m \in wire \cup replies : m.id # i
  BY <1>1 DEF Fresh
<1>4. /\ pc \in [Calls -> Stages] /\ msg \in [Calls -> [id : Ids, salt : Salts] \cup {None}]
      /\ resend \in [Calls -> 0..(BadSaltMax + 1)]
      /\ "write" \in Sending /\ "write" \in Stages
  BY DEF RpcInv, TypeOK, Stages, Sending
<1>5. /\ pc'[c] = "write" /\ msg'[c] = new
      /\ \A d \in Calls \ {c} : pc'[d] = pc[d] /\ msg'[d] = msg[d]
  BY <1>1, <1>4
<1>6. /\ Pending(c) \in [Ids -> Reply \cup {Empty, Lost, None}]
      /\ \A j \in Ids : Pending(c)[j] # None <=>
            \E d \in Calls \ {c} : pc[d] \in Sending /\ msg[d].id = j
      /\ \A d \in Calls \ {c} : pc[d] \in Sending =>
            Pending(c)[msg[d].id] = results[msg[d].id]
  BY PendingLemma
<1>7. /\ results' \in [Ids -> Reply \cup {Empty, Lost, None}]
      /\ \A j \in Ids : results'[j] = IF j = i THEN Empty ELSE Pending(c)[j]
  BY <1>1, <1>6
<1>8. \A d \in Calls \ {c} : pc[d] \in Sending =>
         msg[d].id \in Ids /\ msg[d].id # i /\ results'[msg[d].id] = results[msg[d].id]
  BY <1>3, <1>6, <1>7, MsgType
<1>9. TypeOK'
  <2>1. /\ pc' \in [Calls -> Stages] /\ msg' \in [Calls -> [id : Ids, salt : Salts] \cup {None}]
        /\ resend' \in [Calls -> 0..(BadSaltMax + 1)]
    BY <1>1, <1>2, <1>4
  <2> QED BY <2>1, <1>7 DEF RpcInv, TypeOK, Stages
<1>10. OwnMessage'
  <2>1. \A d \in Calls \ {c} : msg[d] # None <=> pc[d] \in Sending
    BY DEF RpcInv, OwnMessage
  <2> QED BY <1>2, <1>4, <1>5, <1>8, <2>1 DEF RpcInv, OwnMessage
<1>11. OwnResult'
  <2> SUFFICES ASSUME NEW j \in Ids
               PROVE  results'[j] # None <=>
                         \E d \in Calls : pc'[d] \in Sending /\ msg'[d].id = j
    BY DEF OwnResult
  <2>1. CASE j = i
    BY <2>1, <1>2, <1>4, <1>5, <1>7, NoneApart
  <2>2. CASE j # i
    BY <2>2, <1>2, <1>5, <1>6, <1>7
  <2> QED BY <2>1, <2>2
<1>12. CallsInOrder'
  BY <1>5 DEF RpcInv, CallsInOrder, TypeOK
<1>13. AnsweredOnce'
  <2>1. ASSUME NEW m \in wire \cup replies, NEW d \in Calls,
               pc'[d] \in Sending, msg'[d].id = m.id
        PROVE  pc'[d] # "write" /\ results'[m.id] \in {Empty, Lost}
    <3>1. d # c
      BY <2>1, <1>2, <1>3, <1>5
    <3> QED BY <2>1, <3>1, <1>5, <1>8 DEF RpcInv, AnsweredOnce
  <2>2. ASSUME NEW d \in Calls, pc'[d] = "write"
        PROVE  results'[msg'[d].id] \in {Empty, Lost}
    <3>1. CASE d = c
      BY <3>1, <1>1, <1>2, <1>5, <1>7
    <3>2. CASE d # c
      BY <2>2, <3>2, <1>4, <1>5, <1>8 DEF RpcInv, AnsweredOnce
    <3> QED BY <3>1, <3>2
  <2> QED BY <2>1, <2>2 DEF RpcInv, AnsweredOnce
<1>14. \A d \in Calls \ {c} : Answered(d) <=> Answered(d)'
  BY <1>5, <1>8 DEF Answered
<1>15. Belongs'
  <2>1. ~Answered(c)'
    BY <1>1, <1>2, <1>5, <1>7, Kinds4 DEF Answered
  <2>2. \A m \in wire : m.call \in Calls
    BY DEF RpcInv, TypeOK
  <2>3. \A m \in wire : pc'[m.call] # "idle"
    BY <1>5, <2>2 DEF RpcInv, Belongs
  <2>4. \A d \in Calls : Answered(d)' => d \in executed
    BY <1>14, <2>1 DEF RpcInv, Belongs
  <2>5. \A m \in wire \cup replies, d \in Calls :
           pc'[d] \in Sending /\ msg'[d].id = m.id =>
              pc[d] \in Sending /\ msg[d].id = m.id
    BY <1>2, <1>3, <1>5
  <2> QED BY <2>3, <2>4, <2>5 DEF RpcInv, Belongs
<1> QED BY <1>5, <1>9, <1>10, <1>11, <1>12, <1>13, <1>14, <1>15 DEF RpcInv

\* Only a call that waits for restart() can be the one that runs it.
LEMMA NotRestarter ==
    ASSUME RpcInv, NEW c \in Calls, pc[c] \notin {"restart", "join"}
    PROVE  c # restarter
  BY NoneApart DEF RpcInv, CallsInOrder

\* Once round the loop of _invoke().
LEMMA LoopLemma ==
    ASSUME RpcInv, NEW c \in Calls, c # restarter, pc[c] \notin Over, ~Answered(c),
           Loop(c, Pending(c)) \/ WaitStarted(c, Pending(c)),
           retries' \in [Calls -> 0..Retries],
           \A d \in Calls \ {c} : retries'[d] = retries[d],
           retries'[c] > 0,
           UNCHANGED <<floods, salt, closed, startExc, server>>
    PROVE  RpcInv' /\ CallStep(c)
<1>1. floods' \in [Calls -> 0..FloodMax] /\ salt' \in Salts /\ salt \in Salts
  BY DEF RpcInv, TypeOK
<1>2. executed' = executed
  BY DEF server
<1>3. ASSUME NEW p \in {"raised", "restart", "gate"}, Leave(c, p, Pending(c)),
             \/ UNCHANGED <<phase, restarter>>
             \/ Restart(c) /\ p \in {"restart", "join"}
      PROVE  RpcInv' /\ CallStep(c)
  <2>1. p \in Stages \ (Sending \cup {"idle"}) /\ p # "returned" /\ p # "idle"
    BY <1>3 DEF Stages, Sending, Over
  <2>2. p \in Over \/ retries'[c] > 0
    OBVIOUS
  <2>3. /\ RpcInv' /\ pc'[c] = p
        /\ \A d \in Calls \ {c} : pc'[d] = pc[d] /\ (Answered(d) => Answered(d)')
    BY <1>1, <1>3, <2>1, <2>2, LeaveLemma
  <2> QED BY <2>1, <2>3, <1>2 DEF CallStep
<1>4. ASSUME BeginSend(c, 0, salt, Pending(c)), UNCHANGED <<phase, restarter>>
      PROVE  RpcInv' /\ CallStep(c)
  <2>1. 0 \in 0..(BadSaltMax + 1)
    BY RpcAssumption
  <2>2. UNCHANGED <<session, server>>
    BY <1>4 DEF session
  <2>3. /\ RpcInv' /\ pc'[c] = "write"
        /\ \A d \in Calls \ {c} : pc'[d] = pc[d] /\ (Answered(d) => Answered(d)')
    BY <1>1, <1>4, <2>1, <2>2, BeginSendLemma
  <2> QED BY <2>3, <1>2 DEF CallStep
<1>5. ASSUME WaitStarted(c, Pending(c))
      PROVE  RpcInv' /\ CallStep(c)
  BY <1>3, <1>4, <1>5 DEF WaitStarted
<1> QED BY <1>3, <1>5 DEF Loop

\* c has used up a retry: it sleeps, restarts the session, goes round the
\* loop, or raises.
LEMMA RetryLemma ==
    ASSUME RpcInv, NEW c \in Calls, pc[c] \in Sending, ~Answered(c),
           RetrySoon(c) \/ RetryRestart(c),
           UNCHANGED <<floods, salt, closed, startExc, server>>
    PROVE  RpcInv' /\ CallStep(c)
<1>1. /\ pc[c] \notin Over /\ Pending(c) = Without(c) /\ c # restarter
      /\ floods' \in [Calls -> 0..FloodMax] /\ salt' \in Salts
  BY NotRestarter DEF Sending, Over, Pending, RpcInv, TypeOK
<1>2. retries \in [Calls -> 0..Retries] /\ retries[c] > 0 /\ Retries \in Nat
  BY <1>1, RpcAssumption DEF RpcInv, TypeOK, CallsInOrder
<1>3. retries' = [retries EXCEPT ![c] = @ - 1]
  BY DEF RetrySoon, RetryRestart
<1>4. /\ retries' \in [Calls -> 0..Retries]
      /\ retries'[c] = retries[c] - 1
      /\ \A d \in Calls \ {c} : retries'[d] = retries[d]
  BY <1>2, <1>3
<1>5. ASSUME NEW p \in {"raised", "sleep", "join"}, Leave(c, p, Without(c)),
             p = "raised" \/ retries[c] # 1,
             \/ UNCHANGED <<phase, restarter>>
             \/ Restart(c) /\ p = "join"
      PROVE  RpcInv' /\ CallStep(c)
  <2>1. p \in Stages \ (Sending \cup {"idle"}) /\ p # "returned" /\ p # "idle"
    BY <1>5 DEF Stages, Sending, Over
  <2>2. p \in Over \/ retries'[c] > 0
    BY <1>2, <1>4, <1>5 DEF Over
  <2>3. /\ RpcInv' /\ pc'[c] = p
        /\ \A d \in Calls \ {c} : pc'[d] = pc[d] /\ (Answered(d) => Answered(d)')
    BY <1>1, <1>4, <1>5, <2>1, <2>2, LeaveLemma
  <2> QED BY <1>1, <2>1, <2>3 DEF CallStep, server
<1>6. CASE RetrySoon(c)
  BY <1>5, <1>6 DEF RetrySoon
<1>7. CASE RetryRestart(c)
  <2>1. CASE retries[c] = 1
    BY <1>5, <1>7, <2>1 DEF RetryRestart
  <2>2. CASE retries[c] # 1 /\ ~closed
    BY <1>5, <1>7, <2>2 DEF RetryRestart
  <2>3. CASE retries[c] # 1 /\ closed
    <3>1. Loop(c, Pending(c)) /\ retries'[c] > 0
      BY <1>1, <1>2, <1>4, <1>7, <2>3 DEF RetryRestart
    <3> QED BY <3>1, <1>1, <1>4, LoopLemma
  <2> QED BY <2>1, <2>2, <2>3
<1> QED BY <1>6, <1>7

\* c is done with its result and ends, or sleeps.
LEMMA EndLemma ==
    ASSUME RpcInv, NEW c \in Calls, c # restarter, pc[c] \notin Over,
           NEW p \in {"returned", "raised", "cancelled", "sleep"},
           Leave(c, p, Pending(c)),
           p = "returned" => Answered(c),
           Answered(c) => p \in {"returned", "cancelled"},
           floods' \in [Calls -> 0..FloodMax],
           UNCHANGED <<retries, salt, session, server>>
    PROVE  RpcInv' /\ CallStep(c)
<1>1. p \in Stages \ (Sending \cup {"idle"}) /\ p # "idle"
  BY DEF Stages, Sending, Over
<1>2. /\ retries' \in [Calls -> 0..Retries] /\ salt' \in Salts
      /\ p \in Over \/ retries'[c] > 0
      /\ \A d \in Calls \ {c} : retries'[d] = retries[d]
  BY DEF RpcInv, TypeOK, CallsInOrder, Over
<1>3. UNCHANGED <<phase, restarter, closed, startExc>>
  BY DEF session
<1>4. /\ RpcInv' /\ pc'[c] = p
      /\ \A d \in Calls \ {c} : pc'[d] = pc[d] /\ (Answered(d) => Answered(d)')
  BY <1>1, <1>2, <1>3, LeaveLemma
<1> QED BY <1>1, <1>4 DEF CallStep, server

\* c sends its message once more with another id, and perhaps another salt.
LEMMA ResendLemma ==
    ASSUME RpcInv, NEW c \in Calls, c # restarter, pc[c] \notin Over, ~Answered(c),
           NEW n \in 0..(BadSaltMax + 1), NEW s \in Salts,
           BeginSend(c, n, s, Pending(c)),
           salt' \in Salts, UNCHANGED <<retries, floods, session, server>>
    PROVE  RpcInv' /\ CallStep(c)
<1>1. /\ retries' \in [Calls -> 0..Retries] /\ floods' \in [Calls -> 0..FloodMax]
      /\ retries'[c] > 0
      /\ \A d \in Calls \ {c} : retries'[d] = retries[d]
  BY DEF RpcInv, TypeOK, CallsInOrder
<1>2. /\ RpcInv' /\ pc'[c] = "write"
      /\ \A d \in Calls \ {c} : pc'[d] = pc[d] /\ (Answered(d) => Answered(d)')
  BY <1>1, BeginSendLemma
<1> QED BY <1>2 DEF CallStep, server

----------------------------------------------------------------------------
(* One lemma per action of a call *)

\* The first time round the loop, and after restart(), a sleep or the gate.
LEMMA LoopInv ==
    ASSUME RpcInv, NEW c \in Calls, Invoke(c) \/ Gated(c) \/ Again(c)
    PROVE  RpcInv' /\ CallStep(c)
<1>1. pc[c] \in {"idle", "gated", "sleep", "joined"}
  BY DEF Invoke, Gated, Again
<1>2. /\ pc[c] \notin Over /\ ~Answered(c) /\ Pending(c) = results
      /\ c # restarter
  BY <1>1, NotRestarter DEF Over, Answered, Sending, Pending
<1>3. /\ retries' \in [Calls -> 0..Retries]
      /\ \A d \in Calls \ {c} : retries'[d] = retries[d]
      /\ retries'[c] > 0
  BY <1>2 DEF RpcInv, TypeOK, CallsInOrder, Invoke, Gated, Again
<1>4. Loop(c, Pending(c)) \/ WaitStarted(c, Pending(c))
  BY <1>2 DEF Invoke, Gated, Again
<1>5. UNCHANGED <<floods, salt, closed, startExc, server>>
  BY DEF Invoke, Gated, Again
<1> QED BY <1>2, <1>3, <1>4, <1>5, LoopLemma

LEMMA RestartedInv ==
    ASSUME RpcInv, NEW c \in Calls, Restarted(c)
    PROVE  RpcInv' /\ CallStep(c)
<1>1. /\ pc[c] \notin Over /\ ~Answered(c) /\ Pending(c) = results
      /\ c # restarter
      /\ salt \in Salts /\ floods' \in [Calls -> 0..FloodMax] /\ 0 \in 0..(BadSaltMax + 1)
  BY NotRestarter, RpcAssumption
     DEF Restarted, Over, Answered, Sending, Pending, RpcInv, TypeOK
<1>2. UNCHANGED <<retries, floods, salt, session, server>>
  BY DEF Restarted
<1>3. CASE Leave(c, "raised", results)
  BY <1>1, <1>2, <1>3, EndLemma
<1>4. CASE BeginSend(c, 0, salt, results)
  BY <1>1, <1>2, <1>4, ResendLemma
<1> QED BY <1>3, <1>4 DEF Restarted

\* A write, a wait or a connection that fails.
LEMMA FailsInv ==
    ASSUME RpcInv, NEW c \in Calls, WriteFails(c) \/ Silent(c) \/ Disconnected(c)
    PROVE  RpcInv' /\ CallStep(c)
<1>1. pc[c] \in Sending
  BY DEF WriteFails, Silent, Disconnected, Finds, Sending
<1>2. ~Answered(c)
  <2>1. CASE WriteFails(c)
    <3>1. results[msg[c].id] \in {Empty, Lost}
      BY <2>1 DEF WriteFails, RpcInv, AnsweredOnce
    <3> QED BY <3>1, Kinds4 DEF Answered
  <2>2. CASE Silent(c) \/ Disconnected(c)
    BY <2>2 DEF Silent, Disconnected, Finds, Answered
  <2> QED BY <2>1, <2>2
<1> QED BY <1>1, <1>2, RetryLemma DEF WriteFails, Silent, Disconnected

\* A result that ends the call, and a FloodWait.
LEMMA FindsInv ==
    ASSUME RpcInv, NEW c \in Calls, Returns(c) \/ Refused(c) \/ Flooded(c)
    PROVE  RpcInv' /\ CallStep(c)
<1>1. /\ pc[c] \in {"wait", "late"} /\ pc[c] \in Sending /\ pc[c] \notin Over
  BY DEF Returns, Refused, Flooded, Finds, Sending, Over
<1>2. Pending(c) = Without(c) /\ c # restarter
  BY <1>1, NotRestarter DEF Pending
<1>3. CASE Returns(c)
  <2>1. Answered(c) /\ floods' \in [Calls -> 0..FloodMax]
    BY <1>1, <1>3 DEF Returns, Finds, Answered, RpcInv, TypeOK
  <2>2. Leave(c, "returned", Pending(c)) /\ UNCHANGED <<retries, salt, session, server>>
    BY <1>2, <1>3 DEF Returns
  <2> QED BY <1>1, <1>2, <2>1, <2>2, EndLemma
<1>4. CASE Refused(c)
  <2>1. ~Answered(c) /\ floods' \in [Calls -> 0..FloodMax]
    BY <1>4 DEF Refused, Finds, Answered, RpcInv, TypeOK
  <2>2. Leave(c, "raised", Pending(c)) /\ UNCHANGED <<retries, salt, session, server>>
    BY <1>2, <1>4 DEF Refused
  <2> QED BY <1>1, <1>2, <2>1, <2>2, EndLemma
<1>5. CASE Flooded(c)
  <2>1. ~Answered(c)
    BY <1>5 DEF Flooded, Finds, Answered
  <2>2. floods \in [Calls -> 0..FloodMax] /\ FloodMax \in Nat
    BY RpcAssumption DEF RpcInv, TypeOK
  <2>3. floods' \in [Calls -> 0..FloodMax]
    BY <1>5, <2>2 DEF Flooded
  <2>4. UNCHANGED <<retries, salt, session, server>>
    BY <1>5 DEF Flooded
  <2>5. Leave(c, "sleep", Pending(c)) \/ Leave(c, "raised", Pending(c))
    BY <1>2, <1>5 DEF Flooded
  <2> QED BY <1>1, <1>2, <2>1, <2>3, <2>4, <2>5, EndLemma
<1> QED BY <1>3, <1>4, <1>5

\* A bad_msg_notification or a bad_server_salt.
LEMMA BadInv ==
    ASSUME RpcInv, NEW c \in Calls, BadMsg(c) \/ BadSalt(c)
    PROVE  RpcInv' /\ CallStep(c)
<1>1. /\ pc[c] \in Sending /\ pc[c] \notin Over /\ ~Answered(c)
      /\ pc[c] \notin {"restart", "join"}
  BY DEF BadMsg, BadSalt, Finds, Answered, Sending, Over
<1>2. /\ Pending(c) = Without(c) /\ c # restarter
      /\ floods \in [Calls -> 0..FloodMax] /\ salt \in Salts
  BY <1>1, NotRestarter DEF Pending, RpcInv, TypeOK
<1>3. /\ resend[c] \in Nat /\ BadMsgMax \in Nat /\ BadSaltMax \in Nat
      /\ BadMsgMax <= BadSaltMax
  BY RpcAssumption DEF RpcInv, TypeOK
<1>4. UNCHANGED <<retries, floods, session, server>>
  BY DEF BadMsg, BadSalt
<1>5. CASE BadMsg(c)
  <2>1. salt' = salt
    BY <1>5 DEF BadMsg
  <2>2. CASE resend[c] > BadMsgMax
    <3>1. Leave(c, "raised", Pending(c))
      BY <1>2, <1>5, <2>2 DEF BadMsg
    <3> QED BY <3>1, <2>1, <1>1, <1>2, <1>4, EndLemma
  <2>3. CASE ~(resend[c] > BadMsgMax)
    <3>1. resend[c] + 1 \in 0..(BadSaltMax + 1)
      BY <1>3, <2>3
    <3>2. BeginSend(c, resend[c] + 1, salt, Pending(c))
      BY <1>2, <1>5, <2>3 DEF BadMsg
    <3> QED BY <3>1, <3>2, <2>1, <1>1, <1>2, <1>4, ResendLemma
  <2> QED BY <2>2, <2>3
<1>6. CASE BadSalt(c)
  <2>1. CASE resend[c] > BadSaltMax
    <3>1. Leave(c, "raised", Pending(c)) /\ salt' = salt
      BY <1>2, <1>6, <2>1 DEF BadSalt
    <3> QED BY <3>1, <1>1, <1>2, <1>4, EndLemma
  <2>2. CASE ~(resend[c] > BadSaltMax)
    <3> DEFINE s == results[msg[c].id].salt
    <3>1. s \in Salts
      <4>1. msg[c].id \in Ids /\ results[msg[c].id] # None
        BY <1>1, MsgType
      <4>2. results[msg[c].id] \in Reply \cup {Empty, Lost}
        BY <4>1 DEF RpcInv, TypeOK
      <4>3. 0 \in Salts
        BY RpcAssumption DEF Salts
      <4> QED BY <4>2, <4>3 DEF Reply, Empty, Lost
    <3>2. salt' = s /\ BeginSend(c, resend[c] + 1, s, Pending(c))
      BY <1>2, <1>6, <2>2 DEF BadSalt
    <3>3. resend[c] + 1 \in 0..(BadSaltMax + 1)
      BY <1>3, <2>2
    <3> HIDE DEF s
    <3> QED BY <3>1, <3>2, <3>3, <1>1, <1>2, <1>4, ResendLemma
  <2> QED BY <2>1, <2>2
<1> QED BY <1>5, <1>6

LEMMA CancelInv ==
    ASSUME RpcInv, NEW c \in Calls, Cancel(c)
    PROVE  RpcInv' /\ CallStep(c)
<1>1. /\ pc[c] \notin Over /\ c # restarter
      /\ Leave(c, "cancelled", Pending(c))
      /\ UNCHANGED <<retries, salt, session, server>>
      /\ floods' \in [Calls -> 0..FloodMax]
  BY DEF Cancel, Pending, RpcInv, TypeOK
<1> QED BY <1>1, EndLemma

\* The message is on its way.
LEMMA WrittenInv ==
    ASSUME RpcInv, NEW c \in Calls, Written(c)
    PROVE  RpcInv' /\ CallStep(c)
<1> DEFINE m == [id |-> msg[c].id, salt |-> msg[c].salt, call |-> c]
<1> USE DEF Written, session
<1>1. /\ pc[c] = "write" /\ pc[c] \in Sending /\ pc[c] \notin Over
      /\ "wait" \in Sending /\ "wait" \in Stages
  BY DEF Sending, Over, Stages
<1>2. msg[c].id \in Ids /\ msg[c].salt \in Salts
  BY <1>1, MsgType
<1>3. /\ m.id = msg[c].id /\ m.call = c /\ m \in [id : Ids, salt : Salts, call : Calls]
  BY <1>2
<1>4. wire' = wire \cup {m}
  OBVIOUS
<1> HIDE DEF m
<1>5. /\ pc' \in [Calls -> Stages] /\ pc'[c] = "wait"
      /\ \A d \in Calls \ {c} : pc'[d] = pc[d]
  BY <1>1 DEF RpcInv, TypeOK, Stages
<1>6. \A d \in Calls : pc'[d] \in Sending <=> pc[d] \in Sending
  BY <1>1, <1>5
<1>7. TypeOK'
  BY <1>3, <1>4, <1>5 DEF RpcInv, TypeOK, Stages
<1>8. OwnMessage' /\ OwnResult'
  BY <1>6 DEF RpcInv, OwnMessage, OwnResult
<1>9. CallsInOrder'
  <2>1. c # restarter
    BY <1>1, NotRestarter
  <2> QED BY <2>1, <1>1, <1>5 DEF RpcInv, CallsInOrder, TypeOK
<1>10. \A n \in wire \cup replies : n.id # m.id
  BY <1>1, <1>3 DEF RpcInv, AnsweredOnce
<1>11. \A d \in Calls : pc[d] \in Sending /\ msg[d].id = m.id => d = c
  BY <1>1, <1>3 DEF RpcInv, OwnMessage
<1>12. results[msg[c].id] \in {Empty, Lost}
  BY <1>1 DEF RpcInv, AnsweredOnce
<1>13. AnsweredOnce'
  <2>1. ASSUME NEW n \in wire' \cup replies', NEW d \in Calls,
               pc'[d] \in Sending, msg'[d].id = n.id
        PROVE  pc'[d] # "write" /\ results'[n.id] \in {Empty, Lost}
    <3>1. CASE n = m
      BY <2>1, <3>1, <1>3, <1>5, <1>6, <1>11, <1>12
    <3>2. CASE n # m
      <4>1. n \in wire \cup replies /\ d # c
        BY <2>1, <3>2, <1>3, <1>4, <1>10
      <4> QED BY <4>1, <2>1, <1>5 DEF RpcInv, AnsweredOnce
    <3> QED BY <3>1, <3>2
  <2>2. \A d \in Calls : pc'[d] = "write" => results'[msg'[d].id] \in {Empty, Lost}
    BY <1>5 DEF RpcInv, AnsweredOnce
  <2> QED BY <2>1, <2>2, <1>4, <1>10 DEF RpcInv, AnsweredOnce
<1>14. \A d \in Calls : Answered(d)' <=> Answered(d)
  BY <1>6 DEF Answered
<1>15. Belongs'
  <2>1. \A n \in wire : n.call \in Calls
    BY DEF RpcInv, TypeOK
  <2>2. \A n \in wire' : pc'[n.call] # "idle"
    BY <2>1, <1>3, <1>4, <1>5 DEF RpcInv, Belongs
  <2> QED BY <2>2, <1>3, <1>4, <1>6, <1>11, <1>14 DEF RpcInv, Belongs
<1>16. CallStep(c)
  BY <1>1, <1>5, <1>14 DEF CallStep
<1> QED BY <1>7, <1>8, <1>9, <1>13, <1>15, <1>16 DEF RpcInv

\* The wait times out.
LEMMA TimeoutInv ==
    ASSUME RpcInv, NEW c \in Calls, Timeout(c)
    PROVE  RpcInv' /\ CallStep(c)
<1> USE DEF Timeout, session, server
<1>1. /\ pc[c] = "wait" /\ pc[c] \in Sending /\ pc[c] \notin Over
      /\ "late" \in Sending /\ "late" \in Stages
  BY DEF Sending, Over, Stages
<1>2. /\ pc' \in [Calls -> Stages] /\ pc'[c] = "late"
      /\ \A d \in Calls \ {c} : pc'[d] = pc[d]
  BY <1>1 DEF RpcInv, TypeOK, Stages
<1>3. \A d \in Calls : pc'[d] \in Sending <=> pc[d] \in Sending
  BY <1>1, <1>2
<1>4. TypeOK'
  BY <1>2 DEF RpcInv, TypeOK, Stages
<1>5. OwnMessage' /\ OwnResult'
  BY <1>3 DEF RpcInv, OwnMessage, OwnResult
<1>6. CallsInOrder'
  <2>1. c # restarter
    BY <1>1, NotRestarter
  <2> QED BY <2>1, <1>1, <1>2 DEF RpcInv, CallsInOrder, TypeOK
<1>7. AnsweredOnce'
  BY <1>2, <1>3 DEF RpcInv, AnsweredOnce
<1>8. \A d \in Calls : Answered(d)' <=> Answered(d)
  BY <1>3 DEF Answered
<1>9. Belongs'
  <2>1. \A n \in wire : n.call \in Calls
    BY DEF RpcInv, TypeOK
  <2> QED BY <2>1, <1>2, <1>3, <1>8 DEF RpcInv, Belongs
<1>10. CallStep(c)
  BY <1>1, <1>2, <1>8 DEF CallStep
<1> QED BY <1>4, <1>5, <1>6, <1>7, <1>9, <1>10 DEF RpcInv

----------------------------------------------------------------------------
(* The steps of the session and of the server *)

\* A step of the session ends no call but the one that runs restart(), and
\* wakes only those that wait for it.
SessionStep ==
    /\ executed' = executed
    /\ \A d \in Calls :
          /\ Answered(d) => Answered(d)'
          /\ \/ pc'[d] = pc[d]
             \/ /\ pc[d] \notin Over \cup {"idle"}
                /\ pc'[d] \notin {"idle", "returned"}
                /\ pc'[d] \in Over => d = restarter

\* Whoever waits for restart() is woken; nobody else notices.
LEMMA WokenLemma ==
    ASSUME NEW p \in Stages
    PROVE  \/ Woken(p) = p
           \/ /\ p \in {"gate", "restart", "join"}
              /\ Woken(p) \in {"gated", "restarted", "joined"}
  BY DEF Woken, Stages, Sending, Over

\* _fail_pending() gives up what has not come in, and nothing else.
LEMMA FailPendingLemma ==
    ASSUME results \in [Ids -> Reply \cup {Empty, Lost, None}],
           results' = results \/ results' = FailPending
    PROVE  /\ results' \in [Ids -> Reply \cup {Empty, Lost, None}]
           /\ \A i \in Ids : results'[i] = results[i] \/ (results[i] = Empty /\ results'[i] = Lost)
<1>1. CASE results' = FailPending
  <2>1. results' = [i \in Ids |-> IF results[i] = Empty THEN Lost ELSE results[i]]
    BY <1>1 DEF FailPending
  <2>2. \A i \in Ids : results'[i] = IF results[i] = Empty THEN Lost ELSE results[i]
    BY <2>1, Zenon
  <2>3. \A i \in Ids : results'[i] \in Reply \cup {Empty, Lost, None}
    BY <2>2
  <2>4. results' \in [Ids -> Reply \cup {Empty, Lost, None}]
    BY <2>1, <2>3
  <2> QED BY <2>2, <2>4
<1> QED BY <1>1

\* What is lost, stopped or started: a result that is there stays, and a call
\* in send() stays where it is.
LEMMA SessionLemma ==
    ASSUME RpcInv,
           results' = results \/ results' = FailPending,
           wire' = wire \/ wire' = {},
           \/ pc' = pc /\ restarter' \in {restarter, None}
           \/ /\ DOMAIN pc' = Calls /\ pc' = [d \in Calls |-> pc'[d]]
              /\ restarter' = None
              /\ \A d \in Calls : \/ pc'[d] = Woken(pc[d])
                                  \/ d = restarter /\ pc'[d] \in {"raised", "cancelled"},
           phase' \in {"up", "stopping", "connecting", "down"},
           phase' \in {"up", "down"} => restarter' = None,
           closed' \in BOOLEAN, startExc' \in BOOLEAN,
           UNCHANGED <<msg, resend, retries, floods, salt, replies, serverSalt, executed>>
    PROVE  RpcInv' /\ SessionStep
<1>1. pc \in [Calls -> Stages]
  BY DEF RpcInv, TypeOK, Stages
<1>2. \A d \in Calls :
        \/ pc'[d] = pc[d]
        \/ /\ pc[d] \in {"gate", "restart", "join"}
           /\ restarter' = None
           /\ \/ pc'[d] \in {"gated", "restarted", "joined"}
              \/ d = restarter /\ pc'[d] \in {"raised", "cancelled"}
  <2> SUFFICES ASSUME NEW d \in Calls, pc' # pc
               PROVE  \/ pc'[d] = pc[d]
                      \/ /\ pc[d] \in {"gate", "restart", "join"}
                         /\ restarter' = None
                         /\ \/ pc'[d] \in {"gated", "restarted", "joined"}
                            \/ d = restarter /\ pc'[d] \in {"raised", "cancelled"}
    OBVIOUS
  <2>1. CASE pc'[d] = Woken(pc[d])
    BY <2>1, <1>1, WokenLemma
  <2>2. CASE d = restarter /\ pc'[d] \in {"raised", "cancelled"}
    BY <2>2, NoneApart DEF RpcInv, CallsInOrder
  <2> QED BY <2>1, <2>2
<1>3. pc' \in [Calls -> Stages]
  <2>1. \A d \in Calls : pc'[d] \in Stages
    BY <1>1, <1>2 DEF Stages, Over
  <2> QED BY <2>1, <1>1
<1>4. \A d \in Calls : /\ pc'[d] \in Sending <=> pc[d] \in Sending
                       /\ pc'[d] = "write" <=> pc[d] = "write"
                       /\ pc'[d] = "idle" <=> pc[d] = "idle"
  BY <1>2 DEF Sending
<1>5. /\ results \in [Ids -> Reply \cup {Empty, Lost, None}]
      /\ results' \in [Ids -> Reply \cup {Empty, Lost, None}]
      /\ \A i \in Ids : results'[i] = results[i] \/ (results[i] = Empty /\ results'[i] = Lost)
  BY FailPendingLemma DEF RpcInv, TypeOK
<1>6. \A i \in Ids : results'[i] # None <=> results[i] # None
  BY <1>5, NoneApart
<1>7. TypeOK'
  <2>1. restarter' \in Calls \cup {None} /\ wire' \subseteq [id : Ids, salt : Salts, call : Calls]
    BY DEF RpcInv, TypeOK
  <2> QED BY <1>3, <1>5, <2>1 DEF RpcInv, TypeOK, Stages
<1>8. OwnMessage'
  BY <1>4 DEF RpcInv, OwnMessage
<1>9. OwnResult'
  BY <1>4, <1>6 DEF RpcInv, OwnResult
<1>10. CallsInOrder'
  <2>1. \A d \in Calls : pc'[d] \notin Over => pc[d] \notin Over
    BY <1>2 DEF Over
  <2>2. \A d \in Calls : pc'[d] \notin Over => retries'[d] > 0
    BY <2>1 DEF RpcInv, CallsInOrder
  <2>3. restarter' # None => pc'[restarter'] \in {"restart", "join"}
    <3>1. restarter' # None => pc' = pc /\ restarter' = restarter
      OBVIOUS
    <3> QED BY <3>1 DEF RpcInv, CallsInOrder
  <2> QED BY <2>2, <2>3 DEF CallsInOrder
<1>11. \A d \in Calls : pc[d] \in Sending =>
          /\ msg[d].id \in Ids
          /\ results[msg[d].id] \in {Empty, Lost} => results'[msg[d].id] \in {Empty, Lost}
          /\ results'[msg[d].id] = results[msg[d].id]
             \/ (results[msg[d].id] = Empty /\ results'[msg[d].id] = Lost)
  BY <1>5, MsgType
<1>12. AnsweredOnce'
  <2>1. wire' \subseteq wire /\ replies' = replies
    OBVIOUS
  <2>2. ASSUME NEW m \in wire' \cup replies', NEW d \in Calls,
               pc'[d] \in Sending, msg'[d].id = m.id
        PROVE  pc'[d] # "write" /\ results'[m.id] \in {Empty, Lost}
    <3>1. m \in wire \cup replies /\ pc[d] \in Sending /\ msg[d].id = m.id
      BY <2>1, <2>2, <1>4
    <3>2. pc[d] # "write" /\ results[m.id] \in {Empty, Lost}
      BY <3>1 DEF RpcInv, AnsweredOnce
    <3> QED BY <3>1, <3>2, <1>4, <1>11
  <2>3. ASSUME NEW d \in Calls, pc'[d] = "write"
        PROVE  results'[msg'[d].id] \in {Empty, Lost}
    <3>1. pc[d] = "write" /\ pc[d] \in Sending
      BY <2>3, <1>4 DEF Sending
    <3> QED BY <3>1, <1>11 DEF RpcInv, AnsweredOnce
  <2> QED BY <2>1, <2>2, <2>3 DEF RpcInv, AnsweredOnce
<1>13. \A d \in Calls : Answered(d)' <=> Answered(d)
  BY <1>4, <1>11, Kinds4 DEF Answered
<1>14. Belongs'
  <2>1. \A m \in wire' : m \in wire /\ m.call \in Calls
    BY DEF RpcInv, TypeOK
  <2> QED BY <2>1, <1>4, <1>13 DEF RpcInv, Belongs
<1>15. SessionStep
  <2> SUFFICES ASSUME NEW d \in Calls
               PROVE  \/ pc'[d] = pc[d]
                      \/ /\ pc[d] \notin Over \cup {"idle"}
                         /\ pc'[d] \notin {"idle", "returned"}
                         /\ pc'[d] \in Over => d = restarter
    BY <1>13 DEF SessionStep
  <2> QED BY <1>2 DEF Over
<1> QED BY <1>7, <1>8, <1>9, <1>10, <1>12, <1>14, <1>15 DEF RpcInv

\* The connection fails, and what _stop() and start() do about it.
LEMMA RestartInv ==
    ASSUME RpcInv,
           ConnectionFails \/ Stopped \/ StartOk \/ AttemptFails \/ StartFails \/ Stop
    PROVE  RpcInv' /\ SessionStep
<1> USE DEF calls, server
<1>1. /\ closed \in BOOLEAN /\ startExc \in BOOLEAN
      /\ phase \in {"up", "stopping", "connecting", "down"}
      /\ phase \in {"up", "down"} => restarter = None
  BY DEF RpcInv, TypeOK, CallsInOrder
<1>2. ASSUME Wake
      PROVE  /\ DOMAIN pc' = Calls /\ pc' = [d \in Calls |-> pc'[d]]
             /\ \A d \in Calls : pc'[d] = Woken(pc[d])
  BY <1>2 DEF Wake
<1>3. CASE ConnectionFails
  BY <1>1, <1>3, SessionLemma DEF ConnectionFails
<1>4. CASE Stopped
  <2>1. CASE closed
    BY <1>1, <1>2, <1>4, <2>1, SessionLemma DEF Stopped
  <2>2. CASE ~closed
    BY <1>1, <1>4, <2>2, SessionLemma DEF Stopped
  <2> QED BY <2>1, <2>2
<1>5. CASE StartOk
  BY <1>1, <1>2, <1>5, SessionLemma DEF StartOk
<1>6. CASE AttemptFails
  <2>1. CASE closed
    BY <1>1, <1>2, <1>6, <2>1, SessionLemma DEF AttemptFails
  <2>2. CASE ~closed
    BY <1>1, <1>6, <2>2, SessionLemma DEF AttemptFails
  <2> QED BY <2>1, <2>2
<1>7. CASE StartFails
  <2>1. /\ DOMAIN pc' = Calls /\ pc' = [d \in Calls |-> pc'[d]]
        /\ \A d \in Calls : \/ pc'[d] = Woken(pc[d])
                            \/ d = restarter /\ pc'[d] \in {"raised", "cancelled"}
    BY <1>7 DEF StartFails
  <2> QED BY <1>1, <1>7, <2>1, SessionLemma DEF StartFails
<1>8. CASE Stop
  BY <1>1, <1>8, SessionLemma DEF Stop
<1> QED BY <1>3, <1>4, <1>5, <1>6, <1>7, <1>8

LEMMA CancelRestartInv ==
    ASSUME RpcInv, NEW c \in Calls, CancelRestart(c)
    PROVE  RpcInv' /\ SessionStep
<1>1. closed \in BOOLEAN /\ startExc \in BOOLEAN
  BY DEF RpcInv, TypeOK
<1>2. /\ DOMAIN pc' = Calls /\ pc' = [d \in Calls |-> pc'[d]]
      /\ \A d \in Calls : \/ pc'[d] = Woken(pc[d])
                          \/ d = restarter /\ pc'[d] \in {"raised", "cancelled"}
  BY DEF CancelRestart
<1>3. /\ results' = results \/ results' = FailPending
      /\ startExc' \in BOOLEAN
  BY <1>1 DEF CancelRestart
<1> QED BY <1>1, <1>2, <1>3, SessionLemma DEF CancelRestart

\* A reply comes in: for the call that waits with its message, if there is one.
LEMMA DeliverInv ==
    ASSUME RpcInv, NEW r \in replies, Deliver(r)
    PROVE  RpcInv' /\ SessionStep
<1> USE DEF Deliver, calls, session
<1> DEFINE new == [kind |-> r.kind, salt |-> r.salt]
<1>1. /\ r.id \in Ids \cup {None} /\ r.kind \in Kinds \cup {"salt", "created"} /\ r.salt \in Salts
      /\ results \in [Ids -> Reply \cup {Empty, Lost, None}] /\ salt \in Salts
  BY DEF RpcInv, TypeOK
<1>2. new.kind = r.kind /\ (r.id \in Ids => new \in Reply)
  <2>1. r.id \in Ids => r.kind # "created"
    BY NoneApart DEF RpcInv, AnsweredOnce
  <2> QED BY <1>1, <2>1 DEF Reply
<1>3. results' = [i \in Ids |-> IF i = r.id /\ results[i] # None THEN new ELSE results[i]]
  OBVIOUS
<1> HIDE DEF new
<1>4. /\ results' \in [Ids -> Reply \cup {Empty, Lost, None}]
      /\ \A i \in Ids : /\ results'[i] # None <=> results[i] # None
                        /\ i # r.id => results'[i] = results[i]
                        /\ i = r.id /\ results[i] # None => results'[i] = new
  BY <1>1, <1>2, <1>3, NoneApart
<1>5. replies' \subseteq replies /\ r \notin replies'
  OBVIOUS
<1>6. TypeOK'
  <2>1. salt' \in Salts
    BY <1>1
  <2> QED BY <1>4, <1>5, <2>1 DEF RpcInv, TypeOK
<1>7. OwnMessage' /\ OwnResult' /\ CallsInOrder'
  BY <1>4 DEF RpcInv, OwnMessage, OwnResult, CallsInOrder
<1>8. ASSUME NEW m \in wire \cup replies', NEW d \in Calls,
             pc[d] \in Sending, msg[d].id = m.id
      PROVE  m.id # r.id
  <2>1. m.id \in Ids /\ m.id # None
    BY <1>8, MsgType, NoneApart
  <2>2. CASE m \in wire
    BY <2>2 DEF RpcInv, AnsweredOnce
  <2>3. CASE m \in replies'
    BY <2>1, <2>3, <1>5 DEF RpcInv, AnsweredOnce
  <2> QED BY <2>2, <2>3, <1>8
<1>9. AnsweredOnce'
  <2>1. ASSUME NEW m \in wire \cup replies', NEW d \in Calls,
               pc[d] \in Sending, msg[d].id = m.id
        PROVE  pc[d] # "write" /\ results'[m.id] \in {Empty, Lost}
    <3>1. m.id \in Ids /\ m.id # r.id /\ m \in wire \cup replies
      BY <2>1, <1>5, <1>8, MsgType
    <3>2. pc[d] # "write" /\ results[m.id] \in {Empty, Lost}
      BY <2>1, <3>1 DEF RpcInv, AnsweredOnce
    <3> QED BY <3>1, <3>2, <1>4
  <2>2. ASSUME NEW d \in Calls, pc[d] = "write"
        PROVE  results'[msg[d].id] \in {Empty, Lost}
    <3>1. pc[d] \in Sending
      BY <2>2 DEF Sending
    <3>2. msg[d].id \in Ids /\ msg[d].id # r.id
      BY <2>2, <3>1, MsgType DEF RpcInv, AnsweredOnce
    <3> QED BY <2>2, <3>2, <1>4 DEF RpcInv, AnsweredOnce
  <2> QED BY <2>1, <2>2, <1>5 DEF RpcInv, AnsweredOnce
<1>10. \A d \in Calls : Answered(d) => Answered(d)'
  <2> SUFFICES ASSUME NEW d \in Calls, Answered(d)
               PROVE  Answered(d)'
    OBVIOUS
  <2>1. pc[d] \in Sending /\ msg[d].id \in Ids
    BY MsgType DEF Answered
  <2>2. msg[d].id # r.id
    <3>1. results[msg[d].id] \notin {Empty, Lost}
      BY Kinds4 DEF Answered
    <3> QED BY <2>1, <3>1 DEF RpcInv, AnsweredOnce
  <2> QED BY <2>1, <2>2, <1>4 DEF Answered
<1>11. \A d \in Calls : Answered(d)' => d \in executed
  <2> SUFFICES ASSUME NEW d \in Calls, Answered(d)'
               PROVE  d \in executed
    OBVIOUS
  <2>1. pc[d] \in Sending /\ msg[d].id \in Ids /\ results[msg[d].id] # None
    BY MsgType DEF Answered
  <2>2. CASE msg[d].id = r.id
    <3>1. r.kind = "answer"
      BY <2>1, <2>2, <1>2, <1>4 DEF Answered
    <3> QED BY <2>1, <2>2, <3>1 DEF RpcInv, Belongs
  <2>3. CASE msg[d].id # r.id
    BY <2>1, <2>3, <1>4 DEF Answered, RpcInv, Belongs
  <2> QED BY <2>2, <2>3
<1>12. Belongs'
  BY <1>5, <1>11 DEF RpcInv, Belongs
<1>13. SessionStep
  BY <1>10 DEF SessionStep
<1> QED BY <1>6, <1>7, <1>9, <1>12, <1>13 DEF RpcInv

\* A step of the server is not seen by any call.
ServerStep ==
    /\ pc' = pc
    /\ \A d \in Calls : Answered(d) => Answered(d)'
    /\ \/ executed' = executed
       \/ \E c \in Calls : pc[c] # "idle" /\ executed' = executed \cup {c}

\* A message is exchanged for the reply to it.
LEMMA ServeInv ==
    ASSUME RpcInv, NEW m \in wire, Serve(m)
    PROVE  RpcInv' /\ ServerStep
<1> USE DEF Serve, calls, session
<1>1. PICK kind \in Kinds :
        LET k == IF m.salt = serverSalt THEN kind ELSE "salt"
        IN  /\ replies' = replies \cup
                            {[id |-> m.id, kind |-> k, salt |-> serverSalt]}
            /\ executed' = IF k = "answer" THEN executed \cup {m.call} ELSE executed
  OBVIOUS
<1> DEFINE k == IF m.salt = serverSalt THEN kind ELSE "salt"
           r == [id |-> m.id, kind |-> k, salt |-> serverSalt]
<1>2. /\ m.id \in Ids /\ m.call \in Calls /\ serverSalt \in Salts
      /\ executed \subseteq Calls
  BY DEF RpcInv, TypeOK
<1>3. /\ k \in Kinds \cup {"salt"} /\ k # "created"
      /\ m.id # None
  BY <1>2, NoneApart, Kinds4
<1>4. /\ replies' = replies \cup {r}
      /\ executed' = IF k = "answer" THEN executed \cup {m.call} ELSE executed
  BY <1>1
<1> HIDE DEF k
<1>5. /\ r.id = m.id /\ r.kind = k
      /\ r \in [id : Ids \cup {None}, kind : Kinds \cup {"salt", "created"}, salt : Salts]
  BY <1>2, <1>3
<1> HIDE DEF r
<1>6. wire' = wire \ {m} /\ \A n \in wire' : n \in wire /\ n.id # m.id
  BY DEF RpcInv, AnsweredOnce
<1>7. \A s \in replies : s.id # m.id
  BY DEF RpcInv, AnsweredOnce
<1>8. TypeOK'
  <2>1. executed' \subseteq Calls
    BY <1>2, <1>4
  <2>2. replies' \subseteq [id : Ids \cup {None}, kind : Kinds \cup {"salt", "created"},
                            salt : Salts]
    BY <1>4, <1>5 DEF RpcInv, TypeOK
  <2> QED BY <1>6, <2>1, <2>2 DEF RpcInv, TypeOK
<1>9. OwnMessage' /\ OwnResult' /\ CallsInOrder'
  BY DEF RpcInv, OwnMessage, OwnResult, CallsInOrder
<1>10. AnsweredOnce'
  <2>1. \A n \in wire', s \in replies' : n.id # s.id
    BY <1>4, <1>5, <1>6 DEF RpcInv, AnsweredOnce
  <2>2. \A n, o \in wire' : n.id = o.id => n = o
    BY <1>6 DEF RpcInv, AnsweredOnce
  <2>3. \A s, t \in replies' : s.id = t.id => s = t \/ s.id = None
    BY <1>4, <1>5, <1>7 DEF RpcInv, AnsweredOnce
  <2>4. \A s \in replies' : s.kind = "created" <=> s.id = None
    BY <1>3, <1>4, <1>5 DEF RpcInv, AnsweredOnce
  <2>5. \A n \in wire' \cup replies', c \in Calls :
           pc[c] \in Sending /\ msg[c].id = n.id =>
              pc[c] # "write" /\ results[n.id] \in {Empty, Lost}
    BY <1>4, <1>5, <1>6 DEF RpcInv, AnsweredOnce
  <2> QED BY <2>1, <2>2, <2>3, <2>4, <2>5 DEF RpcInv, AnsweredOnce
<1>11. Belongs'
  <2>1. executed \subseteq executed' /\ (k = "answer" => m.call \in executed')
    BY <1>4
  <2>2. \A s \in replies', c \in Calls :
           s.kind = "answer" /\ pc[c] \in Sending /\ msg[c].id = s.id => c \in executed'
    BY <2>1, <1>4, <1>5 DEF RpcInv, Belongs
  <2>3. \A c \in Calls : Answered(c)' => c \in executed'
    BY <2>1 DEF RpcInv, Belongs, Answered
  <2> QED BY <1>6, <2>2, <2>3 DEF RpcInv, Belongs
<1>12. ServerStep
  <2>1. pc[m.call] # "idle"
    BY DEF RpcInv, Belongs
  <2> QED BY <1>2, <1>4, <2>1 DEF ServerStep, Answered
<1> QED BY <1>8, <1>9, <1>10, <1>11, <1>12 DEF RpcInv

LEMMA NewSaltInv ==
    ASSUME RpcInv, NewSalt
    PROVE  RpcInv' /\ ServerStep
<1> USE DEF NewSalt, calls, session
<1> DEFINE r == [id |-> None, kind |-> "created", salt |-> serverSalt + 1]
<1>1. serverSalt \in Salts /\ serverSalt + 1 \in Salts
  BY RpcAssumption DEF RpcInv, TypeOK, Salts
<1>2. /\ r \in [id : Ids \cup {None}, kind : Kinds \cup {"salt", "created"}, salt : Salts]
      /\ r.id = None /\ r.kind = "created"
  BY <1>1
<1>3. replies' = replies \/ replies' = replies \cup {r}
  OBVIOUS
<1> HIDE DEF r
<1>4. TypeOK'
  BY <1>1, <1>2, <1>3 DEF RpcInv, TypeOK
<1>5. OwnMessage' /\ OwnResult' /\ CallsInOrder'
  BY DEF RpcInv, OwnMessage, OwnResult, CallsInOrder
<1>6. \A c \in Calls : pc[c] \in Sending => msg[c].id # None
  BY MsgType, NoneApart
<1>7. \A n \in wire : n.id # None
  <2>1. \A n \in wire : n.id \in Ids
    BY DEF RpcInv, TypeOK
  <2> QED BY <2>1, NoneApart
<1>8. AnsweredOnce'
  <2>1. \A n \in wire, s \in replies' : n.id # s.id
    BY <1>2, <1>3, <1>7 DEF RpcInv, AnsweredOnce
  <2>2. \A s, t \in replies' : s.id = t.id => s = t \/ s.id = None
    BY <1>2, <1>3 DEF RpcInv, AnsweredOnce
  <2>3. \A s \in replies' : s.kind = "created" <=> s.id = None
    BY <1>2, <1>3 DEF RpcInv, AnsweredOnce
  <2>4. \A n \in wire \cup replies', c \in Calls :
           pc[c] \in Sending /\ msg[c].id = n.id =>
              pc[c] # "write" /\ results[n.id] \in {Empty, Lost}
    BY <1>2, <1>3, <1>6 DEF RpcInv, AnsweredOnce
  <2> QED BY <2>1, <2>2, <2>3, <2>4 DEF RpcInv, AnsweredOnce
<1>9. Belongs'
  BY <1>2, <1>3 DEF RpcInv, Belongs, Answered
<1>10. ServerStep
  BY DEF ServerStep, Answered
<1> QED BY <1>4, <1>5, <1>8, <1>9, <1>10 DEF RpcInv

----------------------------------------------------------------------------
(* The theorems about the invariant *)

LEMMA InitInv ==
    ASSUME Init
    PROVE  RpcInv
<1> USE DEF Init
<1>1. \A c \in Calls : pc[c] = "idle" /\ msg[c] = None /\ retries[c] = Retries
  OBVIOUS
<1>2. /\ 0 \in Salts /\ 0 \in 0..FloodMax /\ 0 \in 0..(BadSaltMax + 1)
      /\ Retries \in 0..Retries /\ Retries > 0
  BY RpcAssumption DEF Salts
<1>3. TypeOK
  BY <1>2 DEF TypeOK
<1>4. OwnMessage /\ OwnResult /\ CallsInOrder /\ AnsweredOnce /\ Belongs
  BY <1>1, <1>2
     DEF OwnMessage, OwnResult, CallsInOrder, AnsweredOnce, Belongs, Answered, Sending, Over
<1> QED BY <1>3, <1>4 DEF RpcInv

\* A step is one of a call, of the session or of the server.
LEMMA StepInv ==
    ASSUME RpcInv, [Next]_vars
    PROVE  /\ RpcInv'
           /\ \/ \E c \in Calls : CallStep(c)
              \/ SessionStep
              \/ ServerStep
<1>1. ASSUME UNCHANGED vars
      PROVE  RpcInv' /\ ServerStep
  BY <1>1 DEF vars, RpcInv, TypeOK, OwnMessage, OwnResult, CallsInOrder, AnsweredOnce,
              Belongs, Answered, ServerStep
<1>2. ASSUME NEW c \in Calls, Invoke(c) \/ Run(c) \/ Cancel(c)
      PROVE  RpcInv' /\ CallStep(c)
  BY <1>2, LoopInv, RestartedInv, FailsInv, FindsInv, BadInv, CancelInv, WrittenInv,
     TimeoutInv DEF Run
<1>3. CASE Terminated
  BY <1>1, <1>3 DEF Terminated
<1> QED BY <1>1, <1>2, <1>3, RestartInv, CancelRestartInv, DeliverInv, ServeInv, NewSaltInv
        DEF Next

\* RpcInv is an invariant of the session and its calls.
THEOREM RpcInvariant == Spec => []RpcInv
<1>1. Init => RpcInv
  BY InitInv
<1>2. RpcInv /\ [Next]_vars => RpcInv'
  BY StepInv
<1> QED BY <1>1, <1>2, PTL DEF Spec

(***************************************************************************)
(* Session.results holds one entry for each message a call is in send()    *)
(* with, and no other, for any number of calls.                            *)
(***************************************************************************)
THEOREM ResultsExactTheorem == Spec => []ResultsExact
<1>1. RpcInv => ResultsExact
  <2> SUFFICES ASSUME RpcInv
               PROVE  ResultsExact
    OBVIOUS
  <2>1. \A i \in Ids : results[i] # None <=>
                       \E c \in Calls : pc[c] \in Sending /\ msg[c].id = i
    BY DEF RpcInv, OwnResult
  <2>2. \A c \in Calls : pc[c] \in Sending => msg[c].id \in Ids
    BY MsgType
  <2>3. {i \in Ids : results[i] # None} =
           {msg[c].id : c \in {d \in Calls : pc[d] \in Sending}}
    BY <2>1, <2>2
  <2> QED BY <2>3 DEF RpcInv, OwnMessage, ResultsExact
<1> QED BY <1>1, RpcInvariant, PTL

(***************************************************************************)
(* No step takes an answer from a call that has it, but the one that       *)
(* returns it and a cancellation.                                          *)
(***************************************************************************)
THEOREM AnswerKeptTheorem == Spec => AnswerKept
<1>1. RpcInv /\ [Next]_vars =>
        [\A c \in Calls : Answered(c) =>
            Answered(c)' \/ pc'[c] \in {"returned", "cancelled"}]_vars
  <2> SUFFICES ASSUME RpcInv, [Next]_vars, NEW c \in Calls, Answered(c)
               PROVE  Answered(c)' \/ pc'[c] \in {"returned", "cancelled"}
    OBVIOUS
  <2>1. CASE \E d \in Calls : CallStep(d)
    BY <2>1 DEF CallStep
  <2>2. CASE SessionStep \/ ServerStep
    BY <2>2 DEF SessionStep, ServerStep
  <2> QED BY <2>1, <2>2, StepInv
<1> QED BY <1>1, RpcInvariant, PTL DEF Spec, AnswerKept

----------------------------------------------------------------------------
(* The session implements RpcCall *)

\* What a call's pc tells its caller, before and after a step.
LEMMA OutcomeLemma ==
    ASSUME NEW c \in Calls
    PROVE  /\ pc[c] = "idle" => Outcome(c) = "idle"
           /\ pc[c] = "returned" => Outcome(c) = "returned"
           /\ pc[c] \in {"raised", "cancelled"} => Outcome(c) = "failed"
           /\ pc[c] \notin Over \cup {"idle"} => Outcome(c) = "pending"
           /\ pc'[c] = "idle" => Outcome(c)' = "idle"
           /\ pc'[c] = "returned" => Outcome(c)' = "returned"
           /\ pc'[c] \in {"raised", "cancelled"} => Outcome(c)' = "failed"
           /\ pc'[c] \notin Over \cup {"idle"} => Outcome(c)' = "pending"
           /\ pc'[c] = pc[c] => Outcome(c)' = Outcome(c)
  BY DEF Outcome, Over

\* The outcomes after a step that changes one of them at most.
LEMMA OutcomesLemma ==
    ASSUME NEW c \in Calls, \A d \in Calls \ {c} : Outcome(d)' = Outcome(d)
    PROVE  [d \in Calls |-> Outcome(d)'] =
              [[d \in Calls |-> Outcome(d)] EXCEPT ![c] = Outcome(c)']
  OBVIOUS

\* A step of a call begins it, refuses it, returns an answer, fails or is not
\* seen by the caller.
LEMMA CallRefines ==
    ASSUME RpcInv, NEW c \in Calls, CallStep(c)
    PROVE  [Call!Next]_(Call!vars)
<1>1. \A d \in Calls \ {c} : Outcome(d)' = Outcome(d)
  BY OutcomeLemma DEF CallStep
<1>2. [d \in Calls |-> Outcome(d)'] = [[d \in Calls |-> Outcome(d)] EXCEPT ![c] = Outcome(c)']
  BY <1>1, OutcomesLemma
<1>3. executed' = executed /\ pc[c] \notin Over /\ pc'[c] # "idle"
  BY DEF CallStep
<1>4. Outcome(c)' \in {"pending", "returned", "failed"}
  BY <1>3, OutcomeLemma DEF Over
<1>5. CASE pc[c] = "idle"
  <2>1. pc'[c] # "returned"
    BY <1>5 DEF CallStep, Answered, Sending
  <2>2. Outcome(c) = "idle" /\ Outcome(c)' \in {"pending", "failed"}
    BY <1>3, <1>5, <2>1, OutcomeLemma DEF Over
  <2>3. Call!Begin(c) \/ Call!Refuse(c)
    BY <1>2, <1>3, <2>2 DEF Call!Begin, Call!Refuse
  <2> QED BY <2>3 DEF Call!Next
<1>6. CASE pc[c] # "idle"
  <2>1. Outcome(c) = "pending"
    BY <1>3, <1>6, OutcomeLemma
  <2>2. CASE Outcome(c)' = "pending"
    <3>1. [d \in Calls |-> Outcome(d)'] = [d \in Calls |-> Outcome(d)]
      BY <1>1, <2>1, <2>2
    <3> QED BY <3>1, <1>3 DEF Call!vars
  <2>3. CASE Outcome(c)' = "failed"
    <3>1. Call!Fail(c)
      BY <1>2, <1>3, <2>1, <2>3 DEF Call!Fail
    <3> QED BY <3>1 DEF Call!Next
  <2>4. CASE Outcome(c)' = "returned"
    <3>1. pc'[c] = "returned"
      BY <1>3, <2>4, OutcomeLemma DEF Over
    <3>2. c \in executed
      BY <3>1 DEF CallStep, RpcInv, Belongs
    <3>3. Call!Return(c)
      BY <1>2, <1>3, <2>1, <2>4, <3>2 DEF Call!Return
    <3> QED BY <3>3 DEF Call!Next
  <2> QED BY <1>4, <2>2, <2>3, <2>4
<1> QED BY <1>5, <1>6

\* A step of the session fails the call that runs restart(), or is not seen.
LEMMA SessionRefines ==
    ASSUME RpcInv, SessionStep
    PROVE  [Call!Next]_(Call!vars)
<1>1. executed' = executed
  BY DEF SessionStep
<1>2. \A d \in Calls : d # restarter => Outcome(d)' = Outcome(d)
  BY OutcomeLemma DEF SessionStep
<1>3. CASE \A d \in Calls : Outcome(d)' = Outcome(d)
  <2>1. [d \in Calls |-> Outcome(d)'] = [d \in Calls |-> Outcome(d)]
    BY <1>3
  <2> QED BY <2>1, <1>1 DEF Call!vars
<1>4. CASE \E d \in Calls : Outcome(d)' # Outcome(d)
  <2>1. PICK c \in Calls : Outcome(c)' # Outcome(c)
    BY <1>4
  <2>2. [d \in Calls |-> Outcome(d)'] =
           [[d \in Calls |-> Outcome(d)] EXCEPT ![c] = Outcome(c)']
    BY <1>2, <2>1, OutcomesLemma
  <2>3. Outcome(c) = "pending" /\ Outcome(c)' = "failed"
    BY <2>1, OutcomeLemma DEF SessionStep, Over
  <2>4. Call!Fail(c)
    BY <1>1, <2>2, <2>3 DEF Call!Fail
  <2> QED BY <2>4 DEF Call!Next
<1> QED BY <1>3, <1>4

\* A step of the server executes a call or is not seen.
LEMMA ServerRefines ==
    ASSUME ServerStep
    PROVE  [Call!Next]_(Call!vars)
<1>1. \A d \in Calls : Outcome(d)' = Outcome(d)
  BY OutcomeLemma DEF ServerStep
<1>2. [d \in Calls |-> Outcome(d)'] = [d \in Calls |-> Outcome(d)]
  BY <1>1
<1>3. CASE executed' = executed
  BY <1>2, <1>3 DEF Call!vars
<1>4. CASE \E c \in Calls : pc[c] # "idle" /\ executed' = executed \cup {c}
  <2>1. PICK c \in Calls : pc[c] # "idle" /\ executed' = executed \cup {c}
    BY <1>4
  <2>2. Outcome(c) # "idle"
    BY <2>1, OutcomeLemma DEF Outcome
  <2>3. Call!Execute(c)
    BY <1>2, <2>1, <2>2 DEF Call!Execute
  <2> QED BY <2>3 DEF Call!Next
<1> QED BY <1>3, <1>4 DEF ServerStep

(***************************************************************************)
(* Every step of the session, its calls and the server is a step of        *)
(* RpcCall or is not seen by the callers: what a call returns was the      *)
(* server's answer to that call.  That every call ends too is left to the  *)
(* model checker.                                                          *)
(***************************************************************************)
THEOREM ImplementsCallSteps == Spec => Call!Init /\ [][Call!Next]_(Call!vars)
<1>1. Init => Call!Init
  <2> SUFFICES ASSUME Init
               PROVE  Call!Init
    OBVIOUS
  <2>1. \A c \in Calls : Outcome(c) = "idle"
    BY OutcomeLemma DEF Init
  <2> QED BY <2>1 DEF Init, Call!Init
<1>2. RpcInv /\ [Next]_vars => [Call!Next]_(Call!vars)
  BY StepInv, CallRefines, SessionRefines, ServerRefines
<1> QED BY <1>1, <1>2, RpcInvariant, PTL DEF Spec

=============================================================================
