----------------------------- MODULE UpdateState ----------------------------
(***************************************************************************)
(* What the client knows of the updates it has seen: handle_updates() and  *)
(* _save_update_state() of pyrogram/client.py, recover_gaps() of           *)
(* methods/advanced/recover_gaps.py, and the limit on update tasks of      *)
(* session/session.py.                                                     *)
(*                                                                         *)
(* A box is one of the counters the server numbers updates by: the pts of  *)
(* a channel, or the pts or the qts of key 0.  An update is a box and its  *)
(* number in it.  A state gives a number for each box, 0 for None; dates   *)
(* and seq are left out.  A write to the storage is made in the order of   *)
(* the calls and kept in a crash: losing it only lowers the state.         *)
(*                                                                         *)
(* The server is external: it numbers updates, pushes them while the       *)
(* client is connected, and answers getDifference from the numbers asked.  *)
(***************************************************************************)
EXTENDS FiniteSets, FiniteSetsExt, Naturals

CONSTANTS
    Channels,   \* keys with a pts only
    Common,     \* key 0, with a pts and a qts
    MaxChannel, MaxCommon, MaxQts,  \* last number of each kind of box
    Tasks,      \* update tasks: MAX_PENDING_UPDATES of them
    MaxStale,   \* MAX_STALE_TIMESTAMP_RETRIES
    BatchMax,   \* updates in a push
    MaxFaults,  \* crashes and "too long" pushes
    None

Keys == Channels \cup {Common}
Boxes == (Keys \X {"pts"}) \cup {<<Common, "qts">>}
Top(b) == CASE b[2] = "qts" -> MaxQts
            [] b = <<Common, "pts">> -> MaxCommon
            [] OTHER -> MaxChannel
Updates == UNION {{[box |-> b, n |-> i] : i \in 1..Top(b)} : b \in Boxes}
KeyOf(u) == u.box[1]
BoxesOf(k) == {b \in Boxes : b[1] = k}
Pts(k) == <<k, "pts">>

ASSUME UpdateAssumption ==
    /\ Common \notin Channels
    /\ {MaxChannel, MaxQts, MaxFaults} \subseteq Nat
    /\ {MaxCommon, MaxStale, BatchMax} \subseteq Nat \ {0}
    /\ None \notin Keys

VARIABLES
    server,  \* the number of the last update of each box
    online,  \* the client is connected
    wire,    \* updates pushed and not received
    long,    \* "too long" pushes not received: a key and its pts, 0 for None
    task,    \* handle_updates() of each update task
    rec,     \* recover_gaps() of the sweep, None, and of each key's background task
    marks,   \* _state_marks
    stored,  \* the update_state of the storage
    fate,    \* history: what became of each update
    faults

State == [Boxes -> Nat]
Zero == [b \in Boxes |-> 0]
Recs == Keys \cup {None}
Free == [pc |-> "off", left |-> {}, seen |-> Zero, long |-> {}]
Off == [pc |-> "off", keys |-> {}, key |-> None, local |-> Zero, out |-> {},
        last |-> FALSE, stale |-> 0]

known == <<marks, stored>>
vars == <<server, online, wire, long, task, rec, marks, stored, fate, faults>>

TypeOK ==
    /\ server \in State /\ marks \in State /\ stored \in State
    /\ online \in BOOLEAN
    /\ wire \subseteq Updates /\ long \subseteq Keys \X Nat
    /\ task \in [Tasks -> [pc : {"off", "put", "short"}, left : SUBSET Updates,
                           seen : State, long : SUBSET (Keys \X Nat)]]
    /\ rec \in [Recs -> [pc : {"off", "begin", "getstate", "pick", "ask", "put", "save"},
                         keys : SUBSET Keys, key : Keys \cup {None}, local : State,
                         out : SUBSET Updates, last : BOOLEAN, stale : 0..MaxStale - 1]]
    /\ fate \in [Updates -> {"due", "missed", "settled", "lost"}]
    /\ faults \in 0..MaxFaults

\* The update u is not ahead of the state s.
Past(u, s) == u.n <= s[u.box]
Happened(u) == Past(u, server)

\* The account has a pts; the client is new to it.
Init ==
    /\ server = [Zero EXCEPT ![Pts(Common)] = 1]
    /\ marks = Zero /\ stored = Zero
    /\ online = TRUE
    /\ wire = {} /\ long = {}
    /\ task = [t \in Tasks |-> Free]
    /\ rec = [r \in Recs |-> Off]
    /\ fate = [u \in Updates |-> IF Past(u, server) THEN "settled" ELSE "due"]
    /\ faults = 0

----------------------------------------------------------------------------
(* _save_update_state() *)

\* Mutant: the state is written whether or not it is behind the marks.
MergedAlways(s, k, kept) ==
    [b \in Boxes |-> IF b \in BoxesOf(k) /\ s[b] # 0 THEN s[b] ELSE kept[b]]

\* What s leaves in a state kept under the marks: a number below the mark is
\* taken for None, and None keeps what was there.
Merged(s, k, kept) ==
    [b \in Boxes |-> IF b \in BoxesOf(k) /\ s[b] # 0 /\ s[b] >= marks[b]
                        THEN s[b] ELSE kept[b]]

Save(k, s) ==
    /\ marks' = Merged(s, k, marks)
    /\ stored' = Merged(s, k, stored)

\* _save_update_state(id) with a bare id: the state is dropped.
Forget(k) ==
    /\ marks' = [b \in Boxes |-> IF b \in BoxesOf(k) THEN 0 ELSE marks[b]]
    /\ stored' = [b \in Boxes |-> IF b \in BoxesOf(k) THEN 0 ELSE stored[b]]

Known(k, s) == \E b \in BoxesOf(k) : s[b] # 0

\* Updates on their way to the client or in the hands of one of its tasks.
InHand ==
    wire \cup (UNION {task[t].left : t \in Tasks}) \cup (UNION {rec[r].out : r \in Recs})

Owed(u) == fate[u] \in {"due", "missed"}

\* History: what the state has passed by and nobody has in hand is lost.
Passed ==
    fate' = [u \in Updates |-> IF Owed(u) /\ Past(u, stored') /\ u \notin InHand'
                                  THEN "lost" ELSE fate[u]]
\* History: the dispatcher has them, or they are given up on purpose.
Settle(us) == fate' = [u \in Updates |-> IF u \in us THEN "settled" ELSE fate[u]]

----------------------------------------------------------------------------
(* The server *)

\* An update happens; it is pushed if the client is there.  One of a key the
\* client has a state of is missed when it is not.
Happen(b) ==
    LET u == [box |-> b, n |-> server[b] + 1]
    IN  /\ server[b] < Top(b)
        /\ server' = [server EXCEPT ![b] = @ + 1]
        /\ wire' = IF online THEN wire \cup {u} ELSE wire
        /\ fate' = [fate EXCEPT ![u] = IF ~online /\ Known(b[1], stored)
                                          THEN "missed" ELSE @]
        /\ UNCHANGED <<online, long, task, rec, known, faults>>

\* Instead of the updates of a key, the server says that there are too many:
\* UpdatesTooLong, or UpdateChannelTooLong with or without the pts.
PushTooLong(k) ==
    /\ online /\ faults < MaxFaults
    /\ \E u \in wire : KeyOf(u) = k
    /\ faults' = faults + 1
    /\ wire' = {u \in wire : KeyOf(u) # k}
    /\ \E n \in {0} \cup (IF k = Common THEN {} ELSE {server[Pts(k)]}) :
          long' = long \cup {<<k, n>>}
    /\ UNCHANGED <<server, online, task, rec, known>>
    /\ Passed

----------------------------------------------------------------------------
(* Session._schedule_update() and Client.handle_updates() *)

\* The highest number of each box in a push.
Highest(us) ==
    [b \in Boxes |-> Max({0} \cup {u.n : u \in {v \in us : v.box = b}})]

\* UpdatesTooLong comes alone.
Push(us, ls) ==
    /\ us \subseteq wire /\ ls \subseteq long
    /\ <<Common, 0>> \in ls => us = {} /\ ls = {<<Common, 0>>}
    /\ Cardinality(us) + Cardinality(ls) \in 1..BatchMax
    /\ wire' = wire \ us
    /\ long' = long \ ls

\* Updates, UpdatesCombined, UpdatesTooLong, and UpdateShort with a qts.
Receive(t, us, ls) ==
    /\ task[t].pc = "off"
    /\ Push(us, ls)
    /\ task' = [task EXCEPT ![t] = [pc |-> "put", left |-> us, seen |-> Highest(us),
                                    long |-> ls]]
    /\ UNCHANGED <<server, online, rec, known, fate, faults>>

\* UpdateShortMessage: the state is saved before the message is fetched.
ReceiveShort(t, u) ==
    /\ task[t].pc = "off"
    /\ u.box = Pts(Common)
    /\ Push({u}, {})
    /\ task' = [task EXCEPT ![t] = [Free EXCEPT !.pc = "short", !.left = {u}]]
    /\ Save(Common, Highest({u}))
    /\ UNCHANGED <<server, online, rec, faults>>
    /\ Passed

\* MAX_PENDING_UPDATES tasks are there already: the push is dropped.
Overflow(us, ls) ==
    /\ \A t \in Tasks : task[t].pc # "off"
    /\ Push(us, ls)
    /\ UNCHANGED <<server, online, task, rec, known, faults>>
    /\ Passed

\* The connection breaks: what was on its way is gone, the client stays.
Break ==
    /\ wire # {} \/ long # {}
    /\ wire' = {} /\ long' = {}
    /\ UNCHANGED <<server, online, task, rec, known, faults>>
    /\ Passed

\* The message of a short update was fetched.
Fetched(t) ==
    /\ task[t].pc = "short"
    /\ task' = [task EXCEPT ![t].pc = "put"]
    /\ UNCHANGED <<server, online, wire, long, rec, known, fate, faults>>

\* A request made for an update failed, and with it the task: of a short
\* update, or the getChannelDifference for a message with a min peer.
HandleFails(t) ==
    /\ \/ task[t].pc = "short"
       \/ task[t].pc = "put" /\ \E u \in task[t].left : KeyOf(u) \in Channels
    /\ task' = [task EXCEPT ![t] = Free]
    /\ UNCHANGED <<server, online, wire, long, rec, known, faults>>
    /\ Passed

\* enqueue_update(): the queue takes the update, or has no room in time.
Put(t, u) ==
    /\ task[t].pc = "put" /\ u \in task[t].left
    /\ task' = [task EXCEPT ![t].left = @ \ {u}]
    /\ Settle({u})
    /\ UNCHANGED <<server, online, wire, long, rec, known, faults>>

\* Once all are enqueued, the state of one key after the other is saved.
SaveSeen(t, k) ==
    /\ task[t].pc = "put" /\ task[t].left = {}
    /\ Known(k, task[t].seen)
    /\ task' = [task EXCEPT ![t].seen = [b \in Boxes |-> IF b \in BoxesOf(k) THEN 0
                                                                             ELSE @[b]]]
    /\ Save(k, task[t].seen)
    /\ UNCHANGED <<server, online, wire, long, rec, faults>>
    /\ Passed

\* _recover_too_long(): not while one runs for the key, nor when the mark
\* has reached the pts.
Recovers(k, n) ==
    /\ rec[k].pc = "off"
    /\ n = 0 \/ marks[Pts(k)] < n

TooLongPts(ls, k) == (CHOOSE l \in ls : l[1] = k)[2]

HandleEnd(t) ==
    /\ task[t].pc = "put" /\ task[t].left = {} /\ task[t].seen = Zero
    /\ task' = [task EXCEPT ![t] = Free]
    /\ LET ls == task[t].long
           begun == {k \in {l[1] : l \in ls} : Recovers(k, TooLongPts(ls, k))}
       IN  rec' = [r \in Recs |->
                     IF r \in begun
                        THEN [Off EXCEPT !.pc = "begin", !.local[Pts(r)] = TooLongPts(ls, r)]
                        ELSE rec[r]]
    /\ UNCHANGED <<server, online, wire, long, known, fate, faults>>

----------------------------------------------------------------------------
(* recover_gaps() *)

\* On to the next state of those that are left.
Turn(ks, local) ==
    IF ks = {} THEN Off
    ELSE [Off EXCEPT !.pc = "pick", !.keys = ks,
                     !.local = [b \in Boxes |-> IF b[1] \in ks THEN local[b] ELSE 0]]

\* Mutant: only the states of this run of the client are looked at.
ReadMarked(ks) == Turn({k \in ks : Known(k, marks)}, stored)

\* What recover_gaps() starts from: the states of the storage, wanted ones.
Read(ks) == Turn({k \in ks : Known(k, stored)}, stored)

\* At start, by the watchdog, or called by the user.
Sweep ==
    /\ online /\ rec[None].pc = "off"
    /\ rec' = [rec EXCEPT ![None] = Read(Keys)]
    /\ UNCHANGED <<server, online, wire, long, task, known, fate, faults>>

\* _recover_too_long_state(): with a mark, recover from the stored state;
\* else key 0 asks for the current state, and a channel takes the pts.
Begin(k) ==
    /\ rec[k].pc = "begin"
    /\ UNCHANGED <<server, online, wire, long, task, faults>>
    /\ \/ /\ Known(k, marks)
          /\ rec' = [rec EXCEPT ![k] = Read({k})]
          /\ UNCHANGED <<known, fate>>
       \/ /\ ~Known(k, marks) /\ k = Common
          /\ rec' = [rec EXCEPT ![k].pc = "getstate"]
          /\ UNCHANGED <<known, fate>>
       \/ /\ ~Known(k, marks) /\ k # Common
          /\ rec' = [rec EXCEPT ![k] = Off]
          /\ Save(k, rec[k].local)
          /\ Passed

GetState ==
    /\ rec[Common].pc = "getstate"
    /\ UNCHANGED <<server, online, wire, long, task, faults>>
    /\ rec' = [rec EXCEPT ![Common] = Off]
    /\ \/ Save(Common, server) /\ Passed
       \/ UNCHANGED <<known, fate>>

Pick(r, k) ==
    /\ rec[r].pc = "pick" /\ k \in rec[r].keys
    /\ rec' = [rec EXCEPT ![r].keys = @ \ {k}, ![r].key = k, ![r].pc = "ask",
                          ![r].stale = 0]
    /\ UNCHANGED <<server, online, wire, long, task, known, fate, faults>>

Skip(r) == rec' = [rec EXCEPT ![r] = Turn(rec[r].keys, rec[r].local)]

Asks(r) == rec[r].pc = "ask" /\ rec[r].local[Pts(rec[r].key)] # 0

\* Updates of k after state s up to state m.
Between(k, s, m) == {u \in Updates : KeyOf(u) = k /\ ~Past(u, s) /\ Past(u, m)}

\* A state of key 0 with a qts alone: getState gives the pts to ask from.
AskState(r) ==
    /\ rec[r].pc = "ask" /\ ~Asks(r)
    /\ rec' = [rec EXCEPT ![r].local[Pts(Common)] = server[Pts(Common)]]
    /\ Settle({u \in Updates : u.box = Pts(Common) /\ Happened(u)})
    /\ UNCHANGED <<server, online, wire, long, task, known, faults>>

\* Nothing new: the state is saved here and once more after the loop.
Empty(r) ==
    LET k == rec[r].key
    IN  /\ Asks(r)
        /\ Between(k, rec[r].local, server) = {}
        /\ rec' = [rec EXCEPT ![r].pc = "save"]
        /\ Save(k, rec[r].local)
        /\ UNCHANGED <<server, online, wire, long, task, fate, faults>>

\* Too much: go on from the pts the server gives.
TooLong(r) ==
    LET k == rec[r].key
        local == [rec[r].local EXCEPT ![Pts(k)] = server[Pts(k)]]
    IN  /\ Asks(r)
        /\ rec[r].local[Pts(k)] < server[Pts(k)]
        /\ rec' = [rec EXCEPT ![r].local = local]
        /\ Save(k, local)
        /\ Settle(Between(k, rec[r].local, local))
        /\ UNCHANGED <<server, online, wire, long, task, faults>>

\* Mutant: a slice that did not get anywhere is asked for again.
SliceAgain(r, m, final) ==
    LET k == rec[r].key
    IN  [rec[r] EXCEPT !.pc = "put", !.local = m,
                       !.out = Between(k, rec[r].local, m), !.last = final]

\* Mutant: only the messages of a difference are enqueued, not other updates.
SliceMessages(r, m, final) ==
    LET k == rec[r].key
    IN  [rec[r] EXCEPT !.pc = "put", !.local = m,
                       !.out = {u \in Between(k, rec[r].local, m) : u.box[2] = "pts"},
                       !.last = final \/ m = rec[r].local]

\* The state of r when a difference up to m has come: updates.difference
\* and a final channelDifference end the loop, a slice ends it only when it
\* did not get anywhere.
Slice(r, m, final) ==
    LET k == rec[r].key
    IN  [rec[r] EXCEPT !.pc = "put", !.local = m,
                       !.out = Between(k, rec[r].local, m),
                       !.last = final \/ m = rec[r].local]

\* A state from local on, with numbers p and q for the key k.
Onward(local, k, p, q) ==
    [b \in Boxes |-> CASE b = Pts(k)                -> p
                      [] b \in BoxesOf(k) \ {Pts(k)} -> q
                      [] OTHER                        -> local[b]]
Qts(k, s) == IF k = Common THEN s[<<Common, "qts">>] ELSE 0

Difference(r, m, final) ==
    /\ Asks(r)
    /\ rec' = [rec EXCEPT ![r] = Slice(r, m, final)]
    /\ UNCHANGED <<server, online, wire, long, task, known, fate, faults>>

\* The channel is not there for this account any more, or its timestamp was
\* refused too often: the stored state goes, and what it had passed is given
\* up should it be in somebody's hand.
Drop(r) ==
    /\ \/ Asks(r) /\ rec[r].key # Common
       \/ Asks(r) /\ rec[r].stale = MaxStale - 1
    /\ Skip(r)
    /\ Forget(rec[r].key)
    /\ Settle({u \in Updates : KeyOf(u) = rec[r].key /\ Past(u, stored)})
    /\ UNCHANGED <<server, online, wire, long, task, faults>>

Stale(r) ==
    /\ Asks(r) /\ rec[r].stale < MaxStale - 1
    /\ rec' = [rec EXCEPT ![r].stale = @ + 1]
    /\ UNCHANGED <<server, online, wire, long, task, known, fate, faults>>

\* Any other exception: the state is kept as it was, go on with the next.
AskFails(r) ==
    /\ rec[r].pc = "ask"
    /\ Skip(r)
    /\ UNCHANGED <<server, online, wire, long, task, known, fate, faults>>

PutBack(r, u) ==
    /\ rec[r].pc = "put" /\ u \in rec[r].out
    /\ rec' = [rec EXCEPT ![r].out = @ \ {u}]
    /\ Settle({u})
    /\ UNCHANGED <<server, online, wire, long, task, known, faults>>

\* All of a slice is enqueued: ask for the next.
AskNext(r) ==
    /\ rec[r].pc = "put" /\ rec[r].out = {} /\ ~rec[r].last
    /\ rec' = [rec EXCEPT ![r].pc = "ask"]
    /\ UNCHANGED <<server, online, wire, long, task, known, fate, faults>>

\* After the loop.
SaveLocal(r) ==
    /\ \/ rec[r].pc = "put" /\ rec[r].out = {} /\ rec[r].last
       \/ rec[r].pc = "save"
    /\ Skip(r)
    /\ Save(rec[r].key, rec[r].local)
    /\ UNCHANGED <<server, online, wire, long, task, fate, faults>>

----------------------------------------------------------------------------
\* The process ends with all it had in memory.
Crash ==
    /\ online /\ faults < MaxFaults
    /\ faults' = faults + 1
    /\ online' = FALSE
    /\ wire' = {} /\ long' = {}
    /\ task' = [t \in Tasks |-> Free]
    /\ rec' = [r \in Recs |-> Off]
    /\ marks' = Zero
    /\ UNCHANGED <<server, stored>>
    /\ Passed

\* connect(): the session is up, and updates come in before start() goes on.
Connect ==
    /\ ~online /\ online' = TRUE
    /\ UNCHANGED <<server, wire, long, task, rec, known, fate, faults>>

Arrive ==
    \E us \in SUBSET wire, ls \in SUBSET long :
        \/ \E t \in Tasks : Receive(t, us, ls)
        \/ Overflow(us, ls)

Handle(t) ==
    \/ Fetched(t) \/ HandleFails(t) \/ HandleEnd(t)
    \/ \E u \in task[t].left : Put(t, u)
    \/ \E k \in Keys : SaveSeen(t, k)

Full(r) ==
    LET k == rec[r].key
    IN  rec[r].pc = "ask"
        /\ Difference(r, Onward(rec[r].local, k, server[Pts(k)], Qts(k, server)), TRUE)

Part(r) ==
    LET k == rec[r].key
        local == rec[r].local
    IN  rec[r].pc = "ask"
        /\ \E p \in local[Pts(k)]..server[Pts(k)], q \in Qts(k, local)..Qts(k, server) :
              Difference(r, Onward(local, k, p, q), FALSE)

Answer(r) ==
    \/ AskState(r) \/ Empty(r) \/ TooLong(r) \/ Drop(r) \/ Stale(r) \/ AskFails(r)
    \/ Full(r) \/ Part(r)

Recover(r) ==
    \/ r # None /\ Begin(r)
    \/ r = Common /\ GetState
    \/ \E k \in Keys : Pick(r, k)
    \/ Answer(r)
    \/ \E u \in rec[r].out : PutBack(r, u)
    \/ AskNext(r) \/ SaveLocal(r)

Next ==
    \/ \E b \in Boxes : Happen(b)
    \/ \E k \in Keys : PushTooLong(k)
    \/ Arrive
    \/ \E t \in Tasks, u \in wire : ReceiveShort(t, u)
    \/ Break
    \/ \E t \in Tasks : Handle(t)
    \/ Sweep
    \/ \E r \in Recs : Recover(r)
    \/ Crash \/ Connect

\* What is pushed arrives or is lost; tasks go on; the client comes back; the
\* watchdog sweeps; a request that is made again and again is answered.
Fairness ==
    /\ WF_vars(Arrive \/ Break)
    /\ WF_vars(Connect) /\ WF_vars(Sweep)
    /\ \A t \in Tasks : WF_vars(Handle(t))
    /\ \A r \in Recs : WF_vars(Recover(r))
    /\ SF_vars(AskState(None))
    /\ \A k \in Keys : SF_vars(rec[None].key = k /\ Full(None))

Spec == Init /\ [][Next]_vars /\ Fairness

----------------------------------------------------------------------------
(***************************************************************************)
(* recover_gaps() never moves the stored state past an update that it has  *)
(* not handed to the dispatcher, whatever live updates, another recovery   *)
(* or a crash do meanwhile: only a save by handle_updates(), which does    *)
(* not look for gaps, or by a "too long" push for a key without a mark     *)
(* leaves an update behind.                                                *)
(***************************************************************************)
NonePassedBy ==
    /\ TypeOK
    /\ \A u \in Updates : Owed(u) /\ Past(u, stored) => u \in InHand

(***************************************************************************)
(* The stored state of a key moves forward only: a recovery that worked    *)
(* from an older state, or a push handled late, does not set it back.  It  *)
(* may only be dropped as a whole.                                         *)
(***************************************************************************)
StateAdvances ==
    [][\A k \in Keys : \/ \A b \in BoxesOf(k) : stored[b] <= stored'[b]
                       \/ ~Known(k, stored')]_stored

(***************************************************************************)
(* The client catches up with a key it has a state of, again and again:    *)
(* no update stays owed that is neither with the dispatcher nor given up.  *)
(***************************************************************************)
Settles ==
    \A k \in Keys :
        []<>(Known(k, stored) =>
                \A u \in Updates : KeyOf(u) = k /\ Happened(u) => ~Owed(u))

(***************************************************************************)
(* A recovery after a "too long" push ends, so that the next one for its   *)
(* key is not refused for ever.                                            *)
(***************************************************************************)
RecoveryEnds == \A k \in Keys : rec[k].pc # "off" ~> rec[k].pc = "off"

(***************************************************************************)
(* "Skipped updates can still be fetched on demand": what happened while   *)
(* the client was offline stays ahead of the stored state until a          *)
(* recovery has come to it.                                                *)
(***************************************************************************)
MissedStaysAhead ==
    [][\A u \in Updates : fate[u] = "missed" => fate'[u] # "lost"]_fate

=============================================================================
