--------------------------- MODULE SessionReplay ---------------------------
(***************************************************************************)
(* The replay window and clock-skew check of pyrogram/session/session.py   *)
(* (Session.handle_packet), together with the parts of start() and _stop() *)
(* that reset them and the clock of internals/msg_id.py they consult.      *)
(*                                                                         *)
(* A server message is a msg_id and a kind.  The msg_id carries the        *)
(* server's time in its high bits (msg_id >> 32), abstracted here to       *)
(* msg_id \div IdsPerSecond.  handle_packet holds no await between the     *)
(* first and the last line modelled by Handle, so one message is one step; *)
(* the messages of a container are consecutive steps.                      *)
(***************************************************************************)
EXTENDS Integers, Sequences

CONSTANTS
    MsgIds,        \* the message ids the server may use
    IdsPerSecond,  \* ids per second of server time (2^32 in the code)
    StoredMax,     \* Session.STORED_MSG_IDS_MAX_SIZE
    SkewAhead,     \* Session.MAX_SKEW_AHEAD
    SkewBehind,    \* Session.MAX_SKEW_BEHIND
    MaxBreaches,   \* Session.MAX_SKEW_BREACHES
    MaxDelay,      \* how old a message may be when it arrives, in seconds
    MaxTime        \* bound on the server's clock

ASSUME ReplayAssumption ==
    /\ MsgIds \subseteq Nat \ {0}
    /\ IdsPerSecond \in Nat \ {0}
    /\ StoredMax \in Nat \ {0, 1}
    /\ SkewAhead \in Nat /\ SkewBehind \in Nat
    /\ MaxBreaches \in Nat \ {0}
    /\ MaxDelay \in Nat /\ MaxTime \in Nat

VARIABLES
    stored,     \* Session.stored_msg_ids, a sorted list
    floor,      \* Session._msg_id_floor
    breaches,   \* Session._skew_breaches
    teardown,   \* Session._teardown_started
    up,         \* a connection of this session is being read
    now,        \* the local clock MsgId.now() is built on
    offset,     \* MsgId.time_offset
    serverNow,  \* the server's clock
    delivered,  \* history: how often each id got past the checks since _stop()
    deaf        \* history: messages lost to skew since one was last accepted

window == <<stored, floor, delivered>>
clocks == <<now, serverNow>>
vars == <<stored, floor, breaches, teardown, up, now, offset, serverNow,
          delivered, deaf>>

Kinds == {"content", "notice", "rejected"}

Seconds(id) == id \div IdsPerSecond

TypeOK ==
    /\ stored \in Seq(MsgIds)
    /\ floor \in MsgIds \cup {0}
    /\ breaches \in 0..(MaxBreaches - 1)
    /\ teardown \in BOOLEAN /\ up \in BOOLEAN
    /\ now \in Nat /\ serverNow \in Nat /\ offset \in Int
    /\ delivered \in [MsgIds -> Nat]
    /\ deaf \in Nat

Init ==
    /\ stored = <<>> /\ floor = 0 /\ breaches = 0
    /\ teardown = FALSE /\ up = FALSE
    /\ now = 0 /\ offset = 0 /\ serverNow = 0
    /\ delivered = [id \in MsgIds |-> 0]
    /\ deaf = 0

(***************************************************************************)
(* bisect.bisect_left(list, id) on a sorted list, by its contract.         *)
(***************************************************************************)
BisectLeft(list, id, k) ==
    /\ k \in 0..Len(list)
    /\ \A i \in 1..k : list[i] < id
    /\ \A i \in (k + 1)..Len(list) : id <= list[i]

Insort(list, id, k) ==
    SubSeq(list, 1, k) \o <<id>> \o SubSeq(list, k + 1, Len(list))

(***************************************************************************)
(* Once the list outgrows STORED_MSG_IDS_MAX_SIZE its lower half is given  *)
(* up, and its last id becomes the floor below which everything is a       *)
(* replay.                                                                 *)
(***************************************************************************)
Cut == StoredMax \div 2
Full == Len(stored) > StoredMax
Window == IF Full THEN SubSeq(stored, Cut + 1, Len(stored)) ELSE stored
\* Mutant: pruning forgets to raise the floor.
FloorForgotten == floor
Floor == IF Full THEN stored[Cut] ELSE floor

Replayed(id) ==
    /\ Window # <<>>
    /\ \/ id <= Floor
       \/ \E i \in 1..Len(Window) : Window[i] = id

(***************************************************************************)
(* MsgId.sync is called for the first message of a connection and for a    *)
(* bad_msg_notification that says our own ids are out of step (16, 17).    *)
(***************************************************************************)
SyncedOffset(id, kind) ==
    IF kind = "rejected" \/ stored = <<>> THEN Seconds(id) - now ELSE offset

OutOfStep(id, kind) ==
    LET diff == Seconds(id) - (now + SyncedOffset(id, kind))
    IN  /\ Window # <<>>
        /\ kind = "content"
        /\ \/ diff > SkewAhead
           \/ diff < -SkewBehind

\* A message the server stamped at most MaxDelay seconds ago arrives.
Arrives(id) ==
    /\ up /\ ~teardown
    /\ Seconds(id) \in (serverNow - MaxDelay)..serverNow

\* "Discarding message": seen before or below the window.
DiscardReplay(id, kind) ==
    /\ Arrives(id)
    /\ Replayed(id)
    /\ stored' = Window /\ floor' = Floor
    /\ offset' = SyncedOffset(id, kind)
    /\ UNCHANGED <<breaches, teardown, up, now, serverNow, delivered, deaf>>

\* Mutant: the counter restarts without the clock being resynchronised.
DiscardSkewNoSync(id, kind) ==
    /\ Arrives(id) /\ ~Replayed(id) /\ OutOfStep(id, kind)
    /\ stored' = Window /\ floor' = Floor
    /\ breaches' = (breaches + 1) % MaxBreaches
    /\ offset' = SyncedOffset(id, kind)
    /\ deaf' = deaf + 1
    /\ UNCHANGED <<teardown, up, now, serverNow, delivered>>

\* "Discarding message %ss out of step"; the last breach resynchronises.
DiscardSkew(id, kind) ==
    /\ Arrives(id)
    /\ ~Replayed(id)
    /\ OutOfStep(id, kind)
    /\ stored' = Window /\ floor' = Floor
    /\ IF breaches + 1 >= MaxBreaches
          THEN breaches' = 0 /\ offset' = Seconds(id) - now
          ELSE breaches' = breaches + 1 /\ offset' = SyncedOffset(id, kind)
    /\ deaf' = deaf + 1
    /\ UNCHANGED <<teardown, up, now, serverNow, delivered>>

Accept(id, kind) ==
    /\ Arrives(id)
    /\ ~Replayed(id)
    /\ ~OutOfStep(id, kind)
    /\ \E k \in 0..Len(Window) :
          /\ BisectLeft(Window, id, k)
          /\ stored' = Insort(Window, id, k)
    /\ floor' = Floor
    /\ offset' = SyncedOffset(id, kind)
    /\ breaches' = 0
    /\ delivered' = [delivered EXCEPT ![id] = @ + 1]
    /\ deaf' = 0
    /\ UNCHANGED <<teardown, up, now, serverNow>>

\* A packet that fails the length or parity checks: _teardown().
BrokenPacket ==
    /\ up /\ ~teardown
    /\ teardown' = TRUE
    /\ UNCHANGED <<stored, floor, breaches, up, now, offset, serverNow,
                   delivered, deaf>>

\* One attempt of start(): the checks begin afresh for a new connection.
Start ==
    /\ ~up
    /\ up' = TRUE
    /\ teardown' = FALSE
    /\ breaches' = 0
    /\ floor' = 0
    /\ UNCHANGED <<stored, now, offset, serverNow, delivered, deaf>>

\* Mutant: the list survives the connection.
StopKeepsWindow ==
    /\ up
    /\ up' = FALSE
    /\ floor' = 0
    /\ delivered' = [id \in MsgIds |-> 0]
    /\ UNCHANGED <<stored, breaches, teardown, now, offset, serverNow, deaf>>

\* _stop(): the window is dropped with the connection.
Stop ==
    /\ up
    /\ up' = FALSE
    /\ stored' = <<>>
    /\ floor' = 0
    /\ delivered' = [id \in MsgIds |-> 0]
    /\ UNCHANGED <<breaches, teardown, now, offset, serverNow, deaf>>

Tick ==
    /\ serverNow < MaxTime
    /\ now' = now + 1
    /\ serverNow' = serverNow + 1
    /\ UNCHANGED <<stored, floor, breaches, teardown, up, offset, delivered,
                   deaf>>

\* The host sleeps: its monotonic clock stands still while the server's runs.
Suspend ==
    /\ \E t \in (serverNow + 1)..MaxTime : serverNow' = t
    /\ deaf' = 0
    /\ UNCHANGED <<stored, floor, breaches, teardown, up, now, offset,
                   delivered>>

Next ==
    \/ \E id \in MsgIds, kind \in Kinds :
          \/ DiscardReplay(id, kind)
          \/ DiscardSkew(id, kind)
          \/ Accept(id, kind)
    \/ BrokenPacket
    \/ Start
    \/ Stop
    \/ Tick
    \/ Suspend

Spec == Init /\ [][Next]_vars

----------------------------------------------------------------------------
(***************************************************************************)
(* The list stays sorted and free of duplicates, above the floor, which is *)
(* what bisect_left and the membership test by index rely on.              *)
(***************************************************************************)
WindowSorted ==
    /\ \A i, j \in 1..Len(stored) : i < j => stored[i] < stored[j]
    /\ \A i \in 1..Len(stored) : floor < stored[i]

\* The floor is only meaningful together with a non-empty list: the code
\* skips both checks when the list is empty.
FloorNeedsWindow == stored = <<>> => floor = 0

\* start() zeroes the floor but not the list: it relies on _stop() having
\* emptied the list of the connection before.
ClosedWindowEmpty == ~up => stored = <<>>

\* Every id let through on this connection is still recognisable.
DeliveredRemembered ==
    \A id \in MsgIds : delivered[id] > 0 =>
        \/ id <= floor
        \/ \E i \in 1..Len(stored) : stored[i] = id

(***************************************************************************)
(* No message is processed twice on one connection, although the window    *)
(* forgets: the pruning in handle_packet loses ids but never the knowledge *)
(* that they were seen.                                                    *)
(***************************************************************************)
NoReplay == \A id \in MsgIds : delivered[id] <= 1

(***************************************************************************)
(* The list never grows past one more than STORED_MSG_IDS_MAX_SIZE, since  *)
(* it is pruned before the insertion and not after it.                     *)
(***************************************************************************)
WindowBounded == Len(stored) <= StoredMax + 1

ReplayInv ==
    /\ TypeOK
    /\ WindowSorted
    /\ FloorNeedsWindow
    /\ ClosedWindowEmpty
    /\ DeliveredRemembered
    /\ NoReplay
    /\ WindowBounded

(***************************************************************************)
(* A host that slept does not go deaf: of the messages a well-behaved      *)
(* server sends afterwards at most MAX_SKEW_BREACHES in a row are lost to  *)
(* the skew check before the clock is resynchronised.  It needs the        *)
(* server's messages to be no later than the window allows.                *)
(***************************************************************************)
DeafnessBounded ==
    MaxDelay <= SkewAhead /\ MaxDelay <= SkewBehind => deaf <= MaxBreaches

=============================================================================
