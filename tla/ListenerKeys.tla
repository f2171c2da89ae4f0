---------------------------- MODULE ListenerKeys ---------------------------
(***************************************************************************)
(* How a ListenerRegistry (pyrogram/types/listeners/registry.py) files its *)
(* listeners in buckets and finds them again for an update: _identify(),   *)
(* _keys_for(), add(), remove(), _candidates(), Identifier.matches() and   *)
(* _is_stranger().                                                         *)
(*                                                                         *)
(* A field of an identifier is the set of values it accepts, {} standing   *)
(* for None, the wildcard.  message_id and inline_message_id are one field *)
(* here: a button belongs to one or the other.                             *)
(***************************************************************************)
EXTENDS FiniteSets

CONSTANTS
    Waiters,       \* listeners
    Chats, Users,  \* peer ids; one's own is a chat and a user
    Buttons,
    Absent         \* Python's None

Types == {"message", "callback_query"}

Specs == [type : Types, chat : SUBSET Chats, user : SUBSET Users,
          button : SUBSET Buttons, alert : BOOLEAN]

ASSUME KeysAssumption ==
    /\ Absent \notin Chats \cup Users \cup Buttons
    /\ Absent \notin Specs

\* An update as it is parsed; sender is the id of its sender_chat.
Updates == [type : Types, chat : Chats \cup {Absent}, user : Users \cup {Absent},
            sender : Users \cup {Absent}, button : Buttons \cup {Absent},
            scheduled : BOOLEAN, outgoing : BOOLEAN]

VARIABLES
    awaits,   \* the listeners in _live: what each waits for, Absent if not there
    buckets   \* _buckets

keysVars == <<awaits, buckets>>

Keys == Types \X {"chat", "user", "global"} \X (Chats \cup Users \cup {Absent})

KeysTypeOK ==
    /\ awaits \in [Waiters -> Specs \cup {Absent}]
    /\ DOMAIN buckets \subseteq Keys
    /\ \A k \in DOMAIN buckets : buckets[k] \subseteq Waiters

KeysInit ==
    /\ awaits = [l \in Waiters |-> Absent]
    /\ buckets = [k \in {} |-> {}]

----------------------------------------------------------------------------
(* Reducing an update to what listeners match against *)

\* Scheduled messages, and outgoing ones outside the chat with oneself, are
\* for nobody.
Ignored(u) ==
    /\ u.type = "message"
    /\ \/ u.scheduled
       \/ u.outgoing /\ (u.chat = Absent \/ u.chat # u.user)

\* A message without a user counts as its sender chat's.
Identify(u) ==
    [type   |-> u.type,
     chat   |-> u.chat,
     user   |-> IF u.type = "message" /\ u.user = Absent THEN u.sender ELSE u.user,
     button |-> u.button]

Accepts(pattern, value) == pattern = {} \/ value \in pattern

Matches(spec, data) ==
    /\ Accepts(spec.chat, data.chat)
    /\ Accepts(spec.user, data.user)
    /\ Accepts(spec.button, data.button)

\* _is_stranger(): the right button, only pressed by somebody else.
IsStranger(spec, data) ==
    /\ spec.type = "callback_query" /\ spec.alert
    /\ Accepts(spec.chat, data.chat)
    /\ Accepts(spec.button, data.button)

----------------------------------------------------------------------------
\* Mutant: a listener for certain users is always filed under them.
KeysForUsersFirst(spec) ==
    IF spec.chat # {}
       THEN {<<spec.type, "chat", c>> : c \in spec.chat}
       ELSE IF spec.user # {}
               THEN {<<spec.type, "user", x>> : x \in spec.user}
               ELSE {<<spec.type, "global", Absent>>}

\* Mutant: of several chats only one is a key.
KeysForOneChat(spec) ==
    IF spec.chat # {}
       THEN {<<spec.type, "chat", CHOOSE c \in spec.chat : TRUE>>}
       ELSE {<<spec.type, "global", Absent>>}

\* _keys_for(): by chat; else by user, unless strangers are to be told off
\* for pressing the button; else under the one global key.
KeysFor(spec) ==
    IF spec.chat # {}
       THEN {<<spec.type, "chat", c>> : c \in spec.chat}
       ELSE IF /\ spec.user # {}
               /\ ~(spec.type = "callback_query" /\ spec.alert /\ spec.button # {})
               THEN {<<spec.type, "user", x>> : x \in spec.user}
               ELSE {<<spec.type, "global", Absent>>}

Bucket(k) == IF k \in DOMAIN buckets THEN buckets[k] ELSE {}

Candidates(data) ==
    UNION {Bucket(<<data.type, "chat", data.chat>>),
           Bucket(<<data.type, "user", data.user>>),
           Bucket(<<data.type, "global", Absent>>)}

AddKeys(l, spec) ==
    /\ awaits[l] = Absent
    /\ awaits' = [awaits EXCEPT ![l] = spec]
    /\ buckets' = [k \in DOMAIN buckets \cup KeysFor(spec) |->
                     IF k \in KeysFor(spec) THEN Bucket(k) \cup {l} ELSE buckets[k]]

\* Mutant: emptied buckets stay.
RemoveKeepsEmpty(l) ==
    /\ awaits[l] # Absent
    /\ awaits' = [awaits EXCEPT ![l] = Absent]
    /\ buckets' = [k \in DOMAIN buckets |-> buckets[k] \ {l}]

\* remove(): out of each bucket, and the buckets it empties are dropped.
RemoveKeys(l) ==
    /\ awaits[l] # Absent
    /\ awaits' = [awaits EXCEPT ![l] = Absent]
    /\ LET kept == {k \in DOMAIN buckets :
                      k \in KeysFor(awaits[l]) => buckets[k] # {l}}
       IN  buckets' = [k \in kept |-> IF k \in KeysFor(awaits[l])
                                         THEN buckets[k] \ {l} ELSE buckets[k]]

KeysNext == \E l \in Waiters : RemoveKeys(l) \/ \E spec \in Specs : AddKeys(l, spec)

KeysSpec == KeysInit /\ [][KeysNext]_keysVars

----------------------------------------------------------------------------
\* The buckets are an index of _live and hold nothing else: no listener that
\* is gone and no empty bucket, of which a long-lived client would collect
\* one for every chat it ever listened to.
BucketsExact ==
    /\ KeysTypeOK
    /\ \A k \in DOMAIN buckets :
          /\ buckets[k] # {}
          /\ \A l \in buckets[k] : awaits[l] # Absent
    /\ DOMAIN buckets = UNION {KeysFor(awaits[l]) : l \in {m \in Waiters :
                                                           awaits[m] # Absent}}

(***************************************************************************)
(* Three probes are as good as a scan: every listener an update matches is *)
(* among its candidates, whichever field it was filed under and whichever  *)
(* of several chats or users the update comes from.                        *)
(***************************************************************************)
LookupComplete ==
    \A u \in Updates : ~Ignored(u) =>
        \A l \in Waiters :
            /\ awaits[l] # Absent /\ awaits[l].type = u.type
            /\ Matches(awaits[l], Identify(u))
            => l \in Candidates(Identify(u))

(***************************************************************************)
(* A user who presses a button meant for others is noticed: a listener     *)
(* with an alert that waits on particular buttons is among the candidates  *)
(* of everybody's press of them, although it is not filed under that user. *)
(***************************************************************************)
StrangersSeen ==
    \A u \in Updates :
        \A l \in Waiters :
            /\ awaits[l] # Absent /\ awaits[l].type = u.type
            /\ awaits[l].button # {} /\ IsStranger(awaits[l], Identify(u))
            => l \in Candidates(Identify(u))

=============================================================================
