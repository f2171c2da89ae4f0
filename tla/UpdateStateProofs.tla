-------------------------- MODULE UpdateStateProofs -------------------------
(***************************************************************************)
(* That the stored update state moves forward only, and that no recovery   *)
(* passes an update by, for any number of channels, update tasks, updates  *)
(* and crashes.                                                            *)
(***************************************************************************)
EXTENDS UpdateState, WellFoundedInduction, TLAPS

----------------------------------------------------------------------------
(* The inductive invariant.  Its parts are about a record or a number and  *)
(* take the marks m, the stored state s, the server's v and the fates f.   *)

TaskType == [pc : {"off", "put", "short"}, left : SUBSET Updates,
             seen : State, long : SUBSET (Keys \X Nat)]
RecType == [pc : {"off", "begin", "getstate", "pick", "ask", "put", "save"},
            keys : SUBSET Keys, key : Keys \cup {None}, local : State,
            out : SUBSET Updates, last : BOOLEAN, stale : 0..MaxStale - 1]

\* What the server has counted to; without a mark, as it is after a crash, it
\* is not older than the stored state.
Recent(b, n, m, s, v) == n <= v[b] /\ (m[b] = 0 => n >= s[b])

\* The same, or no number at all: it may be saved.
Fine(b, n, m, s, v) == n = 0 \/ Recent(b, n, m, s, v)

TaskOK(x, m, s, v) ==
    /\ \A b \in Boxes : Fine(b, x.seen[b], m, s, v)
    /\ \A l \in x.long : Fine(Pts(l[1]), l[2], m, s, v)
    /\ x.pc = "off" => x.left = {}

\* The keys a recovery still works on.
Due(x) == x.keys \cup {x.key}

\* The updates up to the state a recovery works from are with the dispatcher
\* or in its own hand, or they were up to the stored state before.
Covers(x, s, f) ==
    \A u \in Updates : KeyOf(u) \in Due(x) /\ f[u] \in {"due", "missed"} /\ Past(u, x.local) =>
                          Past(u, s) \/ u \in x.out

RecOK(x, m, s, v, f) ==
    /\ \A b \in Boxes : Fine(b, x.local[b], m, s, v)
    /\ \A b \in Boxes : b[1] \in Due(x) => Recent(b, x.local[b], m, s, v)
    /\ Covers(x, s, f)
    /\ x.pc # "put" => x.out = {}
    /\ x.pc \in {"ask", "put", "save"} => x.key \in Keys
    /\ x.pc \in {"off", "begin", "getstate"} => x.keys = {} /\ x.key = None

\* A mark is the stored number or none, and the server is not behind it.
KnownOK(m, s, v) == \A b \in Boxes : m[b] \in {0, s[b]} /\ s[b] <= v[b]

UpdInv ==
    /\ NonePassedBy
    /\ KnownOK(marks, stored, server)
    /\ \A u \in wire : Fine(u.box, u.n, marks, stored, server)
    /\ \A l \in long : Fine(Pts(l[1]), l[2], marks, stored, server)
    /\ \A t \in Tasks : TaskOK(task[t], marks, stored, server)
    /\ \A r \in Recs : RecOK(rec[r], marks, stored, server, fate)

----------------------------------------------------------------------------
(* Boxes and updates *)

LEMMA BoxType ==
    /\ \A k \in Keys : Pts(k) \in Boxes /\ Pts(k)[1] = k
    /\ \A b \in Boxes : b[1] \in Keys
    /\ \A k \in Keys : BoxesOf(k) \subseteq Boxes
    /\ None \notin Keys
    /\ Common \in Keys
  BY UpdateAssumption DEF Boxes, Pts, BoxesOf, Keys

LEMMA TopType ==
    ASSUME NEW b \in Boxes
    PROVE  Top(b) \in Nat
  BY UpdateAssumption DEF Top

LEMMA UpdateType ==
    ASSUME NEW u \in Updates
    PROVE  /\ u.box \in Boxes /\ u.n \in Nat /\ u.n > 0 /\ u.n <= Top(u.box)
           /\ KeyOf(u) \in Keys
<1>1. PICK b \in Boxes : \E i \in 1..Top(b) : u = [box |-> b, n |-> i]
  BY DEF Updates
<1>2. PICK i \in 1..Top(b) : u = [box |-> b, n |-> i]
  BY <1>1
<1>3. u.box = b /\ u.n = i /\ i \in Nat /\ i > 0 /\ i <= Top(b)
  BY <1>2, TopType
<1> QED BY <1>3, BoxType DEF KeyOf

LEMMA NewUpdate ==
    ASSUME NEW b \in Boxes, NEW n \in Nat, n < Top(b)
    PROVE  [box |-> b, n |-> n + 1] \in Updates
<1>1. n + 1 \in 1..Top(b)
  BY TopType
<1> QED BY <1>1 DEF Updates

\* A set of naturals with an upper bound has a greatest element.
LEMMA Greatest ==
    ASSUME NEW T \in SUBSET Nat, T # {}, NEW top \in Nat, \A x \in T : x <= top
    PROVE  Max(T) \in T
<1> DEFINE R == OpToRel(<, Nat)
           bounds == {n \in Nat : \A x \in T : x <= n}
<1>1. IsWellFoundedOn(R, Nat)
  BY NatLessThanWellFounded, Zenon
<1>2. \A x, y \in Nat : x < y => <<x, y>> \in R
  BY DEF OpToRel
<1>3. bounds \subseteq Nat /\ bounds # {}
  OBVIOUS
<1> HIDE DEF R
<1>4. PICK n \in bounds : \A i \in bounds : ~(<<i, n>> \in R)
  BY <1>1, <1>3, WFMin
<1>5. n \in Nat /\ \A x \in T : x <= n
  BY <1>4
<1>6. n \in T
  <2> SUFFICES ASSUME n \notin T
               PROVE  FALSE
    OBVIOUS
  <2>1. \A x \in T : x \in Nat /\ x < n
    BY <1>5
  <2>2. n > 0
    <3>1. PICK x \in T : TRUE
      OBVIOUS
    <3> QED BY <1>5, <2>1, <3>1
  <2>3. n - 1 \in Nat /\ n - 1 < n /\ \A x \in T : x <= n - 1
    BY <1>5, <2>1, <2>2
  <2>4. n - 1 \in bounds
    BY <2>3
  <2> QED BY <1>2, <1>4, <1>5, <2>3, <2>4
<1>7. \E x \in T : \A y \in T : x >= y
  BY <1>5, <1>6
<1> QED BY <1>7 DEF Max

\* The number of each box in a push is none, or that of an update in it.
LEMMA HighestLemma ==
    ASSUME NEW us \in SUBSET Updates
    PROVE  /\ Highest(us) \in State
           /\ \A b \in Boxes : \/ Highest(us)[b] = 0
                              \/ \E u \in us : u.box = b /\ u.n = Highest(us)[b]
<1> DEFINE T(b) == {0} \cup {u.n : u \in {v \in us : v.box = b}}
<1>1. ASSUME NEW b \in Boxes
      PROVE  Max(T(b)) \in T(b) /\ T(b) \subseteq Nat
  <2>1. T(b) \in SUBSET Nat /\ T(b) # {} /\ \A x \in T(b) : x <= Top(b)
    BY UpdateType, TopType
  <2> HIDE DEF T
  <2> QED BY <2>1, TopType, Greatest
<1>2. Highest(us) = [b \in Boxes |-> Max(T(b))]
  BY DEF Highest
<1>3. \A b \in Boxes : \A n \in T(b) : n = 0 \/ \E u \in us : u.box = b /\ u.n = n
  OBVIOUS
<1> HIDE DEF T
<1> QED BY <1>1, <1>2, <1>3 DEF State

LEMMA ZeroType == Zero \in State /\ \A b \in Boxes : Zero[b] = 0
  BY DEF Zero, State

----------------------------------------------------------------------------
(* What steps have in common *)

\* The state is kept, moves forward or is dropped for a box; a mark is left
\* out only with it.
KnownStep(m, s, v, mm, ss, vv) ==
    \A b \in Boxes :
        /\ v[b] <= vv[b] /\ ss[b] <= vv[b]
        /\ mm[b] \in {0, ss[b]}
        /\ mm[b] = 0 => ss[b] = 0 \/ (m[b] = 0 /\ ss[b] = s[b])

\* An update is owed because it was, and then it is not left ahead of the
\* stored state again, or because it has only just happened.
FateStep(s, v, f, ss, ff) ==
    \A u \in Updates : ff[u] \in {"due", "missed"} =>
        \/ f[u] \in {"due", "missed"} /\ (Past(u, s) => Past(u, ss))
        \/ ~Past(u, v)

LEMMA RecentKept ==
    ASSUME NEW m \in State, NEW s \in State, NEW v \in State,
           NEW mm \in State, NEW ss \in State, NEW vv \in State,
           KnownStep(m, s, v, mm, ss, vv)
    PROVE  \A b \in Boxes, n \in Nat :
              /\ Recent(b, n, m, s, v) => Recent(b, n, mm, ss, vv)
              /\ Fine(b, n, m, s, v) => Fine(b, n, mm, ss, vv)
<1> SUFFICES ASSUME NEW b \in Boxes, NEW n \in Nat
             PROVE  Recent(b, n, m, s, v) => Recent(b, n, mm, ss, vv)
  BY DEF Fine
<1>1. /\ m[b] \in Nat /\ s[b] \in Nat /\ v[b] \in Nat
      /\ mm[b] \in Nat /\ ss[b] \in Nat /\ vv[b] \in Nat
  BY DEF State
<1>2. v[b] <= vv[b] /\ (mm[b] = 0 => ss[b] = 0 \/ (m[b] = 0 /\ ss[b] = s[b]))
  BY DEF KnownStep
<1> QED BY <1>1, <1>2 DEF Recent

LEMMA TaskKept ==
    ASSUME NEW m \in State, NEW s \in State, NEW v \in State,
           NEW mm \in State, NEW ss \in State, NEW vv \in State,
           KnownStep(m, s, v, mm, ss, vv),
           NEW x \in TaskType, TaskOK(x, m, s, v)
    PROVE  TaskOK(x, mm, ss, vv)
<1>1. \A b \in Boxes : x.seen[b] \in Nat
  BY DEF TaskType, State
<1>2. \A l \in x.long : l[1] \in Keys /\ Pts(l[1]) \in Boxes /\ l[2] \in Nat
  BY BoxType DEF TaskType
<1> QED BY <1>1, <1>2, RecentKept DEF TaskOK

LEMMA RecKept ==
    ASSUME NEW m \in State, NEW s \in State, NEW v \in State, NEW f,
           NEW mm \in State, NEW ss \in State, NEW vv \in State, NEW ff,
           KnownStep(m, s, v, mm, ss, vv), FateStep(s, v, f, ss, ff),
           NEW x \in RecType, RecOK(x, m, s, v, f)
    PROVE  RecOK(x, mm, ss, vv, ff)
<1>1. \A b \in Boxes : x.local[b] \in Nat
  BY DEF RecType, State
<1>2. ASSUME NEW u \in Updates, KeyOf(u) \in Due(x), ff[u] \in {"due", "missed"},
             Past(u, x.local)
      PROVE  Past(u, ss) \/ u \in x.out
  <2>1. u.box \in Boxes /\ u.n \in Nat /\ u.n > 0
    BY UpdateType
  <2>2. Past(u, v)
    <3>1. x.local[u.box] \in Nat /\ v[u.box] \in Nat
      BY <1>1, <2>1 DEF State
    <3>2. x.local[u.box] <= v[u.box]
      BY <1>2, <2>1 DEF RecOK, Recent, KeyOf
    <3> QED BY <1>2, <2>1, <3>1, <3>2 DEF Past
  <2> QED BY <1>2, <2>2 DEF RecOK, Covers, FateStep
<1> QED BY <1>1, <1>2, RecentKept DEF RecOK, Covers

\* Who has an update in hand.
LEMMA InHandIs ==
    ASSUME NEW u
    PROVE  /\ u \in InHand <=> \/ u \in wire
                               \/ \E t \in Tasks : u \in task[t].left
                               \/ \E r \in Recs : u \in rec[r].out
           /\ u \in InHand' <=> \/ u \in wire'
                                \/ \E t \in Tasks : u \in task'[t].left
                                \/ \E r \in Recs : u \in rec'[r].out
<1>1. /\ u \in UNION {task[t].left : t \in Tasks} <=> \E t \in Tasks : u \in task[t].left
      /\ u \in UNION {rec[r].out : r \in Recs} <=> \E r \in Recs : u \in rec[r].out
  BY Zenon
<1>2. /\ u \in UNION {task'[t].left : t \in Tasks} <=> \E t \in Tasks : u \in task'[t].left
      /\ u \in UNION {rec'[r].out : r \in Recs} <=> \E r \in Recs : u \in rec'[r].out
  BY Zenon
<1> QED BY <1>1, <1>2 DEF InHand

\* What is to be shown of a step.
LEMMA Frame ==
    ASSUME UpdInv,
           marks' \in State, stored' \in State, server' \in State,
           online' \in BOOLEAN, faults' \in 0..MaxFaults,
           fate' \in [Updates -> {"due", "missed", "settled", "lost"}],
           KnownStep(marks, stored, server, marks', stored', server'),
           FateStep(stored, server, fate, stored', fate'),
           wire' \subseteq Updates,
           \A u \in wire' : u \in wire \/ Fine(u.box, u.n, marks', stored', server'),
           long' \subseteq Keys \X Nat,
           \A l \in long' : l \in long \/ Fine(Pts(l[1]), l[2], marks', stored', server'),
           task' \in [Tasks -> TaskType],
           \A t \in Tasks : task'[t] = task[t] \/ TaskOK(task'[t], marks', stored', server'),
           rec' \in [Recs -> RecType],
           \A r \in Recs : rec'[r] = rec[r] \/ RecOK(rec'[r], marks', stored', server', fate'),
           \A u \in Updates : fate'[u] \in {"due", "missed"} /\ Past(u, stored') => u \in InHand'
    PROVE  UpdInv'
<1>1. /\ marks \in State /\ stored \in State /\ server \in State
      /\ wire \subseteq Updates /\ long \subseteq Keys \X Nat
      /\ task \in [Tasks -> TaskType] /\ rec \in [Recs -> RecType]
  BY DEF UpdInv, NonePassedBy, TypeOK, TaskType, RecType
<1>2. TypeOK'
  BY DEF TypeOK, TaskType, RecType
<1>3. NonePassedBy'
  BY <1>2 DEF NonePassedBy, Owed
<1>4. KnownOK(marks', stored', server')
  BY DEF KnownOK, KnownStep
<1>5. \A u \in wire' : Fine(u.box, u.n, marks', stored', server')
  <2>1. \A u \in wire : u.box \in Boxes /\ u.n \in Nat /\ Fine(u.box, u.n, marks, stored, server)
    BY <1>1, UpdateType DEF UpdInv
  <2> QED BY <1>1, <2>1, RecentKept
<1>6. \A l \in long' : Fine(Pts(l[1]), l[2], marks', stored', server')
  <2>1. \A l \in long : Pts(l[1]) \in Boxes /\ l[2] \in Nat
                        /\ Fine(Pts(l[1]), l[2], marks, stored, server)
    BY <1>1, BoxType DEF UpdInv
  <2> QED BY <1>1, <2>1, RecentKept
<1>7. \A t \in Tasks : TaskOK(task'[t], marks', stored', server')
  BY <1>1, TaskKept DEF UpdInv
<1>8. \A r \in Recs : RecOK(rec'[r], marks', stored', server', fate')
  BY <1>1, RecKept DEF UpdInv
<1> QED BY <1>3, <1>4, <1>5, <1>6, <1>7, <1>8 DEF UpdInv

LEMMA Types ==
    ASSUME UpdInv
    PROVE  /\ marks \in State /\ stored \in State /\ server \in State
           /\ online \in BOOLEAN /\ faults \in 0..MaxFaults
           /\ wire \subseteq Updates /\ long \subseteq Keys \X Nat
           /\ task \in [Tasks -> TaskType] /\ rec \in [Recs -> RecType]
           /\ fate \in [Updates -> {"due", "missed", "settled", "lost"}]
  BY DEF UpdInv, NonePassedBy, TypeOK, TaskType, RecType

\* The stored state stays or moves forward, and the marks with it.
Grown ==
    /\ marks' \in State /\ stored' \in State /\ server' = server
    /\ KnownStep(marks, stored, server, marks', stored', server')
    /\ \A b \in Boxes : stored[b] <= stored'[b]

\* What StateAdvances asks of a step.
Advances ==
    \A k \in Keys : \/ \A b \in BoxesOf(k) : stored[b] <= stored'[b]
                    \/ ~Known(k, stored')

LEMMA GrownAdvances ==
    ASSUME Grown
    PROVE  Advances
  BY BoxType DEF Grown, Advances

LEMMA SameGrown ==
    ASSUME UpdInv, UNCHANGED <<known, server>>
    PROVE  Grown
<1>1. \A b \in Boxes : stored[b] \in Nat /\ server[b] \in Nat
  BY Types DEF State
<1> QED BY <1>1, Types DEF UpdInv, KnownOK, Grown, KnownStep, known

\* A save moves the stored state forward or not at all: the mark sees to it,
\* and without a mark there is nothing old to save.
LEMMA SaveLemma ==
    ASSUME UpdInv, NEW k \in Keys, NEW s \in State, Save(k, s), server' = server,
           \A b \in BoxesOf(k) : Fine(b, s[b], marks, stored, server)
    PROVE  /\ Grown
           /\ \A b \in Boxes : stored'[b] = stored[b] \/ (b[1] = k /\ stored'[b] = s[b])
<1>1. /\ marks \in State /\ stored \in State /\ server \in State
      /\ \A b \in Boxes : marks[b] \in Nat /\ stored[b] \in Nat /\ server[b] \in Nat /\ s[b] \in Nat
  BY Types DEF State
<1>2. /\ marks' = [b \in Boxes |-> IF b \in BoxesOf(k) /\ s[b] # 0 /\ s[b] >= marks[b]
                                      THEN s[b] ELSE marks[b]]
      /\ stored' = [b \in Boxes |-> IF b \in BoxesOf(k) /\ s[b] # 0 /\ s[b] >= marks[b]
                                       THEN s[b] ELSE stored[b]]
  BY DEF Save, Merged
<1>3. \A b \in Boxes :
        \/ marks'[b] = marks[b] /\ stored'[b] = stored[b]
        \/ /\ b \in BoxesOf(k) /\ s[b] # 0 /\ s[b] >= marks[b]
           /\ marks'[b] = s[b] /\ stored'[b] = s[b]
  BY <1>2
<1>4. marks' \in State /\ stored' \in State
  BY <1>1, <1>2 DEF State
<1>5. \A b \in Boxes : marks[b] \in {0, stored[b]} /\ stored[b] <= server[b]
  BY DEF UpdInv, KnownOK
<1>6. ASSUME NEW b \in Boxes
      PROVE  /\ stored[b] <= stored'[b] /\ stored'[b] <= server[b]
             /\ marks'[b] \in {0, stored'[b]}
             /\ marks'[b] = 0 => marks[b] = 0 /\ stored'[b] = stored[b]
  <2>1. CASE marks'[b] = marks[b] /\ stored'[b] = stored[b]
    BY <1>1, <1>5, <2>1
  <2>2. CASE b \in BoxesOf(k) /\ s[b] # 0 /\ s[b] >= marks[b]
             /\ marks'[b] = s[b] /\ stored'[b] = s[b]
    BY <1>1, <1>5, <2>2 DEF Fine, Recent
  <2> QED BY <1>3, <2>1, <2>2
<1>7. KnownStep(marks, stored, server, marks', stored', server')
  BY <1>1, <1>6 DEF KnownStep
<1> QED BY <1>3, <1>4, <1>6, <1>7 DEF Grown, BoxesOf

LEMMA PassedLemma ==
    ASSUME UpdInv, Grown, Passed
    PROVE  /\ fate' \in [Updates -> {"due", "missed", "settled", "lost"}]
           /\ FateStep(stored, server, fate, stored', fate')
           /\ \A u \in Updates : fate'[u] \in {"due", "missed"} /\ Past(u, stored') =>
                                    u \in InHand'
<1>1. fate' = [u \in Updates |-> IF Owed(u) /\ Past(u, stored') /\ u \notin InHand'
                                    THEN "lost" ELSE fate[u]]
  BY DEF Passed
<1>2. fate \in [Updates -> {"due", "missed", "settled", "lost"}]
  BY Types
<1>3. \A u \in Updates : \/ fate'[u] = "lost"
                         \/ fate'[u] = fate[u] /\ ~(Owed(u) /\ Past(u, stored') /\ u \notin InHand')
  BY <1>1
<1>4. fate' \in [Updates -> {"due", "missed", "settled", "lost"}]
  BY <1>1, <1>2
<1>5. \A u \in Updates : Past(u, stored) => Past(u, stored')
  <2>1. \A b \in Boxes : stored[b] \in Nat /\ stored'[b] \in Nat /\ stored[b] <= stored'[b]
    BY Types DEF Grown, State
  <2> QED BY <2>1, UpdateType DEF Past
<1>6. FateStep(stored, server, fate, stored', fate')
  BY <1>3, <1>5 DEF FateStep
<1> QED BY <1>3, <1>4, <1>6 DEF Owed

LEMMA SettleLemma ==
    ASSUME UpdInv, Grown, NEW us, Settle(us) \/ (fate' = fate /\ us = {})
    PROVE  /\ fate' \in [Updates -> {"due", "missed", "settled", "lost"}]
           /\ FateStep(stored, server, fate, stored', fate')
           /\ \A u \in Updates : fate'[u] \in {"due", "missed"} =>
                                    fate[u] \in {"due", "missed"} /\ u \notin us
<1>1. fate \in [Updates -> {"due", "missed", "settled", "lost"}]
  BY Types
<1>2. \A u \in Updates : \/ u \in us /\ fate'[u] = "settled"
                         \/ u \notin us /\ fate'[u] = fate[u]
  BY DEF Settle
<1>3. fate' \in [Updates -> {"due", "missed", "settled", "lost"}]
  BY <1>1 DEF Settle
<1>4. \A u \in Updates : Past(u, stored) => Past(u, stored')
  <2>1. \A b \in Boxes : stored[b] \in Nat /\ stored'[b] \in Nat /\ stored[b] <= stored'[b]
    BY Types DEF Grown, State
  <2> QED BY <2>1, UpdateType DEF Past
<1>5. FateStep(stored, server, fate, stored', fate')
  BY <1>2, <1>4 DEF FateStep
<1> QED BY <1>2, <1>3, <1>5

\* A step that leaves nothing behind that is owed: what is up to the stored
\* state was so before, and stays in hand unless it is settled.
LEMMA StillInHand ==
    ASSUME UpdInv,
           \A u \in Updates : fate'[u] \in {"due", "missed"} /\ Past(u, stored') =>
               /\ fate[u] \in {"due", "missed"} /\ Past(u, stored)
               /\ u \in wire => u \in InHand'
               /\ \A t \in Tasks : u \in task[t].left => u \in InHand'
               /\ \A r \in Recs : u \in rec[r].out => u \in InHand'
    PROVE  \A u \in Updates : fate'[u] \in {"due", "missed"} /\ Past(u, stored') => u \in InHand'
<1> SUFFICES ASSUME NEW u \in Updates, fate'[u] \in {"due", "missed"}, Past(u, stored')
             PROVE  u \in InHand'
  OBVIOUS
<1>1. u \in InHand
  BY DEF UpdInv, NonePassedBy, Owed
<1> QED BY <1>1, InHandIs

LEMMA FineServer ==
    ASSUME UpdInv, NEW b \in Boxes
    PROVE  /\ Recent(b, server[b], marks, stored, server)
           /\ Recent(b, stored[b], marks, stored, server)
<1>1. stored[b] \in Nat /\ server[b] \in Nat /\ marks[b] \in Nat
  BY Types DEF State
<1> QED BY <1>1 DEF UpdInv, KnownOK, Recent

----------------------------------------------------------------------------
(* The server, the connection and the process *)

\* A step that only the server, the wire or the faults see.
LEMMA OutsideFrame ==
    ASSUME UpdInv, Grown, online' \in BOOLEAN, faults' \in 0..MaxFaults,
           wire' \subseteq wire, long' \subseteq Keys \X Nat,
           \A l \in long' : l \in long \/ Fine(Pts(l[1]), l[2], marks', stored', server'),
           UNCHANGED <<task, rec>>,
           fate' \in [Updates -> {"due", "missed", "settled", "lost"}],
           FateStep(stored, server, fate, stored', fate'),
           \A u \in Updates : fate'[u] \in {"due", "missed"} /\ Past(u, stored') => u \in InHand'
    PROVE  UpdInv' /\ Advances
<1>1. /\ task' \in [Tasks -> TaskType] /\ rec' \in [Recs -> RecType]
      /\ server' \in State /\ wire' \subseteq Updates
  BY Types DEF Grown
<1> QED BY <1>1, Frame, GrownAdvances DEF Grown

LEMMA HappenInv ==
    ASSUME UpdInv, NEW b \in Boxes, Happen(b)
    PROVE  UpdInv' /\ Advances
<1> DEFINE u == [box |-> b, n |-> server[b] + 1]
<1>1. \A c \in Boxes : marks[c] \in Nat /\ stored[c] \in Nat /\ server[c] \in Nat
  BY Types DEF State
<1>2. /\ u \in Updates /\ u.box = b /\ u.n = server[b] + 1
  BY <1>1, NewUpdate DEF Happen
<1>3. /\ server' = [server EXCEPT ![b] = @ + 1]
      /\ wire' = IF online THEN wire \cup {u} ELSE wire
      /\ fate' = [fate EXCEPT ![u] = IF ~online /\ Known(b[1], stored) THEN "missed" ELSE @]
      /\ UNCHANGED <<online, long, task, rec, known, faults>>
  BY DEF Happen
<1> HIDE DEF u
<1>4. /\ server' \in State
      /\ \A c \in Boxes : server[c] <= server'[c] /\ server'[c] \in Nat
      /\ server'[b] = server[b] + 1
  BY <1>1, <1>3, Types DEF State
<1>5. KnownStep(marks, stored, server, marks', stored', server')
  <2>1. \A c \in Boxes : marks[c] \in {0, stored[c]} /\ stored[c] <= server[c]
    BY DEF UpdInv, KnownOK
  <2> QED BY <1>1, <1>3, <1>4, <2>1 DEF KnownStep, known
<1>6. Fine(u.box, u.n, marks', stored', server')
  <2>1. stored[b] <= server[b]
    BY DEF UpdInv, KnownOK
  <2> QED BY <1>1, <1>2, <1>3, <1>4, <2>1 DEF Fine, Recent, known
<1>7. /\ fate' \in [Updates -> {"due", "missed", "settled", "lost"}]
      /\ \A w \in Updates : w # u => fate'[w] = fate[w]
  BY <1>2, <1>3, Types
<1>8. ~Past(u, server)
  BY <1>1, <1>2 DEF Past
<1>9. FateStep(stored, server, fate, stored', fate')
  BY <1>3, <1>7, <1>8 DEF FateStep, known
<1>10. \A w \in Updates : fate'[w] \in {"due", "missed"} /\ Past(w, stored') => w \in InHand'
  <2>1. ~Past(u, stored)
    <3>1. stored[b] <= server[b]
      BY DEF UpdInv, KnownOK
    <3> QED BY <1>1, <1>2, <3>1 DEF Past
  <2>2. wire \subseteq wire'
    BY <1>3
  <2>3. \A w \in Updates : fate'[w] \in {"due", "missed"} /\ Past(w, stored') =>
               /\ fate[w] \in {"due", "missed"} /\ Past(w, stored)
               /\ w \in wire => w \in InHand'
               /\ \A t \in Tasks : w \in task[t].left => w \in InHand'
               /\ \A r \in Recs : w \in rec[r].out => w \in InHand'
    BY <1>3, <1>7, <2>1, <2>2, InHandIs DEF known
  <2> QED BY <2>3, StillInHand
<1>11. /\ marks' \in State /\ stored' \in State /\ online' \in BOOLEAN /\ faults' \in 0..MaxFaults
       /\ wire' \subseteq Updates /\ long' \subseteq Keys \X Nat
       /\ task' \in [Tasks -> TaskType] /\ rec' \in [Recs -> RecType]
  BY <1>2, <1>3, Types DEF known
<1>12. UpdInv'
  BY <1>3, <1>4, <1>5, <1>6, <1>7, <1>9, <1>10, <1>11, Frame
<1>13. Advances
  <2>1. \A k \in Keys : \A c \in BoxesOf(k) : stored[c] <= stored'[c]
    BY <1>1, <1>3, BoxType DEF known
  <2> QED BY <2>1 DEF Advances
<1> QED BY <1>12, <1>13

LEMMA PushTooLongInv ==
    ASSUME UpdInv, NEW k \in Keys, PushTooLong(k)
    PROVE  UpdInv' /\ Advances
<1>1. Grown
  BY SameGrown DEF PushTooLong
<1>2. UNCHANGED <<marks, stored, server, online, task, rec>> /\ wire' \subseteq wire
  BY DEF PushTooLong, known
<1>3. faults' \in 0..MaxFaults /\ online' \in BOOLEAN
  BY Types, UpdateAssumption DEF PushTooLong
<1>4. PICK n \in {0} \cup (IF k = Common THEN {} ELSE {server[Pts(k)]}) :
         long' = long \cup {<<k, n>>}
  BY DEF PushTooLong
<1>5. /\ long' \subseteq Keys \X Nat
      /\ \A l \in long' : l \in long \/ Fine(Pts(l[1]), l[2], marks', stored', server')
  <2>1. Pts(k) \in Boxes /\ server[Pts(k)] \in Nat
    BY BoxType, Types DEF State
  <2>2. n \in Nat /\ Fine(Pts(k), n, marks', stored', server')
    BY <1>2, <1>4, <2>1, FineServer DEF Fine
  <2> QED BY <1>4, <2>2, Types
<1>6. /\ fate' \in [Updates -> {"due", "missed", "settled", "lost"}]
      /\ FateStep(stored, server, fate, stored', fate')
      /\ \A u \in Updates : fate'[u] \in {"due", "missed"} /\ Past(u, stored') => u \in InHand'
  BY <1>1, PassedLemma DEF PushTooLong
<1> QED BY <1>1, <1>2, <1>3, <1>5, <1>6, OutsideFrame

LEMMA LossInv ==
    ASSUME UpdInv, Break \/ \E us \in SUBSET wire, ls \in SUBSET long : Overflow(us, ls)
    PROVE  UpdInv' /\ Advances
<1>1. /\ UNCHANGED <<server, online, task, rec, known, faults>> /\ Passed
      /\ wire' \subseteq wire /\ long' \subseteq long
  BY DEF Break, Overflow, Push
<1>2. Grown
  BY <1>1, SameGrown
<1>3. /\ fate' \in [Updates -> {"due", "missed", "settled", "lost"}]
      /\ FateStep(stored, server, fate, stored', fate')
      /\ \A u \in Updates : fate'[u] \in {"due", "missed"} /\ Past(u, stored') => u \in InHand'
  BY <1>1, <1>2, PassedLemma
<1>4. online' \in BOOLEAN /\ faults' \in 0..MaxFaults /\ long' \subseteq Keys \X Nat
  BY <1>1, Types
<1> QED BY <1>1, <1>2, <1>3, <1>4, OutsideFrame

LEMMA ConnectInv ==
    ASSUME UpdInv, Connect
    PROVE  UpdInv' /\ Advances
<1>1. /\ UNCHANGED <<server, wire, long, task, rec, known, fate, faults>>
      /\ online' \in BOOLEAN
  BY DEF Connect
<1>2. Grown
  BY <1>1, SameGrown
<1>3. /\ fate' \in [Updates -> {"due", "missed", "settled", "lost"}]
      /\ FateStep(stored, server, fate, stored', fate')
  BY <1>1, <1>2, SettleLemma
<1>4. \A u \in Updates : fate'[u] \in {"due", "missed"} /\ Past(u, stored') => u \in InHand'
  BY <1>1 DEF UpdInv, NonePassedBy, Owed, InHand, known
<1>5. faults' \in 0..MaxFaults /\ long' \subseteq Keys \X Nat
  BY <1>1, Types
<1> QED BY <1>1, <1>2, <1>3, <1>4, <1>5, OutsideFrame

----------------------------------------------------------------------------
(* handle_updates() *)

\* A step of the update task t.
LEMMA TaskFrame ==
    ASSUME UpdInv, Grown, NEW t \in Tasks,
           task' \in [Tasks -> TaskType], \A d \in Tasks \ {t} : task'[d] = task[d],
           TaskOK(task'[t], marks', stored', server'),
           wire' \subseteq wire, long' \subseteq long,
           UNCHANGED <<online, rec, faults>>,
           fate' \in [Updates -> {"due", "missed", "settled", "lost"}],
           FateStep(stored, server, fate, stored', fate'),
           \A u \in Updates : fate'[u] \in {"due", "missed"} /\ Past(u, stored') => u \in InHand'
    PROVE  UpdInv' /\ Advances
<1>1. /\ rec' \in [Recs -> RecType] /\ online' \in BOOLEAN /\ faults' \in 0..MaxFaults
      /\ server' \in State /\ wire' \subseteq Updates /\ long' \subseteq Keys \X Nat
  BY Types DEF Grown
<1>2. \A d \in Tasks : task'[d] = task[d] \/ TaskOK(task'[d], marks', stored', server')
  OBVIOUS
<1> QED BY <1>1, <1>2, Frame, GrownAdvances DEF Grown

\* The numbers of a push may be saved.
LEMMA PushFine ==
    ASSUME UpdInv, NEW us \in SUBSET wire
    PROVE  /\ Highest(us) \in State
           /\ \A b \in Boxes : Fine(b, Highest(us)[b], marks, stored, server)
<1>1. us \in SUBSET Updates
  BY Types
<1>2. \A b \in Boxes : \/ Highest(us)[b] = 0
                       \/ \E u \in us : u.box = b /\ u.n = Highest(us)[b]
  BY <1>1, HighestLemma
<1>3. \A u \in us : Fine(u.box, u.n, marks, stored, server)
  BY DEF UpdInv
<1>4. Highest(us) \in State
  BY <1>1, HighestLemma
<1>5. \A b \in Boxes : Fine(b, Highest(us)[b], marks, stored, server)
  <2> SUFFICES ASSUME NEW b \in Boxes, Highest(us)[b] # 0
               PROVE  Fine(b, Highest(us)[b], marks, stored, server)
    BY DEF Fine
  <2>1. PICK u \in us : u.box = b /\ u.n = Highest(us)[b]
    BY <1>2
  <2> QED BY <1>3, <2>1
<1> QED BY <1>4, <1>5

LEMMA FreeOK ==
    /\ Free \in TaskType /\ Free.left = {}
    /\ \A m, s, v : TaskOK(Free, m, s, v)
<1>1. Free \in TaskType
  BY ZeroType DEF Free, TaskType
<1>2. /\ Free.left = {} /\ Free.long = {} /\ Free.seen = Zero
  BY DEF Free
<1> QED BY <1>1, <1>2, ZeroType DEF TaskOK, Fine

LEMMA ReceiveInv ==
    ASSUME UpdInv, NEW t \in Tasks, NEW us \in SUBSET wire, NEW ls \in SUBSET long,
           Receive(t, us, ls)
    PROVE  UpdInv' /\ Advances
<1> DEFINE x == [pc |-> "put", left |-> us, seen |-> Highest(us), long |-> ls]
<1>1. /\ UNCHANGED <<server, online, rec, known, fate, faults>>
      /\ task[t].pc = "off" /\ task' = [task EXCEPT ![t] = x]
      /\ wire' = wire \ us /\ long' = long \ ls
  BY DEF Receive, Push
<1>2. Highest(us) \in State /\ \A b \in Boxes : Fine(b, Highest(us)[b], marks, stored, server)
  BY PushFine
<1>3. /\ x \in TaskType /\ x.pc = "put" /\ x.left = us /\ x.seen = Highest(us) /\ x.long = ls
  BY <1>2, Types DEF TaskType
<1> HIDE DEF x
<1>4. /\ task' \in [Tasks -> TaskType] /\ task'[t] = x
      /\ \A d \in Tasks \ {t} : task'[d] = task[d]
  BY <1>1, <1>3, Types
<1>5. TaskOK(task'[t], marks', stored', server')
  <2>1. \A l \in ls : Fine(Pts(l[1]), l[2], marks, stored, server)
    BY DEF UpdInv
  <2> QED BY <1>1, <1>2, <1>3, <1>4, <2>1 DEF TaskOK, known
<1>6. Grown
  BY <1>1, SameGrown
<1>7. /\ fate' \in [Updates -> {"due", "missed", "settled", "lost"}]
      /\ FateStep(stored, server, fate, stored', fate')
  BY <1>1, <1>6, SettleLemma
<1>8. \A u \in Updates : fate'[u] \in {"due", "missed"} /\ Past(u, stored') => u \in InHand'
  <2>1. task[t].left = {}
    BY <1>1 DEF UpdInv, TaskOK
  <2>2. \A u \in wire : u \in InHand'
    BY <1>1, <1>3, <1>4, InHandIs
  <2>3. \A u : (\A d \in Tasks : u \in task[d].left => u \in InHand')
               /\ (\A r \in Recs : u \in rec[r].out => u \in InHand')
    BY <1>1, <1>4, <2>1, InHandIs
  <2> QED BY <1>1, <2>2, <2>3, StillInHand DEF known
<1> QED BY <1>1, <1>4, <1>5, <1>6, <1>7, <1>8, TaskFrame

\* UpdateShortMessage, and a request for an update that fails.
LEMMA ShortInv ==
    ASSUME UpdInv, NEW t \in Tasks, NEW u \in wire, ReceiveShort(t, u)
    PROVE  UpdInv' /\ Advances
<1> DEFINE x == [Free EXCEPT !.pc = "short", !.left = {u}]
<1>1. /\ UNCHANGED <<server, online, rec, faults>> /\ Passed
      /\ task' = [task EXCEPT ![t] = x]
      /\ wire' = wire \ {u} /\ long' \subseteq long
      /\ Save(Common, Highest({u}))
  BY DEF ReceiveShort, Push
<1>2. Highest({u}) \in State /\ \A b \in Boxes : Fine(b, Highest({u})[b], marks, stored, server)
  BY PushFine
<1>3. Grown
  BY <1>1, <1>2, BoxType, SaveLemma
<1>4. /\ x \in TaskType /\ x.pc = "short" /\ x.seen = Zero /\ x.long = {}
  BY FreeOK, Types DEF TaskType, Free
<1> HIDE DEF x
<1>5. /\ task' \in [Tasks -> TaskType] /\ task'[t] = x
      /\ \A d \in Tasks \ {t} : task'[d] = task[d]
  BY <1>1, <1>4, Types
<1>6. TaskOK(task'[t], marks', stored', server')
  BY <1>4, <1>5, ZeroType DEF TaskOK, Fine
<1>7. /\ fate' \in [Updates -> {"due", "missed", "settled", "lost"}]
      /\ FateStep(stored, server, fate, stored', fate')
      /\ \A w \in Updates : fate'[w] \in {"due", "missed"} /\ Past(w, stored') => w \in InHand'
  BY <1>1, <1>3, PassedLemma
<1> QED BY <1>1, <1>3, <1>5, <1>6, <1>7, TaskFrame

LEMMA HandleFailsInv ==
    ASSUME UpdInv, NEW t \in Tasks, HandleFails(t)
    PROVE  UpdInv' /\ Advances
<1>1. /\ UNCHANGED <<server, online, wire, long, rec, known, faults>> /\ Passed
      /\ task' = [task EXCEPT ![t] = Free]
  BY DEF HandleFails
<1>2. Grown
  BY <1>1, SameGrown
<1>3. /\ task' \in [Tasks -> TaskType] /\ task'[t] = Free
      /\ \A d \in Tasks \ {t} : task'[d] = task[d]
  BY <1>1, FreeOK, Types
<1>4. TaskOK(task'[t], marks', stored', server')
  BY <1>3, FreeOK
<1>5. /\ fate' \in [Updates -> {"due", "missed", "settled", "lost"}]
      /\ FateStep(stored, server, fate, stored', fate')
      /\ \A w \in Updates : fate'[w] \in {"due", "missed"} /\ Past(w, stored') => w \in InHand'
  BY <1>1, <1>2, PassedLemma
<1> QED BY <1>1, <1>2, <1>3, <1>4, <1>5, TaskFrame

\* The message was fetched, and an update goes to the dispatcher.
LEMMA PutInv ==
    ASSUME UpdInv, NEW t \in Tasks,
           Fetched(t) \/ \E u \in task[t].left : Put(t, u)
    PROVE  UpdInv' /\ Advances
<1>1. PICK us \in SUBSET Updates :
        /\ UNCHANGED <<server, online, wire, long, rec, known, faults>>
        /\ Settle(us) \/ (fate' = fate /\ us = {})
        /\ task[t].pc # "off"
        /\ \/ task' = [task EXCEPT ![t].left = @ \ us]
           \/ us = {} /\ task' = [task EXCEPT ![t].pc = "put"]
  <2>1. CASE Fetched(t)
    <3>1. {} \in SUBSET Updates
      OBVIOUS
    <3> QED BY <2>1, <3>1 DEF Fetched
  <2>2. CASE \E u \in task[t].left : Put(t, u)
    <3>1. PICK u \in task[t].left : Put(t, u)
      BY <2>2
    <3>2. {u} \in SUBSET Updates
      BY Types DEF TaskType
    <3> QED BY <3>1, <3>2 DEF Put
  <2> QED BY <2>1, <2>2
<1>2. task[t] \in TaskType
  BY Types
<1>3. /\ task' \in [Tasks -> TaskType]
      /\ \A d \in Tasks \ {t} : task'[d] = task[d]
      /\ task'[t].left = task[t].left \ us
      /\ task'[t].pc # "off" /\ task'[t].seen = task[t].seen /\ task'[t].long = task[t].long
  <2>1. CASE task' = [task EXCEPT ![t].left = @ \ us]
    BY <1>1, <1>2, <2>1, Types DEF TaskType
  <2>2. CASE us = {} /\ task' = [task EXCEPT ![t].pc = "put"]
    BY <1>2, <2>2, Types DEF TaskType
  <2> QED BY <1>1, <2>1, <2>2
<1>4. Grown
  BY <1>1, SameGrown
<1>5. TaskOK(task'[t], marks', stored', server')
  <2>1. TaskOK(task[t], marks, stored, server)
    BY DEF UpdInv
  <2> QED BY <1>1, <1>3, <2>1 DEF TaskOK, known
<1>6. /\ fate' \in [Updates -> {"due", "missed", "settled", "lost"}]
      /\ FateStep(stored, server, fate, stored', fate')
      /\ \A u \in Updates : fate'[u] \in {"due", "missed"} =>
                               fate[u] \in {"due", "missed"} /\ u \notin us
  BY <1>1, <1>4, SettleLemma
<1>7. \A u \in Updates : fate'[u] \in {"due", "missed"} /\ Past(u, stored') => u \in InHand'
  <2>1. \A u : (u \in wire => u \in InHand') /\ (\A r \in Recs : u \in rec[r].out => u \in InHand')
    BY <1>1, InHandIs
  <2>2. \A u : u \notin us => \A d \in Tasks : u \in task[d].left => u \in InHand'
    BY <1>3, InHandIs
  <2> QED BY <1>1, <1>6, <2>1, <2>2, StillInHand DEF known
<1> QED BY <1>1, <1>3, <1>4, <1>5, <1>6, <1>7, TaskFrame

LEMMA SaveSeenInv ==
    ASSUME UpdInv, NEW t \in Tasks, NEW k \in Keys, SaveSeen(t, k)
    PROVE  UpdInv' /\ Advances
<1>1. /\ UNCHANGED <<server, online, wire, long, rec, faults>> /\ Passed
      /\ task[t].pc = "put" /\ task[t].left = {}
      /\ task' = [task EXCEPT ![t].seen = [b \in Boxes |-> IF b \in BoxesOf(k) THEN 0 ELSE @[b]]]
      /\ Save(k, task[t].seen)
  BY DEF SaveSeen
<1>2. /\ task[t] \in TaskType /\ task[t].seen \in State
      /\ TaskOK(task[t], marks, stored, server)
  BY Types DEF UpdInv, TaskType
<1>3. Grown
  <2>1. \A b \in BoxesOf(k) : Fine(b, task[t].seen[b], marks, stored, server)
    BY <1>2, BoxType DEF TaskOK
  <2> QED BY <1>1, <1>2, <2>1, SaveLemma
<1>4. [b \in Boxes |-> IF b \in BoxesOf(k) THEN 0 ELSE task[t].seen[b]] \in State
  BY <1>2 DEF State
<1>5. /\ task' \in [Tasks -> TaskType]
      /\ \A d \in Tasks \ {t} : task'[d] = task[d]
      /\ task'[t].pc = "put" /\ task'[t].long = task[t].long
      /\ task'[t].seen = [b \in Boxes |-> IF b \in BoxesOf(k) THEN 0 ELSE task[t].seen[b]]
  BY <1>1, <1>2, <1>4, Types DEF TaskType
<1>6. TaskOK(task'[t], marks', stored', server')
  <2>1. \A b \in Boxes : task[t].seen[b] \in Nat
    BY <1>2 DEF State
  <2>2. \A l \in task[t].long : Pts(l[1]) \in Boxes /\ l[2] \in Nat
    BY <1>2, BoxType DEF TaskType
  <2>3. \A b \in Boxes, n \in Nat :
           Fine(b, n, marks, stored, server) => Fine(b, n, marks', stored', server')
    BY <1>3, Types, RecentKept DEF Grown
  <2>4. \A b \in Boxes : Fine(b, task'[t].seen[b], marks', stored', server')
    BY <1>2, <1>5, <2>1, <2>3 DEF TaskOK, Fine
  <2>5. \A l \in task'[t].long : Fine(Pts(l[1]), l[2], marks', stored', server')
    BY <1>2, <1>5, <2>2, <2>3 DEF TaskOK
  <2> QED BY <1>5, <2>4, <2>5 DEF TaskOK
<1>7. /\ fate' \in [Updates -> {"due", "missed", "settled", "lost"}]
      /\ FateStep(stored, server, fate, stored', fate')
      /\ \A w \in Updates : fate'[w] \in {"due", "missed"} /\ Past(w, stored') => w \in InHand'
  BY <1>1, <1>3, PassedLemma
<1> QED BY <1>1, <1>3, <1>5, <1>6, <1>7, TaskFrame

----------------------------------------------------------------------------
(* Recoveries that begin and end *)

LEMMA OffOK ==
    /\ Off \in RecType /\ Off.out = {}
    /\ \A m, s, v, f : RecOK(Off, m, s, v, f)
<1>1. 0 \in 0..MaxStale - 1
  BY UpdateAssumption
<1>2. Off \in RecType
  BY <1>1, ZeroType DEF Off, RecType
<1>3. /\ Off.pc = "off" /\ Off.keys = {} /\ Off.key = None /\ Off.local = Zero /\ Off.out = {}
  BY DEF Off
<1>4. \A b \in Boxes : b[1] \notin Due(Off)
  BY <1>3, BoxType DEF Due
<1>5. \A u \in Updates : KeyOf(u) \notin Due(Off)
  BY <1>3, BoxType, UpdateType DEF Due
<1> QED BY <1>2, <1>3, <1>4, <1>5, ZeroType DEF RecOK, Covers, Fine

\* A recovery that a "too long" push begins.
LEMMA BeginOK ==
    ASSUME NEW k \in Keys, NEW n \in Nat, NEW m, NEW s, NEW v, NEW f,
           Fine(Pts(k), n, m, s, v),
           NEW x, x = [Off EXCEPT !.pc = "begin", !.local[Pts(k)] = n]
    PROVE  x \in RecType /\ x.out = {} /\ RecOK(x, m, s, v, f)
<1> DEFINE z == [Zero EXCEPT ![Pts(k)] = n]
<1>1. z \in State /\ \A b \in Boxes : z[b] = IF b = Pts(k) THEN n ELSE 0
  BY BoxType, ZeroType DEF State
<1>2. Off \in RecType
  BY OffOK
<1>3. /\ Off.keys = {} /\ Off.key = None /\ Off.local = Zero /\ Off.out = {}
  BY DEF Off
<1>4. x = [Off EXCEPT !.pc = "begin", !.local = z]
  BY <1>3
<1> HIDE DEF z
<1>5. /\ x \in RecType /\ x.pc = "begin" /\ x.keys = {} /\ x.key = None
      /\ x.local = z /\ x.out = {}
  BY <1>1, <1>2, <1>3, <1>4 DEF RecType
<1>6. \A b \in Boxes : b[1] \notin Due(x)
  BY <1>5, BoxType DEF Due
<1>7. \A u \in Updates : KeyOf(u) \notin Due(x)
  BY <1>5, BoxType, UpdateType DEF Due
<1>8. \A b \in Boxes : Fine(b, x.local[b], m, s, v)
  BY <1>1, <1>5 DEF Fine
<1> QED BY <1>5, <1>6, <1>7, <1>8 DEF RecOK, Covers

LEMMA HandleEndInv ==
    ASSUME UpdInv, NEW t \in Tasks, HandleEnd(t)
    PROVE  UpdInv' /\ Advances
<1> DEFINE ls == task[t].long
           begun == {k \in {l[1] : l \in ls} : Recovers(k, TooLongPts(ls, k))}
           x(k) == [Off EXCEPT !.pc = "begin", !.local[Pts(k)] = TooLongPts(ls, k)]
<1>1. /\ UNCHANGED <<server, online, wire, long, known, fate, faults>>
      /\ task[t].left = {} /\ task' = [task EXCEPT ![t] = Free]
      /\ rec' = [r \in Recs |-> IF r \in begun THEN x(r) ELSE rec[r]]
  BY DEF HandleEnd
<1>2. \A k \in begun : k \in Keys /\ rec[k].pc = "off" /\ TooLongPts(ls, k) \in Nat
                       /\ Fine(Pts(k), TooLongPts(ls, k), marks, stored, server)
  <2> SUFFICES ASSUME NEW k \in begun
               PROVE  k \in Keys /\ rec[k].pc = "off" /\ TooLongPts(ls, k) \in Nat
                      /\ Fine(Pts(k), TooLongPts(ls, k), marks, stored, server)
    OBVIOUS
  <2>1. \E l \in ls : l[1] = k
    OBVIOUS
  <2>2. rec[k].pc = "off"
    BY DEF Recovers
  <2> DEFINE l == CHOOSE l \in ls : l[1] = k
  <2>3. l \in ls /\ l[1] = k
    BY <2>1
  <2>4. TooLongPts(ls, k) = l[2]
    BY DEF TooLongPts
  <2> HIDE DEF l
  <2>5. ls \subseteq Keys \X Nat /\ Fine(Pts(l[1]), l[2], marks, stored, server)
    BY <2>3, Types DEF TaskType, UpdInv, TaskOK
  <2> QED BY <2>2, <2>3, <2>4, <2>5
<1>3. \A k \in begun : /\ x(k) \in RecType /\ x(k).out = {}
                       /\ RecOK(x(k), marks', stored', server', fate')
  <2> SUFFICES ASSUME NEW k \in begun
               PROVE  /\ x(k) \in RecType /\ x(k).out = {}
                      /\ RecOK(x(k), marks', stored', server', fate')
    OBVIOUS
  <2>1. k \in Keys /\ TooLongPts(ls, k) \in Nat
        /\ Fine(Pts(k), TooLongPts(ls, k), marks', stored', server')
    BY <1>1, <1>2 DEF known
  <2> QED BY <2>1, BeginOK
<1> HIDE DEF x, begun
<1>4. /\ rec' \in [Recs -> RecType]
      /\ \A r \in Recs : rec'[r] = rec[r] \/ RecOK(rec'[r], marks', stored', server', fate')
  BY <1>1, <1>3, Types
<1>5. /\ task' \in [Tasks -> TaskType]
      /\ \A d \in Tasks : task'[d] = task[d] \/ TaskOK(task'[d], marks', stored', server')
      /\ \A d \in Tasks : task'[d].left = task[d].left
  BY <1>1, FreeOK, Types
<1>6. Grown
  BY <1>1, SameGrown
<1>7. /\ fate' \in [Updates -> {"due", "missed", "settled", "lost"}]
      /\ FateStep(stored, server, fate, stored', fate')
  BY <1>1, <1>6, SettleLemma
<1>8. \A u \in Updates : fate'[u] \in {"due", "missed"} /\ Past(u, stored') => u \in InHand'
  <2>1. \A r \in Recs : rec'[r].out = rec[r].out
    <3> SUFFICES ASSUME NEW r \in Recs, r \in begun
                 PROVE  rec'[r].out = rec[r].out
      BY <1>1
    <3>1. rec'[r].out = {}
      BY <1>1, <1>3
    <3>2. rec[r].out = {}
      BY <1>2 DEF UpdInv, RecOK
    <3> QED BY <3>1, <3>2
  <2>2. \A u : /\ u \in wire => u \in InHand'
               /\ \A d \in Tasks : u \in task[d].left => u \in InHand'
               /\ \A r \in Recs : u \in rec[r].out => u \in InHand'
    BY <1>1, <1>5, <2>1, InHandIs
  <2> QED BY <1>1, <2>2, StillInHand DEF known
<1>9. /\ online' \in BOOLEAN /\ faults' \in 0..MaxFaults /\ server' \in State
      /\ wire' \subseteq Updates /\ long' \subseteq Keys \X Nat
      /\ \A u \in wire' : u \in wire
      /\ \A l \in long' : l \in long
  BY <1>1, Types
<1> QED BY <1>4, <1>5, <1>6, <1>7, <1>8, <1>9, Frame, GrownAdvances DEF Grown

LEMMA CrashInv ==
    ASSUME UpdInv, Crash
    PROVE  UpdInv' /\ Advances
<1>1. /\ wire' = {} /\ long' = {} /\ marks' = Zero /\ UNCHANGED <<server, stored>> /\ Passed
      /\ task' = [t \in Tasks |-> Free] /\ rec' = [r \in Recs |-> Off]
      /\ online' \in BOOLEAN /\ faults' \in 0..MaxFaults
  <2>1. faults' \in 0..MaxFaults
    BY Types, UpdateAssumption DEF Crash
  <2> QED BY <2>1 DEF Crash
<1>2. \A b \in Boxes : stored[b] \in Nat /\ server[b] \in Nat /\ stored[b] <= server[b]
                       /\ marks'[b] = 0
  BY <1>1, ZeroType, Types DEF State, UpdInv, KnownOK
<1>3. TypeOK' /\ KnownOK(marks', stored', server')
  <2>1. fate' \in [Updates -> {"due", "missed", "settled", "lost"}]
    <3>1. fate \in [Updates -> {"due", "missed", "settled", "lost"}]
      BY Types
    <3> QED BY <1>1, <3>1 DEF Passed
  <2>2. /\ task' \in [Tasks -> TaskType] /\ rec' \in [Recs -> RecType]
    BY <1>1, FreeOK, OffOK
  <2>3. /\ marks' \in State /\ stored' \in State /\ server' \in State
        /\ wire' \subseteq Updates /\ long' \subseteq Keys \X Nat
    BY <1>1, ZeroType, Types
  <2>4. KnownOK(marks', stored', server')
    BY <1>1, <1>2 DEF KnownOK
  <2> QED BY <1>1, <2>1, <2>2, <2>3, <2>4 DEF TypeOK, TaskType, RecType
<1>4. NonePassedBy'
  <2>1. \A u \in Updates : \/ fate'[u] = "lost"
                           \/ fate'[u] = fate[u] /\ ~(Owed(u) /\ Past(u, stored') /\ u \notin InHand')
    BY <1>1 DEF Passed
  <2> QED BY <1>3, <2>1 DEF NonePassedBy, Owed
<1>5. /\ \A t \in Tasks : TaskOK(task'[t], marks', stored', server')
      /\ \A r \in Recs : RecOK(rec'[r], marks', stored', server', fate')
  BY <1>1, FreeOK, OffOK
<1>6. Advances
  BY <1>1, <1>2, BoxType DEF Advances
<1> QED BY <1>1, <1>3, <1>4, <1>5, <1>6 DEF UpdInv

----------------------------------------------------------------------------
(* recover_gaps() *)

\* A recovery that turns to the states that are left.
LEMMA TurnOK ==
    ASSUME NEW ks \in SUBSET Keys, NEW local \in State, NEW m, NEW s, NEW v, NEW f,
           \A b \in Boxes : b[1] \in ks => Recent(b, local[b], m, s, v),
           \A u \in Updates : KeyOf(u) \in ks /\ f[u] \in {"due", "missed"} /\ Past(u, local) =>
                                 Past(u, s)
    PROVE  /\ Turn(ks, local) \in RecType /\ Turn(ks, local).out = {}
           /\ RecOK(Turn(ks, local), m, s, v, f)
<1>1. CASE ks = {}
  BY <1>1, OffOK DEF Turn
<1>2. CASE ks # {}
  <2> DEFINE z == [b \in Boxes |-> IF b[1] \in ks THEN local[b] ELSE 0]
             x == Turn(ks, local)
  <2>1. z \in State /\ \A b \in Boxes : z[b] = IF b[1] \in ks THEN local[b] ELSE 0
    BY DEF State
  <2>2. x = [Off EXCEPT !.pc = "pick", !.keys = ks, !.local = z]
    BY <1>2 DEF Turn
  <2> HIDE DEF z, x
  <2>3. Off \in RecType /\ Off.key = None /\ Off.out = {}
    BY OffOK DEF Off
  <2>4. /\ x \in RecType /\ x.pc = "pick" /\ x.keys = ks /\ x.key = None
        /\ x.local = z /\ x.out = {}
    BY <2>1, <2>2, <2>3 DEF RecType
  <2>5. \A b \in Boxes : b[1] \in Due(x) => b[1] \in ks
    BY <2>4, BoxType DEF Due
  <2>6. \A u \in Updates : KeyOf(u) \in Due(x) => KeyOf(u) \in ks
    BY <2>4, BoxType, UpdateType DEF Due
  <2>7. \A b \in Boxes : Fine(b, x.local[b], m, s, v)
    BY <2>1, <2>4 DEF Fine
  <2>8. \A b \in Boxes : b[1] \in Due(x) => Recent(b, x.local[b], m, s, v)
    BY <2>1, <2>4, <2>5
  <2>9. Covers(x, s, f)
    <3> SUFFICES ASSUME NEW u \in Updates, KeyOf(u) \in Due(x), f[u] \in {"due", "missed"},
                        Past(u, x.local)
                 PROVE  Past(u, s)
      BY DEF Covers
    <3>1. u.box \in Boxes /\ KeyOf(u) \in ks
      BY <2>6, UpdateType
    <3>2. Past(u, local)
      BY <2>1, <2>4, <3>1 DEF Past, KeyOf
    <3> QED BY <3>1, <3>2
  <2>10. RecOK(x, m, s, v, f)
    BY <2>4, <2>7, <2>8, <2>9 DEF RecOK
  <2> QED BY <2>4, <2>10 DEF x
<1> QED BY <1>1, <1>2

\* A step of the recovery r that settles us and moves the stored state only
\* to where nothing is owed.
LEMMA RecFrame ==
    ASSUME UpdInv, Grown, NEW r \in Recs, NEW us,
           rec' \in [Recs -> RecType], \A q \in Recs \ {r} : rec'[q] = rec[q],
           RecOK(rec'[r], marks', stored', server', fate'),
           UNCHANGED <<online, wire, long, task, faults>>,
           Settle(us) \/ (fate' = fate /\ us = {}),
           \A u \in rec[r].out : u \in rec'[r].out \/ u \in us,
           \A u \in Updates : fate'[u] \in {"due", "missed"} /\ Past(u, stored') => Past(u, stored)
    PROVE  UpdInv' /\ Advances
<1>1. /\ task' \in [Tasks -> TaskType] /\ online' \in BOOLEAN /\ faults' \in 0..MaxFaults
      /\ server' \in State /\ wire' \subseteq Updates /\ long' \subseteq Keys \X Nat
  BY Types DEF Grown
<1>2. \A q \in Recs : rec'[q] = rec[q] \/ RecOK(rec'[q], marks', stored', server', fate')
  OBVIOUS
<1>3. /\ fate' \in [Updates -> {"due", "missed", "settled", "lost"}]
      /\ FateStep(stored, server, fate, stored', fate')
      /\ \A u \in Updates : fate'[u] \in {"due", "missed"} =>
                               fate[u] \in {"due", "missed"} /\ u \notin us
  BY SettleLemma
<1>4. \A u \in Updates : fate'[u] \in {"due", "missed"} /\ Past(u, stored') => u \in InHand'
  <2>1. \A u : /\ u \in wire => u \in InHand'
               /\ \A t \in Tasks : u \in task[t].left => u \in InHand'
    BY InHandIs
  <2>2. \A u : u \notin us => \A q \in Recs : u \in rec[q].out => u \in InHand'
    BY InHandIs
  <2> QED BY <1>3, <2>1, <2>2, StillInHand
<1> QED BY <1>1, <1>2, <1>3, <1>4, Frame, GrownAdvances DEF Grown

\* The sweep, or a background task that has a mark, reads the stored states.
LEMMA ReadOK ==
    ASSUME UpdInv, NEW ks \in SUBSET Keys
    PROVE  /\ Read(ks) \in RecType /\ Read(ks).out = {}
           /\ RecOK(Read(ks), marks, stored, server, fate)
<1> DEFINE kk == {k \in ks : Known(k, stored)}
<1>1. kk \in SUBSET Keys /\ Read(ks) = Turn(kk, stored)
  BY DEF Read
<1> HIDE DEF kk
<1>2. stored \in State
  BY Types
<1>3. \A b \in Boxes : Recent(b, stored[b], marks, stored, server)
  BY FineServer
<1> QED BY <1>1, <1>2, <1>3, TurnOK

LEMMA SweepInv ==
    ASSUME UpdInv, Sweep
    PROVE  UpdInv' /\ Advances
<1>1. /\ UNCHANGED <<server, online, wire, long, task, known, fate, faults>>
      /\ rec[None].pc = "off" /\ rec' = [rec EXCEPT ![None] = Read(Keys)]
  BY DEF Sweep
<1>2. None \in Recs
  BY DEF Recs
<1>3. /\ Read(Keys) \in RecType /\ RecOK(Read(Keys), marks, stored, server, fate)
  BY ReadOK
<1>4. /\ rec' \in [Recs -> RecType] /\ rec'[None] = Read(Keys)
      /\ \A q \in Recs \ {None} : rec'[q] = rec[q]
  BY <1>1, <1>2, <1>3, Types
<1>5. RecOK(rec'[None], marks', stored', server', fate')
  BY <1>1, <1>3, <1>4 DEF known
<1>6. rec[None].out = {}
  BY <1>1, <1>2 DEF UpdInv, RecOK
<1>7. Grown /\ \A u \in Updates : Past(u, stored') => Past(u, stored)
  BY <1>1, SameGrown DEF known
<1> QED BY <1>1, <1>2, <1>4, <1>5, <1>6, <1>7, RecFrame

\* A background task that ends with a save which may pass updates by.
LEMMA OffPassed ==
    ASSUME UpdInv, Grown, NEW k \in Keys, rec' = [rec EXCEPT ![k] = Off],
           UNCHANGED <<online, wire, long, task, faults>>, Passed
    PROVE  UpdInv' /\ Advances
<1>1. /\ task' \in [Tasks -> TaskType] /\ online' \in BOOLEAN /\ faults' \in 0..MaxFaults
      /\ server' \in State /\ wire' \subseteq Updates /\ long' \subseteq Keys \X Nat
  BY Types DEF Grown
<1>2. k \in Recs
  BY DEF Recs
<1>3. /\ rec' \in [Recs -> RecType]
      /\ \A q \in Recs : rec'[q] = rec[q] \/ RecOK(rec'[q], marks', stored', server', fate')
  BY <1>2, OffOK, Types
<1>4. /\ fate' \in [Updates -> {"due", "missed", "settled", "lost"}]
      /\ FateStep(stored, server, fate, stored', fate')
      /\ \A u \in Updates : fate'[u] \in {"due", "missed"} /\ Past(u, stored') => u \in InHand'
  BY PassedLemma
<1> QED BY <1>1, <1>3, <1>4, Frame, GrownAdvances DEF Grown

\* Only the place in the code changes, or what it counts; the state it works
\* from, the keys and what it has in hand stay.
LEMMA MoveInv ==
    ASSUME UpdInv, NEW r \in Recs, UNCHANGED <<server, online, wire, long, task, known, fate, faults>>,
           rec' \in [Recs -> RecType], \A q \in Recs \ {r} : rec'[q] = rec[q],
           rec'[r].out = rec[r].out, rec'[r].local = rec[r].local,
           Due(rec'[r]) \cap Keys \subseteq Due(rec[r]),
           rec'[r].pc # "put" => rec'[r].out = {},
           rec'[r].pc \in {"ask", "put", "save"} => rec'[r].key \in Keys,
           rec'[r].pc \in {"off", "begin", "getstate"} => rec'[r].keys = {} /\ rec'[r].key = None
    PROVE  UpdInv' /\ Advances
<1>1. RecOK(rec[r], marks, stored, server, fate)
  BY DEF UpdInv
<1>2. RecOK(rec'[r], marks', stored', server', fate')
  <2>1. \A b \in Boxes : b[1] \in Due(rec'[r]) => b[1] \in Due(rec[r])
    BY BoxType
  <2>2. \A u \in Updates : KeyOf(u) \in Due(rec'[r]) => KeyOf(u) \in Due(rec[r])
    BY UpdateType
  <2>3. Covers(rec'[r], stored', fate')
    BY <1>1, <2>2 DEF RecOK, Covers, known
  <2> QED BY <1>1, <2>1, <2>3 DEF RecOK, known
<1>3. Grown /\ \A u \in Updates : Past(u, stored') => Past(u, stored)
  BY SameGrown DEF known
<1> QED BY <1>2, <1>3, RecFrame

LEMMA BeginInv ==
    ASSUME UpdInv, NEW k \in Keys, Begin(k)
    PROVE  UpdInv' /\ Advances
<1>1. /\ rec[k].pc = "begin" /\ UNCHANGED <<server, online, wire, long, task, faults>>
      /\ k \in Recs
  BY DEF Begin, Recs
<1>2. /\ rec[k] \in RecType /\ RecOK(rec[k], marks, stored, server, fate)
      /\ rec[k].local \in State /\ rec[k].out = {} /\ rec[k].keys = {} /\ rec[k].key = None
  BY <1>1, Types DEF UpdInv, RecOK, RecType
<1>3. CASE rec' = [rec EXCEPT ![k] = Read({k})] /\ UNCHANGED <<known, fate>>
  <2>1. Read({k}) \in RecType /\ RecOK(Read({k}), marks, stored, server, fate)
    BY ReadOK
  <2>2. /\ rec' \in [Recs -> RecType] /\ rec'[k] = Read({k})
        /\ \A q \in Recs \ {k} : rec'[q] = rec[q]
    BY <1>1, <1>3, <2>1, Types
  <2>3. RecOK(rec'[k], marks', stored', server', fate')
    BY <1>1, <1>3, <2>1, <2>2 DEF known
  <2>4. Grown /\ \A u \in Updates : Past(u, stored') => Past(u, stored)
    BY <1>1, <1>3, SameGrown DEF known
  <2> QED BY <1>1, <1>2, <1>3, <2>2, <2>3, <2>4, RecFrame
<1>4. CASE rec' = [rec EXCEPT ![k].pc = "getstate"] /\ UNCHANGED <<known, fate>>
  <2>1. /\ rec' \in [Recs -> RecType] /\ \A q \in Recs \ {k} : rec'[q] = rec[q]
        /\ rec'[k].pc = "getstate" /\ rec'[k].local = rec[k].local
        /\ rec'[k].out = {} /\ rec'[k].keys = {} /\ rec'[k].key = None
    BY <1>1, <1>2, <1>4, Types DEF RecType
  <2>2. Due(rec'[k]) = Due(rec[k])
    BY <1>2, <2>1 DEF Due
  <2> QED BY <1>1, <1>2, <1>4, <2>1, <2>2, MoveInv
<1>5. CASE rec' = [rec EXCEPT ![k] = Off] /\ Save(k, rec[k].local) /\ Passed
  <2>1. \A b \in BoxesOf(k) : Fine(b, rec[k].local[b], marks, stored, server)
    BY <1>2, BoxType DEF RecOK
  <2>2. Grown
    BY <1>1, <1>2, <1>5, <2>1, SaveLemma
  <2> QED BY <1>1, <1>5, <2>2, OffPassed
<1> QED BY <1>3, <1>4, <1>5 DEF Begin

LEMMA GetStateInv ==
    ASSUME UpdInv, GetState
    PROVE  UpdInv' /\ Advances
<1>1. /\ rec[Common].pc = "getstate" /\ UNCHANGED <<server, online, wire, long, task, faults>>
      /\ rec' = [rec EXCEPT ![Common] = Off]
  BY DEF GetState
<1>2. Common \in Keys /\ Common \in Recs
  BY BoxType DEF Recs
<1>3. CASE Save(Common, server) /\ Passed
  <2>1. server \in State /\ \A b \in BoxesOf(Common) : Fine(b, server[b], marks, stored, server)
    BY <1>2, BoxType, FineServer, Types DEF Fine
  <2>2. Grown
    BY <1>1, <1>2, <1>3, <2>1, SaveLemma
  <2> QED BY <1>1, <1>2, <1>3, <2>2, OffPassed
<1>4. CASE UNCHANGED <<known, fate>>
  <2>1. /\ rec' \in [Recs -> RecType] /\ rec'[Common] = Off
        /\ \A q \in Recs \ {Common} : rec'[q] = rec[q]
    BY <1>1, <1>2, OffOK, Types
  <2>2. RecOK(rec'[Common], marks', stored', server', fate')
    BY <2>1, OffOK
  <2>3. rec[Common].out = {}
    BY <1>1, <1>2 DEF UpdInv, RecOK
  <2>4. Grown /\ \A u \in Updates : Past(u, stored') => Past(u, stored)
    BY <1>1, <1>4, SameGrown DEF known
  <2> QED BY <1>1, <1>2, <1>4, <2>1, <2>2, <2>3, <2>4, RecFrame
<1> QED BY <1>3, <1>4 DEF GetState

LEMMA PickInv ==
    ASSUME UpdInv, NEW r \in Recs, NEW k \in Keys, Pick(r, k)
    PROVE  UpdInv' /\ Advances
<1>1. /\ UNCHANGED <<server, online, wire, long, task, known, fate, faults>>
      /\ rec[r].pc = "pick" /\ k \in rec[r].keys
      /\ rec' = [rec EXCEPT ![r].keys = @ \ {k}, ![r].key = k, ![r].pc = "ask", ![r].stale = 0]
  BY DEF Pick
<1>2. /\ rec[r] \in RecType /\ rec[r].out = {} /\ 0 \in 0..MaxStale - 1
  BY <1>1, Types, UpdateAssumption DEF UpdInv, RecOK
<1>3. /\ rec' \in [Recs -> RecType] /\ \A q \in Recs \ {r} : rec'[q] = rec[q]
      /\ rec'[r].pc = "ask" /\ rec'[r].key = k /\ rec'[r].keys = rec[r].keys \ {k}
      /\ rec'[r].local = rec[r].local /\ rec'[r].out = rec[r].out
  BY <1>1, <1>2, Types DEF RecType
<1>4. Due(rec'[r]) \cap Keys \subseteq Due(rec[r])
  BY <1>1, <1>3 DEF Due
<1> QED BY <1>1, <1>2, <1>3, <1>4, MoveInv

\* Asked again after a refused timestamp, or for the next slice.
LEMMA AskAgainInv ==
    ASSUME UpdInv, NEW r \in Recs, Stale(r) \/ AskNext(r)
    PROVE  UpdInv' /\ Advances
<1>1. /\ UNCHANGED <<server, online, wire, long, task, known, fate, faults>>
      /\ rec[r].pc \in {"ask", "put"}
  BY DEF Stale, AskNext, Asks
<1>2. /\ rec[r] \in RecType /\ RecOK(rec[r], marks, stored, server, fate)
  BY Types DEF UpdInv
<1>3. /\ rec' \in [Recs -> RecType] /\ \A q \in Recs \ {r} : rec'[q] = rec[q]
      /\ rec'[r].pc = "ask" /\ rec'[r].key = rec[r].key /\ rec'[r].keys = rec[r].keys
      /\ rec'[r].local = rec[r].local /\ rec'[r].out = rec[r].out /\ rec[r].out = {}
  <2>1. CASE Stale(r)
    <3>1. rec[r].pc = "ask" /\ rec' = [rec EXCEPT ![r].stale = @ + 1]
      BY <2>1 DEF Stale, Asks
    <3>2. rec[r].stale + 1 \in 0..MaxStale - 1
      BY <1>2, <2>1, UpdateAssumption DEF Stale, RecType
    <3> QED BY <1>2, <3>1, <3>2, Types DEF RecType, RecOK
  <2>2. CASE AskNext(r)
    <3>1. rec[r].out = {} /\ rec' = [rec EXCEPT ![r].pc = "ask"]
      BY <2>2 DEF AskNext
    <3> QED BY <1>2, <3>1, Types DEF RecType
  <2> QED BY <2>1, <2>2
<1>4. Due(rec'[r]) = Due(rec[r]) /\ rec[r].key \in Keys
  BY <1>1, <1>2, <1>3 DEF Due, RecOK
<1> QED BY <1>1, <1>3, <1>4, MoveInv

LEMMA AskStateInv ==
    ASSUME UpdInv, NEW r \in Recs, AskState(r)
    PROVE  UpdInv' /\ Advances
<1> DEFINE p == Pts(Common)
           us == {u \in Updates : u.box = p /\ Happened(u)}
           z == [rec[r].local EXCEPT ![p] = server[p]]
<1>1. /\ UNCHANGED <<server, online, wire, long, task, known, faults>>
      /\ rec[r].pc = "ask" /\ rec' = [rec EXCEPT ![r].local[p] = server[p]]
      /\ Settle(us)
  BY DEF AskState
<1>2. /\ rec[r] \in RecType /\ RecOK(rec[r], marks, stored, server, fate)
      /\ rec[r].local \in State /\ p \in Boxes /\ server[p] \in Nat
  BY Types, BoxType DEF UpdInv, RecType, State
<1>3. z \in State /\ \A b \in Boxes : z[b] = IF b = p THEN server[p] ELSE rec[r].local[b]
  BY <1>2 DEF State
<1>4. rec' = [rec EXCEPT ![r] = [rec[r] EXCEPT !.local = z]]
  BY <1>1, <1>2, Types
<1> HIDE DEF z, p
<1>5. /\ rec' \in [Recs -> RecType] /\ \A q \in Recs \ {r} : rec'[q] = rec[q]
      /\ rec'[r].pc = "ask" /\ rec'[r].key = rec[r].key /\ rec'[r].keys = rec[r].keys
      /\ rec'[r].local = z /\ rec'[r].out = rec[r].out
  BY <1>1, <1>2, <1>3, <1>4, Types DEF RecType
<1>6. Grown /\ \A u \in Updates : Past(u, stored') => Past(u, stored)
  BY <1>1, SameGrown DEF known
<1>7. \A u \in Updates : fate'[u] \in {"due", "missed"} =>
                            fate[u] \in {"due", "missed"} /\ u \notin us
  BY <1>1, <1>6, SettleLemma
<1>8. Due(rec'[r]) = Due(rec[r])
  BY <1>5 DEF Due
<1>9. \A b \in Boxes : Recent(b, z[b], marks, stored, server) \/ z[b] = rec[r].local[b]
  BY <1>3, FineServer
<1>10. Covers(rec'[r], stored', fate')
  <2> SUFFICES ASSUME NEW u \in Updates, KeyOf(u) \in Due(rec[r]),
                      fate'[u] \in {"due", "missed"}, Past(u, z)
               PROVE  Past(u, stored) \/ u \in rec[r].out
    BY <1>1, <1>5, <1>8 DEF Covers, known
  <2>1. fate[u] \in {"due", "missed"} /\ u \notin us /\ u.box \in Boxes
    BY <1>7, UpdateType
  <2>2. u.box # p
    BY <1>3, <2>1 DEF Happened, Past
  <2>3. Past(u, rec[r].local)
    BY <1>3, <2>1, <2>2 DEF Past
  <2> QED BY <1>2, <2>1, <2>3 DEF RecOK, Covers
<1>11. RecOK(rec'[r], marks', stored', server', fate')
  BY <1>1, <1>2, <1>5, <1>8, <1>9, <1>10 DEF RecOK, Fine, known
<1> QED BY <1>1, <1>5, <1>6, <1>11, RecFrame

\* A save of a state that covers all that is owed passes nothing by.
LEMMA SaveCovered ==
    ASSUME UpdInv, NEW k \in Keys, NEW s \in State, Save(k, s), server' = server,
           \A b \in BoxesOf(k) : Fine(b, s[b], marks, stored, server),
           \A u \in Updates : KeyOf(u) = k /\ fate'[u] \in {"due", "missed"} /\ Past(u, s) =>
                                 Past(u, stored)
    PROVE  /\ Grown
           /\ \A u \in Updates : fate'[u] \in {"due", "missed"} /\ Past(u, stored') =>
                                    Past(u, stored)
<1>1. /\ Grown
      /\ \A b \in Boxes : stored'[b] = stored[b] \/ (b[1] = k /\ stored'[b] = s[b])
  BY SaveLemma
<1>2. ASSUME NEW u \in Updates, fate'[u] \in {"due", "missed"}, Past(u, stored')
      PROVE  Past(u, stored)
  <2>1. u.box \in Boxes
    BY UpdateType
  <2>2. CASE stored'[u.box] = stored[u.box]
    BY <1>2, <2>2 DEF Past
  <2>3. CASE u.box[1] = k /\ stored'[u.box] = s[u.box]
    BY <1>2, <2>3 DEF Past, KeyOf
  <2> QED BY <1>1, <2>1, <2>2, <2>3
<1> QED BY <1>1, <1>2

LEMMA EmptyInv ==
    ASSUME UpdInv, NEW r \in Recs, Empty(r)
    PROVE  UpdInv' /\ Advances
<1> DEFINE k == rec[r].key
<1>1. /\ UNCHANGED <<server, online, wire, long, task, fate, faults>>
      /\ rec[r].pc = "ask" /\ rec' = [rec EXCEPT ![r].pc = "save"]
      /\ Save(k, rec[r].local)
  BY DEF Empty, Asks
<1>2. /\ rec[r] \in RecType /\ RecOK(rec[r], marks, stored, server, fate)
      /\ rec[r].local \in State /\ k \in Keys /\ rec[r].out = {}
  BY <1>1, Types DEF UpdInv, RecType, RecOK
<1>3. k \in Due(rec[r])
  BY DEF Due
<1>4. /\ Grown
      /\ \A u \in Updates : fate'[u] \in {"due", "missed"} /\ Past(u, stored') => Past(u, stored)
  <2>1. \A b \in BoxesOf(k) : Fine(b, rec[r].local[b], marks, stored, server)
    BY <1>2, BoxType DEF RecOK
  <2>2. \A u \in Updates : KeyOf(u) = k /\ fate'[u] \in {"due", "missed"}
                           /\ Past(u, rec[r].local) => Past(u, stored)
    BY <1>1, <1>2, <1>3 DEF RecOK, Covers
  <2> QED BY <1>1, <1>2, <2>1, <2>2, SaveCovered
<1>5. /\ rec' \in [Recs -> RecType] /\ \A q \in Recs \ {r} : rec'[q] = rec[q]
      /\ rec'[r].pc = "save" /\ rec'[r].key = rec[r].key /\ rec'[r].keys = rec[r].keys
      /\ rec'[r].local = rec[r].local /\ rec'[r].out = rec[r].out
  BY <1>1, <1>2, Types DEF RecType
<1>6. RecOK(rec[r], marks', stored', server', fate')
  <2>1. FateStep(stored, server, fate, stored', fate')
    BY <1>1, <1>4, SettleLemma
  <2> QED BY <1>2, <1>4, <2>1, RecKept, Types DEF Grown
<1>7. RecOK(rec'[r], marks', stored', server', fate')
  <2>1. Due(rec'[r]) = Due(rec[r])
    BY <1>5 DEF Due
  <2> QED BY <1>2, <1>5, <1>6, <2>1 DEF RecOK, Covers
<1> QED BY <1>1, <1>2, <1>4, <1>5, <1>7, RecFrame

LEMMA TooLongInv ==
    ASSUME UpdInv, NEW r \in Recs, TooLong(r)
    PROVE  UpdInv' /\ Advances
<1> DEFINE k == rec[r].key
           local == [rec[r].local EXCEPT ![Pts(k)] = server[Pts(k)]]
           us == Between(k, rec[r].local, local)
<1>1. /\ UNCHANGED <<server, online, wire, long, task, faults>>
      /\ rec[r].pc = "ask" /\ rec' = [rec EXCEPT ![r].local = local]
      /\ Save(k, local) /\ Settle(us)
  BY DEF TooLong, Asks
<1>2. /\ rec[r] \in RecType /\ RecOK(rec[r], marks, stored, server, fate)
      /\ rec[r].local \in State /\ k \in Keys /\ rec[r].out = {}
  BY <1>1, Types DEF UpdInv, RecType, RecOK
<1>3. Pts(k) \in Boxes /\ server[Pts(k)] \in Nat /\ k \in Due(rec[r])
  BY <1>2, BoxType, Types DEF State, Due
<1>4. local \in State /\ \A b \in Boxes : local[b] = IF b = Pts(k) THEN server[Pts(k)]
                                                                  ELSE rec[r].local[b]
  BY <1>2, <1>3 DEF State
<1>5. \A u \in Updates : KeyOf(u) = k /\ ~Past(u, rec[r].local) /\ Past(u, local) => u \in us
  BY DEF Between
<1> HIDE DEF local, us
<1>6. \A b \in Boxes : Recent(b, local[b], marks, stored, server) \/ local[b] = rec[r].local[b]
  BY <1>4, FineServer
<1>7. \A b \in Boxes : Fine(b, local[b], marks, stored, server)
                       /\ (b[1] \in Due(rec[r]) => Recent(b, local[b], marks, stored, server))
  BY <1>2, <1>6 DEF RecOK, Fine
<1>8. \A u \in Updates : fate'[u] \in {"due", "missed"} =>
                            fate[u] \in {"due", "missed"} /\ u \notin us
  BY <1>1, Types DEF Settle
<1>9. ASSUME NEW u \in Updates, KeyOf(u) \in Due(rec[r]), fate'[u] \in {"due", "missed"},
             Past(u, local)
      PROVE  Past(u, stored)
  <2>1. fate[u] \in {"due", "missed"} /\ u \notin us /\ u.box \in Boxes
    BY <1>8, <1>9, UpdateType
  <2>2. Past(u, rec[r].local)
    <3>1. CASE KeyOf(u) = k
      BY <1>5, <1>9, <2>1, <3>1
    <3>2. CASE KeyOf(u) # k
      <4>1. u.box # Pts(k)
        BY <1>2, <3>2, BoxType DEF KeyOf
      <4> QED BY <1>4, <1>9, <2>1, <4>1 DEF Past
    <3> QED BY <3>1, <3>2
  <2> QED BY <1>2, <1>9, <2>1, <2>2 DEF RecOK, Covers
<1>10. /\ Grown
       /\ \A u \in Updates : fate'[u] \in {"due", "missed"} /\ Past(u, stored') => Past(u, stored)
  <2>1. \A b \in BoxesOf(k) : Fine(b, local[b], marks, stored, server)
    BY <1>2, <1>7, BoxType
  <2> QED BY <1>1, <1>2, <1>3, <1>4, <1>9, <2>1, SaveCovered
<1>11. /\ rec' \in [Recs -> RecType] /\ \A q \in Recs \ {r} : rec'[q] = rec[q]
       /\ rec'[r].pc = "ask" /\ rec'[r].key = rec[r].key /\ rec'[r].keys = rec[r].keys
       /\ rec'[r].local = local /\ rec'[r].out = rec[r].out
  BY <1>1, <1>2, <1>4, Types DEF RecType
<1>12. RecOK(rec'[r], marks', stored', server', fate')
  <2>1. Due(rec'[r]) = Due(rec[r])
    BY <1>11 DEF Due
  <2>2. \A b \in Boxes : local[b] \in Nat
    BY <1>4 DEF State
  <2>3. \A b \in Boxes, n \in Nat :
           /\ Recent(b, n, marks, stored, server) => Recent(b, n, marks', stored', server')
           /\ Fine(b, n, marks, stored, server) => Fine(b, n, marks', stored', server')
    BY <1>10, RecentKept, Types DEF Grown
  <2>4. \A b \in Boxes : Fine(b, local[b], marks', stored', server')
            /\ (b[1] \in Due(rec[r]) => Recent(b, local[b], marks', stored', server'))
    BY <1>7, <2>2, <2>3
  <2>5. \A u \in Updates : Past(u, stored) => Past(u, stored')
    <3>1. \A b \in Boxes : stored[b] \in Nat /\ stored'[b] \in Nat /\ stored[b] <= stored'[b]
      BY <1>10, Types DEF Grown, State
    <3> QED BY <3>1, UpdateType DEF Past
  <2>6. Covers(rec'[r], stored', fate')
    BY <1>9, <1>11, <2>1, <2>5 DEF Covers
  <2> QED BY <1>2, <1>11, <2>1, <2>4, <2>6 DEF RecOK
<1> QED BY <1>1, <1>2, <1>10, <1>11, <1>12, RecFrame

\* Key 0 has a qts beside its pts, a channel has no other box.
LEMMA QtsBox ==
    /\ <<Common, "qts">> \in Boxes /\ <<Common, "qts">>[1] = Common
    /\ \A k \in Keys : \A b \in BoxesOf(k) \ {Pts(k)} : k = Common /\ b = <<Common, "qts">>
  BY DEF Boxes, BoxesOf, Pts, Keys

LEMMA OnwardIs ==
    ASSUME NEW local, NEW k, NEW p, NEW q, NEW b \in Boxes
    PROVE  /\ b = Pts(k) => Onward(local, k, p, q)[b] = p
           /\ b \in BoxesOf(k) \ {Pts(k)} => Onward(local, k, p, q)[b] = q
           /\ b[1] # k => b = Pts(k) \/ Onward(local, k, p, q)[b] = local[b]
  BY DEF Onward, BoxesOf

\* A difference up to m, recent for the key asked for, the same for others.
LEMMA DifferenceInv ==
    ASSUME UpdInv, NEW r \in Recs, NEW m \in State, NEW final \in BOOLEAN,
           Difference(r, m, final),
           \A b \in Boxes : b[1] # rec[r].key => m[b] = rec[r].local[b],
           \A b \in BoxesOf(rec[r].key) : Recent(b, m[b], marks, stored, server)
    PROVE  UpdInv' /\ Advances
<1> DEFINE k == rec[r].key
           us == Between(k, rec[r].local, m)
           fin == final \/ m = rec[r].local
<1>1. /\ UNCHANGED <<server, online, wire, long, task, known, fate, faults>>
      /\ rec[r].pc = "ask"
      /\ rec' = [rec EXCEPT ![r] = [rec[r] EXCEPT !.pc = "put", !.local = m, !.out = us,
                                                  !.last = fin]]
  BY DEF Difference, Slice, Asks
<1>2. /\ rec[r] \in RecType /\ RecOK(rec[r], marks, stored, server, fate)
      /\ k \in Keys /\ rec[r].out = {}
  BY <1>1, Types DEF UpdInv, RecOK
<1>3. us \subseteq Updates /\ fin \in BOOLEAN
  BY DEF Between
<1>4. \A u \in Updates : KeyOf(u) = k /\ ~Past(u, rec[r].local) /\ Past(u, m) => u \in us
  BY DEF Between
<1> HIDE DEF us, fin
<1>5. /\ rec' \in [Recs -> RecType] /\ \A q \in Recs \ {r} : rec'[q] = rec[q]
      /\ rec'[r].pc = "put" /\ rec'[r].key = rec[r].key /\ rec'[r].keys = rec[r].keys
      /\ rec'[r].local = m /\ rec'[r].out = us
  BY <1>1, <1>2, <1>3, Types DEF RecType
<1>6. Due(rec'[r]) = Due(rec[r])
  BY <1>5 DEF Due
<1>7. Grown /\ \A u \in Updates : Past(u, stored') => Past(u, stored)
  BY <1>1, SameGrown DEF known
<1>8. \A b \in Boxes : Fine(b, m[b], marks, stored, server)
                       /\ (b[1] \in Due(rec[r]) => Recent(b, m[b], marks, stored, server))
  <2>1. \A b \in Boxes : b[1] = k => b \in BoxesOf(k)
    BY DEF BoxesOf
  <2> QED BY <1>2, <2>1 DEF RecOK, Fine
<1>9. Covers(rec'[r], stored', fate')
  <2> SUFFICES ASSUME NEW u \in Updates, KeyOf(u) \in Due(rec[r]),
                      fate[u] \in {"due", "missed"}, Past(u, m), u \notin us
               PROVE  Past(u, stored)
    BY <1>1, <1>5, <1>6 DEF Covers, known
  <2>1. Past(u, rec[r].local)
    <3>1. CASE KeyOf(u) = k
      BY <1>4, <3>1
    <3>2. CASE KeyOf(u) # k
      BY <3>2, UpdateType DEF KeyOf, Past
    <3> QED BY <3>1, <3>2
  <2> QED BY <1>2, <2>1 DEF RecOK, Covers
<1>10. RecOK(rec'[r], marks', stored', server', fate')
  BY <1>1, <1>2, <1>5, <1>6, <1>8, <1>9 DEF RecOK, known
<1> QED BY <1>1, <1>2, <1>5, <1>7, <1>10, RecFrame

\* A difference that is all there is, or a slice of it.
LEMMA AnsweredInv ==
    ASSUME UpdInv, NEW r \in Recs, Full(r) \/ Part(r)
    PROVE  UpdInv' /\ Advances
<1> DEFINE k == rec[r].key
           local == rec[r].local
           pts == Pts(k)
           qts == <<Common, "qts">>
<1>1. rec[r].pc = "ask"
  BY DEF Full, Part
<1>2. /\ rec[r] \in RecType /\ RecOK(rec[r], marks, stored, server, fate)
      /\ local \in State /\ k \in Keys /\ k \in Due(rec[r])
  BY <1>1, Types DEF UpdInv, RecType, RecOK, Due
<1>3. /\ pts \in Boxes /\ pts[1] = k /\ qts \in Boxes /\ qts[1] = Common
      /\ \A b \in Boxes : local[b] \in Nat /\ server[b] \in Nat /\ stored[b] \in Nat
  BY <1>2, BoxType, QtsBox, Types DEF State
<1>4. PICK p \in Nat, q \in Nat, final \in BOOLEAN :
        /\ Difference(r, Onward(local, k, p, q), final)
        /\ Recent(pts, p, marks, stored, server)
        /\ k = Common => Recent(qts, q, marks, stored, server)
  <2>1. CASE Full(r)
    <3>1. Recent(pts, server[pts], marks, stored, server)
          /\ Recent(qts, server[qts], marks, stored, server)
      BY <1>3, FineServer
    <3>2. Qts(k, server) \in Nat /\ (k = Common => Qts(k, server) = server[qts])
      BY <1>3 DEF Qts
    <3>3. Difference(r, Onward(local, k, server[pts], Qts(k, server)), TRUE)
      BY <2>1 DEF Full
    <3>4. server[pts] \in Nat /\ TRUE \in BOOLEAN
      BY <1>3
    <3> QED BY <3>1, <3>2, <3>3, <3>4
  <2>2. CASE Part(r)
    <3>1. PICK p \in local[pts]..server[pts], q \in Qts(k, local)..Qts(k, server) :
             Difference(r, Onward(local, k, p, q), FALSE)
      BY <2>2 DEF Part
    <3>2. /\ Qts(k, local) \in Nat /\ Qts(k, server) \in Nat
          /\ k = Common => Qts(k, local) = local[qts] /\ Qts(k, server) = server[qts]
      BY <1>3 DEF Qts
    <3>3. p \in Nat /\ q \in Nat /\ FALSE \in BOOLEAN
      BY <1>3, <3>1, <3>2
    <3>4. Recent(pts, p, marks, stored, server)
      <4>1. Recent(pts, local[pts], marks, stored, server)
        BY <1>2, <1>3 DEF RecOK
      <4> QED BY <1>3, <3>1, <3>3, <4>1 DEF Recent
    <3>5. ASSUME k = Common
          PROVE  Recent(qts, q, marks, stored, server)
      <4>1. Recent(qts, local[qts], marks, stored, server)
        BY <1>2, <1>3, <3>5 DEF RecOK
      <4> QED BY <1>3, <3>1, <3>2, <3>3, <3>5, <4>1 DEF Recent
    <3> QED BY <3>1, <3>3, <3>4, <3>5
  <2> QED BY <2>1, <2>2
<1> DEFINE m == Onward(local, k, p, q)
<1>5. /\ \A b \in Boxes : b[1] # k => m[b] = local[b]
      /\ \A b \in BoxesOf(k) \ {pts} : m[b] = q
      /\ m[pts] = p
  BY <1>2, <1>3, OnwardIs, BoxType
<1>6. m \in State
  <2>1. \A b \in Boxes : m[b] \in Nat
    BY <1>3, <1>4, <1>5 DEF BoxesOf
  <2>2. m = [b \in Boxes |-> m[b]]
    BY DEF Onward
  <2> HIDE DEF m
  <2> QED BY <2>1, <2>2 DEF State
<1>7. \A b \in BoxesOf(k) : Recent(b, m[b], marks, stored, server)
  BY <1>2, <1>4, <1>5, QtsBox
<1> HIDE DEF m
<1>8. Difference(r, m, final)
  BY <1>4 DEF m
<1> QED BY <1>4, <1>5, <1>6, <1>7, <1>8, DifferenceInv

\* On to the next key with nothing in hand.
LEMMA SkipOK ==
    ASSUME NEW x \in RecType, x.out = {}, NEW m, NEW s, NEW v, NEW f, RecOK(x, m, s, v, f)
    PROVE  /\ Turn(x.keys, x.local) \in RecType /\ Turn(x.keys, x.local).out = {}
           /\ RecOK(Turn(x.keys, x.local), m, s, v, f)
<1>1. x.keys \in SUBSET Keys /\ x.local \in State
  BY DEF RecType
<1>2. \A b \in Boxes : b[1] \in x.keys => Recent(b, x.local[b], m, s, v)
  BY DEF RecOK, Due
<1>3. \A u \in Updates : KeyOf(u) \in x.keys /\ f[u] \in {"due", "missed"} /\ Past(u, x.local) =>
                            Past(u, s)
  BY DEF RecOK, Due, Covers
<1> QED BY <1>1, <1>2, <1>3, TurnOK

LEMMA AskFailsInv ==
    ASSUME UpdInv, NEW r \in Recs, AskFails(r)
    PROVE  UpdInv' /\ Advances
<1> DEFINE y == Turn(rec[r].keys, rec[r].local)
<1>1. /\ UNCHANGED <<server, online, wire, long, task, known, fate, faults>>
      /\ rec[r].pc = "ask" /\ rec' = [rec EXCEPT ![r] = y]
  BY DEF AskFails, Skip
<1>2. rec[r] \in RecType /\ RecOK(rec[r], marks, stored, server, fate) /\ rec[r].out = {}
  BY <1>1, Types DEF UpdInv, RecOK
<1>3. y \in RecType /\ RecOK(y, marks, stored, server, fate)
  BY <1>2, SkipOK
<1> HIDE DEF y
<1>4. /\ rec' \in [Recs -> RecType] /\ rec'[r] = y
      /\ \A q \in Recs \ {r} : rec'[q] = rec[q]
  BY <1>1, <1>3, Types
<1>5. Grown /\ \A u \in Updates : Past(u, stored') => Past(u, stored)
  BY <1>1, SameGrown DEF known
<1>6. RecOK(rec'[r], marks', stored', server', fate')
  BY <1>1, <1>3, <1>4 DEF known
<1> QED BY <1>1, <1>2, <1>4, <1>5, <1>6, RecFrame

LEMMA SaveLocalInv ==
    ASSUME UpdInv, NEW r \in Recs, SaveLocal(r)
    PROVE  UpdInv' /\ Advances
<1> DEFINE k == rec[r].key
           y == Turn(rec[r].keys, rec[r].local)
<1>1. /\ UNCHANGED <<server, online, wire, long, task, fate, faults>>
      /\ rec' = [rec EXCEPT ![r] = y] /\ Save(k, rec[r].local)
      /\ rec[r].pc \in {"put", "save"} /\ (rec[r].pc = "put" => rec[r].out = {})
  BY DEF SaveLocal, Skip
<1>2. /\ rec[r] \in RecType /\ RecOK(rec[r], marks, stored, server, fate)
      /\ rec[r].local \in State /\ k \in Keys /\ rec[r].out = {} /\ k \in Due(rec[r])
  BY <1>1, Types DEF UpdInv, RecType, RecOK, Due
<1>3. /\ Grown
      /\ \A u \in Updates : fate'[u] \in {"due", "missed"} /\ Past(u, stored') => Past(u, stored)
  <2>1. \A b \in BoxesOf(k) : Fine(b, rec[r].local[b], marks, stored, server)
    BY <1>2, BoxType DEF RecOK
  <2>2. \A u \in Updates : KeyOf(u) = k /\ fate'[u] \in {"due", "missed"}
                           /\ Past(u, rec[r].local) => Past(u, stored)
    BY <1>1, <1>2 DEF RecOK, Covers
  <2> QED BY <1>1, <1>2, <2>1, <2>2, SaveCovered
<1>4. RecOK(rec[r], marks', stored', server', fate')
  <2>1. FateStep(stored, server, fate, stored', fate')
    BY <1>1, <1>3, SettleLemma
  <2> QED BY <1>2, <1>3, <2>1, RecKept, Types DEF Grown
<1>5. y \in RecType /\ RecOK(y, marks', stored', server', fate')
  BY <1>2, <1>4, SkipOK
<1> HIDE DEF y
<1>6. /\ rec' \in [Recs -> RecType] /\ rec'[r] = y
      /\ \A q \in Recs \ {r} : rec'[q] = rec[q]
  BY <1>1, <1>5, Types
<1> QED BY <1>1, <1>2, <1>3, <1>5, <1>6, RecFrame

LEMMA PutBackInv ==
    ASSUME UpdInv, NEW r \in Recs, NEW d \in rec[r].out, PutBack(r, d)
    PROVE  UpdInv' /\ Advances
<1>1. /\ UNCHANGED <<server, online, wire, long, task, known, faults>>
      /\ rec[r].pc = "put" /\ rec' = [rec EXCEPT ![r].out = @ \ {d}] /\ Settle({d})
  BY DEF PutBack
<1>2. rec[r] \in RecType /\ RecOK(rec[r], marks, stored, server, fate)
  BY Types DEF UpdInv
<1>3. /\ rec' \in [Recs -> RecType] /\ \A q \in Recs \ {r} : rec'[q] = rec[q]
      /\ rec'[r].pc = "put" /\ rec'[r].key = rec[r].key /\ rec'[r].keys = rec[r].keys
      /\ rec'[r].local = rec[r].local /\ rec'[r].out = rec[r].out \ {d}
  BY <1>1, <1>2, Types DEF RecType
<1>4. Grown /\ \A u \in Updates : Past(u, stored') => Past(u, stored)
  BY <1>1, SameGrown DEF known
<1>5. \A u \in Updates : fate'[u] \in {"due", "missed"} =>
                            fate[u] \in {"due", "missed"} /\ u \notin {d}
  BY <1>1, <1>4, SettleLemma
<1>6. Due(rec'[r]) = Due(rec[r])
  BY <1>3 DEF Due
<1>7. Covers(rec'[r], stored', fate')
  BY <1>1, <1>2, <1>3, <1>5, <1>6 DEF RecOK, Covers, known
<1>8. RecOK(rec'[r], marks', stored', server', fate')
  BY <1>1, <1>2, <1>3, <1>6, <1>7 DEF RecOK, known
<1> QED BY <1>1, <1>3, <1>4, <1>8, RecFrame

\* The state of a key is dropped, and nothing of it is passed any more.
LEMMA DropInv ==
    ASSUME UpdInv, NEW r \in Recs, Drop(r)
    PROVE  UpdInv' /\ Advances
<1> DEFINE k == rec[r].key
           y == Turn(rec[r].keys, rec[r].local)
           us == {u \in Updates : KeyOf(u) = k /\ Past(u, stored)}
<1>1. /\ UNCHANGED <<server, online, wire, long, task, faults>>
      /\ rec[r].pc = "ask" /\ rec' = [rec EXCEPT ![r] = y]
      /\ Forget(k) /\ Settle(us)
  BY DEF Drop, Skip, Asks
<1>2. /\ rec[r] \in RecType /\ RecOK(rec[r], marks, stored, server, fate)
      /\ rec[r].out = {} /\ k \in Keys
  BY <1>1, Types DEF UpdInv, RecOK
<1>3. \A b \in Boxes : /\ marks[b] \in Nat /\ stored[b] \in Nat /\ server[b] \in Nat
                       /\ marks[b] \in {0, stored[b]} /\ stored[b] <= server[b]
  BY Types DEF State, UpdInv, KnownOK
<1>4. /\ marks' \in State /\ stored' \in State
      /\ \A b \in Boxes : \/ b[1] = k /\ marks'[b] = 0 /\ stored'[b] = 0
                          \/ b[1] # k /\ marks'[b] = marks[b] /\ stored'[b] = stored[b]
  BY <1>1, <1>3 DEF Forget, State, BoxesOf
<1>5. KnownStep(marks, stored, server, marks', stored', server')
  BY <1>1, <1>3, <1>4 DEF KnownStep
<1>6. /\ fate' \in [Updates -> {"due", "missed", "settled", "lost"}]
      /\ \A u \in Updates : fate'[u] \in {"due", "missed"} =>
                               fate[u] \in {"due", "missed"} /\ u \notin us
  BY <1>1, Types DEF Settle
<1>7. \A u \in Updates : fate'[u] \in {"due", "missed"} => (Past(u, stored') <=> Past(u, stored))
  <2> SUFFICES ASSUME NEW u \in Updates, u \notin us
               PROVE  Past(u, stored') <=> Past(u, stored)
    BY <1>6
  <2>1. u.box \in Boxes /\ u.n \in Nat /\ u.n > 0
    BY UpdateType
  <2>2. CASE u.box[1] = k
    BY <1>4, <2>1, <2>2 DEF Past, KeyOf
  <2>3. CASE u.box[1] # k
    BY <1>4, <2>1, <2>3 DEF Past
  <2> QED BY <2>2, <2>3
<1>8. FateStep(stored, server, fate, stored', fate')
  BY <1>6, <1>7 DEF FateStep
<1>9. RecOK(rec[r], marks', stored', server', fate')
  BY <1>1, <1>2, <1>4, <1>5, <1>8, RecKept, Types
<1>10. y \in RecType /\ RecOK(y, marks', stored', server', fate')
  BY <1>2, <1>9, SkipOK
<1> HIDE DEF y, us
<1>11. /\ rec' \in [Recs -> RecType] /\ rec'[r] = y
       /\ \A q \in Recs : rec'[q] = rec[q] \/ RecOK(rec'[q], marks', stored', server', fate')
       /\ \A q \in Recs \ {r} : rec'[q] = rec[q]
  BY <1>1, <1>10, Types
<1>12. \A u \in Updates : fate'[u] \in {"due", "missed"} /\ Past(u, stored') => u \in InHand'
  <2>1. \A u : /\ u \in wire => u \in InHand'
               /\ \A t \in Tasks : u \in task[t].left => u \in InHand'
               /\ \A q \in Recs : u \in rec[q].out => u \in InHand'
    BY <1>1, <1>2, <1>11, InHandIs
  <2> QED BY <1>6, <1>7, <2>1, StillInHand
<1>13. UpdInv'
  BY <1>1, <1>4, <1>5, <1>6, <1>8, <1>11, <1>12, Frame, Types
<1>14. Advances
  <2> SUFFICES ASSUME NEW kk \in Keys
               PROVE  \/ \A b \in BoxesOf(kk) : stored[b] <= stored'[b]
                      \/ ~Known(kk, stored')
    BY DEF Advances
  <2>1. CASE kk = k
    BY <1>4, <2>1 DEF Known, BoxesOf
  <2>2. CASE kk # k
    BY <1>3, <1>4, <2>2 DEF BoxesOf
  <2> QED BY <2>1, <2>2
<1> QED BY <1>13, <1>14

----------------------------------------------------------------------------
(* The theorems *)

LEMMA InitInv ==
    ASSUME Init
    PROVE  UpdInv
<1>1. /\ server \in State /\ \A b \in Boxes : server[b] \in Nat
      /\ marks = Zero /\ stored = Zero /\ Zero \in State /\ \A b \in Boxes : Zero[b] = 0
  BY ZeroType, BoxType DEF Init, State
<1>2. fate \in [Updates -> {"due", "missed", "settled", "lost"}]
  BY DEF Init
<1>3. \A t \in Tasks : task[t] = Free /\ TaskOK(task[t], marks, stored, server)
  BY FreeOK DEF Init
<1>4. \A r \in Recs : rec[r] = Off /\ RecOK(rec[r], marks, stored, server, fate)
  BY OffOK DEF Init
<1>5. TypeOK
  <2>1. task \in [Tasks -> TaskType]
    BY FreeOK DEF Init
  <2>2. rec \in [Recs -> RecType]
    BY OffOK DEF Init
  <2>3. 0 \in 0..MaxFaults
    BY UpdateAssumption
  <2> QED BY <1>1, <1>2, <2>1, <2>2, <2>3 DEF Init, TypeOK, TaskType, RecType
<1>6. NonePassedBy
  <2>1. \A u \in Updates : ~Past(u, stored)
    BY <1>1, UpdateType DEF Past
  <2> QED BY <1>5, <2>1 DEF NonePassedBy
<1>7. KnownOK(marks, stored, server)
  BY <1>1 DEF KnownOK
<1> QED BY <1>3, <1>4, <1>6, <1>7 DEF Init, UpdInv

LEMMA HandleInv ==
    ASSUME UpdInv, NEW t \in Tasks, Handle(t)
    PROVE  UpdInv' /\ Advances
  BY PutInv, HandleFailsInv, HandleEndInv, SaveSeenInv DEF Handle

LEMMA RecoverInv ==
    ASSUME UpdInv, NEW r \in Recs, Recover(r)
    PROVE  UpdInv' /\ Advances
<1>1. CASE r # None /\ Begin(r)
  BY <1>1, BeginInv DEF Recs
<1>2. CASE r = Common /\ GetState
  BY <1>2, GetStateInv
<1>3. CASE \E k \in Keys : Pick(r, k)
  BY <1>3, PickInv
<1>4. CASE Answer(r)
  BY <1>4, AskStateInv, EmptyInv, TooLongInv, DropInv, AskAgainInv, AskFailsInv, AnsweredInv
     DEF Answer
<1>5. CASE \E u \in rec[r].out : PutBack(r, u)
  BY <1>5, PutBackInv
<1>6. CASE AskNext(r) \/ SaveLocal(r)
  BY <1>6, AskAgainInv, SaveLocalInv
<1> QED BY <1>1, <1>2, <1>3, <1>4, <1>5, <1>6 DEF Recover

LEMMA StepInv ==
    ASSUME UpdInv, [Next]_vars
    PROVE  UpdInv' /\ Advances
<1>1. CASE \E b \in Boxes : Happen(b)
  BY <1>1, HappenInv
<1>2. CASE \E k \in Keys : PushTooLong(k)
  BY <1>2, PushTooLongInv
<1>3. CASE Arrive
  <2>1. PICK us \in SUBSET wire, ls \in SUBSET long :
           (\E t \in Tasks : Receive(t, us, ls)) \/ Overflow(us, ls)
    BY <1>3 DEF Arrive
  <2> QED BY <2>1, ReceiveInv, LossInv
<1>4. CASE \E t \in Tasks, u \in wire : ReceiveShort(t, u)
  BY <1>4, ShortInv
<1>5. CASE Break
  BY <1>5, LossInv
<1>6. CASE \E t \in Tasks : Handle(t)
  BY <1>6, HandleInv
<1>7. CASE Sweep
  BY <1>7, SweepInv
<1>8. CASE \E r \in Recs : Recover(r)
  BY <1>8, RecoverInv
<1>9. CASE Crash
  BY <1>9, CrashInv
<1>10. CASE Connect
  BY <1>10, ConnectInv
<1>11. CASE UNCHANGED vars
  <2>1. UpdInv'
    BY <1>11 DEF vars, known, UpdInv, NonePassedBy, TypeOK, Owed, Past, InHand
  <2>2. Grown
    BY <1>11, SameGrown DEF vars, known
  <2> QED BY <2>1, <2>2, GrownAdvances
<1> QED
  BY <1>1, <1>2, <1>3, <1>4, <1>5, <1>6, <1>7, <1>8, <1>9, <1>10, <1>11 DEF Next

(***************************************************************************)
(* UpdInv is inductive: what is saved anywhere in handle_updates() or in   *)
(* recover_gaps() is a number the server has counted to, and without a     *)
(* mark, after a restart, none older than the stored one is in anybody's   *)
(* hand; the state a recovery works from covers nothing that is owed but   *)
(* what the recovery has in hand or the stored state had covered before.   *)
(***************************************************************************)
THEOREM UpdInvariant == Spec => []UpdInv
<1>1. Init => UpdInv
  BY InitInv
<1>2. UpdInv /\ [Next]_vars => UpdInv'
  BY StepInv
<1> QED BY <1>1, <1>2, PTL DEF Spec

(***************************************************************************)
(* No recovery moves the stored state past an update that is neither with  *)
(* the dispatcher nor in somebody's hand, for any channels, tasks, numbers *)
(* of updates, crashes and "too long" pushes.                              *)
(***************************************************************************)
THEOREM NonePassedByTheorem == Spec => []NonePassedBy
<1>1. UpdInv => NonePassedBy
  BY DEF UpdInv
<1> QED BY <1>1, UpdInvariant, PTL

(***************************************************************************)
(* _save_update_state() never sets the stored state of a key back, it only *)
(* advances or is dropped as a whole, whatever saves race for it and       *)
(* although the marks it compares with are lost in a crash.                *)
(***************************************************************************)
THEOREM StateAdvancesTheorem == Spec => StateAdvances
<1>1. UpdInv /\ [Next]_vars =>
        [\A k \in Keys : \/ \A b \in BoxesOf(k) : stored[b] <= stored'[b]
                         \/ ~Known(k, stored')]_stored
  BY StepInv DEF Advances
<1> QED BY <1>1, UpdInvariant, PTL DEF Spec, StateAdvances

=============================================================================
