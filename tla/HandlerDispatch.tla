--------------------------- MODULE HandlerDispatch --------------------------
(***************************************************************************)
(* How an update goes through the handler groups: handler_worker() and     *)
(* handle_update_handler_exception() of pyrogram/dispatcher.py against     *)
(* add_handler() and remove_handler().                                     *)
(*                                                                         *)
(* An edit is one step: a worker holds its lock over no await, so that     *)
(* _barrier() never waits for one.  A walk takes the groups from a         *)
(* snapshot but their lists as they are, by index.  A group goes when its  *)
(* list is empty, so that a walk that still holds the list finds nothing   *)
(* in it; a group added again has another list.  An error walk is over     *)
(* the dictionary itself, and raises if it was changed when it moves on.   *)
(*                                                                         *)
(* Filters, callbacks and listeners are external: a handler that was       *)
(* started ends in any of the ways the code tells apart.                   *)
(***************************************************************************)
EXTENDS FiniteSets, Integers, Sequences, SequencesExt

CONSTANTS
    Walkers,               \* the workers, each with an update
    Updating, Raw, Error,  \* handlers for the update, for all of them, for exceptions
    GroupOf,               \* the group each handler is added to
    Registered,            \* the list of each group at first
    MaxEdits, None

Handlers == Updating \cup Raw \cup Error
Groups == {GroupOf[h] : h \in Handlers}

ASSUME HandlerAssumption ==
    /\ IsFiniteSet(Handlers)
    /\ GroupOf \in [Handlers -> Int]
    /\ None \notin Groups \cup Handlers
    /\ \A g \in DOMAIN Registered :
          /\ Registered[g] \in Seq(Handlers)
          /\ \A i \in DOMAIN Registered[g] : GroupOf[Registered[g][i]] = g
    /\ MaxEdits \in Nat

VARIABLES
    groups,  \* the list of each group; empty when there is no such group
    walk,    \* what each worker does with its update
    edits    \* handlers added or removed

walkVars == <<groups, walk, edits>>

\* cur, i: the list walked now, None once it has gone, and the next index in
\* it; rest: groups to come; h: the handler that runs.  ecur, ei, erest are
\* those of the error walk, and mutated says that the groups have changed
\* under it.  The others are history: the handlers the update is due to, the
\* ones an edit has made it miss, the groups that have handled it, and
\* whether it was given up.
Idle == [pc |-> "idle", consumed |-> FALSE, cur |-> None, i |-> 1, rest |-> {},
         h |-> None, ecur |-> None, ei |-> 1, erest |-> {}, mutated |-> FALSE,
         due |-> {}, slipped |-> {}, took |-> {}, cut |-> FALSE]

Walks == [pc : {"idle", "run", "error"}, consumed : BOOLEAN,
          cur : Groups \cup {None}, i : Nat \ {0}, rest : SUBSET Groups,
          h : Handlers \cup {None},
          ecur : Groups \cup {None}, ei : Nat \ {0}, erest : SUBSET Groups,
          mutated : BOOLEAN, due : SUBSET Handlers, slipped : SUBSET Handlers,
          took : SUBSET Groups, cut : BOOLEAN]

WalkTypeOK ==
    /\ groups \in [Groups -> Seq(Handlers)]
    /\ walk \in [Walkers -> Walks]
    /\ edits \in 0..MaxEdits

WalkInit ==
    /\ groups = [g \in Groups |-> IF g \in DOMAIN Registered THEN Registered[g] ELSE <<>>]
    /\ walk = [w \in Walkers |-> Idle]
    /\ edits = 0

----------------------------------------------------------------------------
(* The walk *)

Present == {g \in Groups : groups[g] # <<>>}

\* The handlers of hs from index i of the list of cur on, and then in rest.
Places(hs, cur, i, rest) ==
    {p \in UNION {{g} \X DOMAIN groups[g] : g \in (rest \cup {cur}) \ {None}} :
        groups[p[1]][p[2]] \in hs /\ (p[1] = cur => p[2] >= i)}

First(ps) ==
    CHOOSE p \in ps : \A q \in ps : p[1] < q[1] \/ (p[1] = q[1] /\ p[2] <= q[2])

\* The handlers an update may go to; one that a listener has consumed is for
\* raw handlers only.
Takes(consumed) == IF consumed THEN Raw ELSE Updating \cup Raw

\* The walk x goes on to the next handler, or ends.
Seek(x, cur, i, rest) ==
    LET ps == Places(Takes(x.consumed), cur, i, rest)
        p == First(ps)
    IN  IF ps = {} THEN [Idle EXCEPT !.due = x.due, !.slipped = x.slipped]
        ELSE [x EXCEPT !.pc = "run", !.cur = p[1], !.i = p[2] + 1,
                       !.h = groups[p[1]][p[2]], !.rest = {g \in rest : g > p[1]},
                       !.due = @ \ {groups[p[1]][p[2]]}]

TakeUpdate(w, consumed) ==
    /\ walk[w].pc = "idle"
    /\ LET x == [Idle EXCEPT !.consumed = consumed,
                    !.due = {h \in Takes(consumed) : Contains(groups[GroupOf[h]], h)}]
       IN  walk' = [walk EXCEPT ![w] = Seek(x, None, 1, Present)]
    /\ UNCHANGED <<groups, edits>>

\* Mutant: at the end of its list the walk begins it again.
PassOnRound(w) ==
    /\ walk[w].pc = "run"
    /\ LET x == walk[w]
           wrap == x.cur # None /\ x.i > Len(groups[x.cur])
       IN  walk' = [walk EXCEPT ![w] = Seek(x, x.cur, IF wrap THEN 1 ELSE x.i, x.rest)]
    /\ UNCHANGED <<groups, edits>>

\* The filter refuses or raises, or the callback raises ContinuePropagation.
PassOn(w) ==
    /\ walk[w].pc = "run"
    /\ walk' = [walk EXCEPT ![w] = Seek(@, @.cur, @.i, @.rest)]
    /\ UNCHANGED <<groups, edits>>

\* The group of x has handled the update.
Took(x) ==
    LET g == GroupOf[x.h]
    IN  [x EXCEPT !.took = @ \cup {g}, !.due = {h \in @ : GroupOf[h] # g}]

Return(w) ==
    /\ walk[w].pc = "run"
    /\ walk' = [walk EXCEPT ![w] = Seek(Took(@), None, 1, @.rest)]
    /\ UNCHANGED <<groups, edits>>

StopPropagation(w) ==
    /\ walk[w].pc = "run"
    /\ walk' = [walk EXCEPT ![w] = Idle]
    /\ UNCHANGED <<groups, edits>>

----------------------------------------------------------------------------
(* handle_update_handler_exception() *)

\* Mutant: the list is not left after an exception.
AfterErrorHere(x) == Seek(x, x.cur, x.i, x.rest)

AfterError(x) == Seek(x, None, 1, x.rest)

\* Mutant: an exception ends the walk.
ErrorSeekLast(x, ecur, ei, erest) ==
    LET ps == Places(Error, ecur, ei, erest)
        p == First(ps)
    IN  IF ps = {} THEN [Idle EXCEPT !.due = x.due, !.slipped = x.slipped]
        ELSE [x EXCEPT !.pc = "error", !.ecur = p[1], !.ei = p[2] + 1,
                       !.erest = {g \in erest : g > p[1]}]

\* The error walk goes on to the next error handler; when there is none the
\* update goes on to the next group.  It raises when it moves to another
\* group of a dictionary that has changed, and that ends the update.
ErrorSeek(x, ecur, ei, erest) ==
    LET ps == Places(Error, ecur, ei, IF x.mutated THEN {} ELSE erest)
        p == First(ps)
    IN  IF ps = {}
        THEN IF x.mutated /\ erest # {}
             THEN [Idle EXCEPT !.due = x.due, !.slipped = x.slipped, !.cut = TRUE]
             ELSE AfterError([x EXCEPT !.ecur = None, !.ei = 1, !.erest = {},
                                       !.mutated = FALSE])
        ELSE [x EXCEPT !.pc = "error", !.ecur = p[1], !.ei = p[2] + 1,
                       !.erest = {g \in erest : g > p[1]}]

Raise(w) ==
    /\ walk[w].pc = "run"
    /\ walk' = [walk EXCEPT ![w] = ErrorSeek(Took(@), None, 1, Present)]
    /\ UNCHANGED <<groups, edits>>

\* Not for this exception, refused by the filter, or ContinuePropagation.
ErrorPassOn(w) ==
    /\ walk[w].pc = "error"
    /\ walk' = [walk EXCEPT ![w] = ErrorSeek(@, @.ecur, @.ei, @.erest)]
    /\ UNCHANGED <<groups, edits>>

\* The error handler returned, or raised an exception of its own.
ErrorReturn(w) ==
    /\ walk[w].pc = "error"
    /\ walk' = [walk EXCEPT ![w] = ErrorSeek(@, None, 1, @.erest)]
    /\ UNCHANGED <<groups, edits>>

ErrorStop(w) ==
    /\ walk[w].pc = "error"
    /\ walk' = [walk EXCEPT ![w] = ErrorSeek(@, None, 1, {})]
    /\ UNCHANGED <<groups, edits>>

----------------------------------------------------------------------------
(* add_handler(), remove_handler(), and the clear_handlers of stop() *)

AddHandler(h) ==
    LET g == GroupOf[h]
    IN  /\ edits < MaxEdits /\ edits' = edits + 1
        /\ ~Contains(groups[g], h)
        /\ groups' = [groups EXCEPT ![g] = Append(@, h)]
        /\ walk' = [w \in Walkers |->
                      [walk[w] EXCEPT !.mutated = @ \/ (walk[w].pc = "error"
                                                        /\ groups[g] = <<>>)]]

\* What the removal of position p of the list of g does to a walk: the
\* handler that moves to a place already passed is not looked at.
Shifted(x, g, p) ==
    LET missed == IF x.pc # "idle" /\ x.cur = g /\ p < x.i /\ x.i <= Len(groups[g])
                     THEN {groups[g][x.i]} ELSE {}
        gone == Len(groups[g]) = 1
        Left(cur) == IF gone /\ cur = g THEN None ELSE cur
    IN  [x EXCEPT !.slipped = @ \cup missed, !.due = @ \ {groups[g][p]},
                  !.cur = Left(@), !.ecur = Left(@),
                  !.rest = IF gone THEN @ \ {g} ELSE @,
                  !.mutated = @ \/ (gone /\ x.pc = "error")]

RemoveHandler(h) ==
    LET g == GroupOf[h]
    IN  /\ edits < MaxEdits /\ edits' = edits + 1
        /\ \E p \in DOMAIN groups[g] :
              /\ groups[g][p] = h
              /\ groups' = [groups EXCEPT ![g] = RemoveAt(@, p)]
              /\ walk' = [w \in Walkers |-> Shifted(walk[w], g, p)]

\* stop() has waited for every worker before.
Clear ==
    /\ edits < MaxEdits /\ edits' = edits + 1
    /\ \A w \in Walkers : walk[w].pc = "idle"
    /\ groups' = [g \in Groups |-> <<>>]
    /\ walk' = [w \in Walkers |-> Idle]

Step(w) ==
    \/ PassOn(w) \/ Return(w) \/ StopPropagation(w) \/ Raise(w)
    \/ ErrorPassOn(w) \/ ErrorReturn(w) \/ ErrorStop(w)

WalkNext ==
    \/ \E w \in Walkers : \/ \E consumed \in BOOLEAN : TakeUpdate(w, consumed)
                          \/ Step(w)
    \/ \E h \in Handlers : AddHandler(h) \/ RemoveHandler(h)
    \/ Clear

\* A handler that was started comes to an end.
WalkSpec == WalkInit /\ [][WalkNext]_walkVars /\ \A w \in Walkers : WF_walkVars(Step(w))

----------------------------------------------------------------------------
(***************************************************************************)
(* An update reaches every handler that was registered when its walk       *)
(* began and not removed since, unless the handler's group handled it or  *)
(* propagation was stopped.  Exceptions of handlers and of error handlers, *)
(* and handlers added meanwhile, take it from nobody.  A handler misses it *)
(* only because one before it in its list was removed under the walk, or   *)
(* because the walk was cut.                                               *)
(***************************************************************************)
NoneOverlooked ==
    /\ WalkTypeOK
    /\ \A w \in Walkers :
          walk[w].pc = "idle" /\ ~walk[w].cut => walk[w].due \subseteq walk[w].slipped

(***************************************************************************)
(* "At most one handler within a group will be used for a single update",  *)
(* also when the group is removed and added again under the walk.          *)
(***************************************************************************)
OncePerGroup ==
    \A w \in Walkers : walk[w].pc = "run" => GroupOf[walk[w].h] \notin walk[w].took

(***************************************************************************)
(* The worker comes back for the next update once the handlers of this one *)
(* have ended, although handlers may be added to the list it walks.        *)
(***************************************************************************)
WalkEnds == \A w \in Walkers : []<>(walk[w].pc = "idle")

=============================================================================
