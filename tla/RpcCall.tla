------------------------------ MODULE RpcCall ------------------------------
(***************************************************************************)
(* What Session.invoke() (pyrogram/session/session.py) promises to its     *)
(* callers: a call that returns an answer returns one the server gave for  *)
(* it, and every call comes to an end.  Lost connections, restarts, new    *)
(* salts and retries are not to be seen here.  The server may well have    *)
(* executed a call that failed.                                            *)
(***************************************************************************)
CONSTANT Calls

VARIABLES
    outcome,  \* what the caller knows of its call
    executed  \* calls the server has answered at least once

vars == <<outcome, executed>>

Init ==
    /\ outcome = [c \in Calls |-> "idle"]
    /\ executed = {}

Begin(c) ==
    /\ outcome[c] = "idle"
    /\ outcome' = [outcome EXCEPT ![c] = "pending"]
    /\ UNCHANGED executed

\* A call on a stopped session fails at once.
Refuse(c) ==
    /\ outcome[c] = "idle"
    /\ outcome' = [outcome EXCEPT ![c] = "failed"]
    /\ UNCHANGED executed

\* The request may arrive after its caller has given up.
Execute(c) ==
    /\ outcome[c] # "idle"
    /\ executed' = executed \cup {c}
    /\ UNCHANGED outcome

Return(c) ==
    /\ outcome[c] = "pending" /\ c \in executed
    /\ outcome' = [outcome EXCEPT ![c] = "returned"]
    /\ UNCHANGED executed

Fail(c) ==
    /\ outcome[c] = "pending"
    /\ outcome' = [outcome EXCEPT ![c] = "failed"]
    /\ UNCHANGED executed

Next == \E c \in Calls : Begin(c) \/ Refuse(c) \/ Execute(c) \/ Return(c) \/ Fail(c)

Spec ==
    /\ Init /\ [][Next]_vars
    /\ \A c \in Calls : WF_vars(Return(c) \/ Fail(c))

=============================================================================
