-------------------------- MODULE MCHandlerDispatch -------------------------
(* Two groups of handlers, with an error handler in each. *)
EXTENDS HandlerDispatch
CONSTANTS u1, u2, u3, r1, e1, e2

MCGroupOf ==
    [h \in Handlers |-> IF h \in {u1, u2, e1} THEN 0 ELSE 1]
MCRegistered == (0 :> <<u1, u2, e1>>) @@ (1 :> <<r1, u3>>)
=============================================================================
