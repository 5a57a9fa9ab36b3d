------------------------------ MODULE Lifecycle ------------------------------
(***************************************************************************)
(* The audit lifecycle of lifecycle.py: the states of an audit and the     *)
(* moves ALLOWED_TRANSITIONS admits.  The session store, its replay and    *)
(* the stand-alone AuditLifecycle all consult this one table.              *)
(***************************************************************************)

ALLOWED_TRANSITIONS ==
  [ created           |-> {"context_validated"},
    context_validated |-> {"planned"},
    planned           |-> {"running"},
    running           |-> {"blocked", "partial", "complete"},
    blocked           |-> {"running"},
    partial           |-> {"running"},
    complete          |-> {"attested"},
    attested          |-> {} ]

LifecycleStates == DOMAIN ALLOWED_TRANSITIONS

InitialState == "created"

(* A journal event may keep the state; otherwise the move must be listed.  *)
MayMove(from, to) == to = from \/ to \in ALLOWED_TRANSITIONS[from]
=============================================================================
