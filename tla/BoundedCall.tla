---------------------------- MODULE BoundedCall -----------------------------
(***************************************************************************)
(* What run_independent_judge promises its caller: each call ends once,    *)
(* with a complete verdict on the items that were asked for, with an       *)
(* escalation to a human, or with an exception; what ends in one of them   *)
(* leaves nothing of the others.                                           *)
(***************************************************************************)
CONSTANTS
  Packets,
  Answers,   \* Answers[p]: the complete decisions on the items of p
  None

VARIABLES
  pending,   \* the packet being judged, or None
  complete,  \* complete verdicts returned, each with its packet
  open,      \* packets escalated to a human
  raised     \* packets whose call raised

vars == <<pending, complete, open, raised>>

Init == pending = None /\ complete = {} /\ open = {} /\ raised = {}

Ask(p) == /\ pending = None
          /\ pending' = p
          /\ UNCHANGED <<complete, open, raised>>

Answered(d) ==
  /\ pending # None
  /\ d \in Answers[pending]
  /\ complete' = complete \cup {[packet |-> pending, decisions |-> d]}
  /\ pending' = None
  /\ UNCHANGED <<open, raised>>

Escalated == /\ pending # None
             /\ open' = open \cup {pending}
             /\ pending' = None
             /\ UNCHANGED <<complete, raised>>

Raised == /\ pending # None
          /\ raised' = raised \cup {pending}
          /\ pending' = None
          /\ UNCHANGED <<complete, open>>

Next == \/ \E p \in Packets : Ask(p)
        \/ \E d \in UNION {Answers[p] : p \in Packets} : Answered(d)
        \/ Escalated
        \/ Raised

Spec == Init /\ [][Next]_vars
=============================================================================
