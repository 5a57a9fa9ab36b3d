----------------------------- MODULE SingleUse ------------------------------
(***************************************************************************)
(* What an approval token promises (README.md: "signed, scoped, expiring,  *)
(* single-use approval tokens"; docs/tool-broker.md: consumed on its first *)
(* verified evaluation): a token is burnt at most once, for good, and at   *)
(* most one command is ever launched on a burnt token.                     *)
(***************************************************************************)
CONSTANTS Tokens, Calls

VARIABLES
  burnt,    \* tokens nobody may use any more
  launches  \* the commands launched: which call, on which token

vars == <<burnt, launches>>

Init == /\ burnt = {}
        /\ launches = {}

Burn(t) == /\ t \notin burnt
           /\ burnt' = burnt \cup {t}
           /\ UNCHANGED launches

Launch(c, t) == /\ t \in burnt
                /\ \A x \in launches : x.token # t
                /\ launches' = launches \cup {[call |-> c, token |-> t]}
                /\ UNCHANGED burnt

Next == \E t \in Tokens : \/ Burn(t)
                          \/ \E c \in Calls : Launch(c, t)

Spec == Init /\ [][Next]_vars
=============================================================================
