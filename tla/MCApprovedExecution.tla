------------------------ MODULE MCApprovedExecution -------------------------
(* Small instances of ApprovedExecution for TLC.                           *)
EXTENDS ApprovedExecution, TLC

CONSTANTS r1, r2, p1, p2, q1, q2, t1, t2

TwoProcesses == (r1 :> p1) @@ (r2 :> p2)
OneProcess   == (r1 :> p1) @@ (r2 :> p1)

(* t1 approves q1, which the controls accept; t2 approves q2, which they   *)
(* do not.                                                                 *)
MCBoundTo == (t1 :> q1) @@ (t2 :> q2)
MCIssued  == (t1 :> 1) @@ (t2 :> 0)
MCExpires == (t1 :> 2) @@ (t2 :> 2)
=============================================================================
