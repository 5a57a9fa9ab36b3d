------------------------------ MODULE MCJudge -------------------------------
(* Small instances of Judge for TLC.                                       *)
EXTENDS Judge, TLC

CONSTANTS s1, c1, home, homeModel, j1, j2, m1, a, b, list

MCLabels == {"yes", "no", "unknown"}

Request(context, origin, judge, items) ==
  [source |-> s1, context |-> context, origin |-> origin, originModel |-> homeModel,
   judge |-> judge, model |-> m1, items |-> items]

(* Two packets that can be judged, of two judges, and three that cannot.   *)
MCRequests == {Request(c1, home, j1, <<b, a>>), Request(c1, home, j2, <<a>>),
               Request(s1, home, j1, <<a>>), Request(c1, j2, j2, <<a>>),
               Request(c1, home, j1, <<a, a>>)}

Says(item, label) == [item |-> item, label |-> label]

Reply(kind, said, size) == [kind |-> kind, decisions |-> said, size |-> size]

(* Answers that cover a packet, one of them too large for the pipe, one    *)
(* undecided, one in the wrong order, one with a label that is a list; a   *)
(* provider that raises, with a text that can be encoded or not, and a     *)
(* reply that cannot be unpickled.  PipeSize is 2.                         *)
MCReplies ==
  {Reply("answer", <<Says(b, "yes"), Says(a, "yes")>>, 2),
   Reply("answer", <<Says(a, "yes"), Says(b, "yes")>>, 1),
   Reply("answer", <<Says(a, "yes")>>, 3),
   Reply("answer", <<Says(a, "no")>>, 1),
   Reply("answer", <<Says(a, "unknown")>>, 1),
   Reply("answer", <<Says(a, "perhaps")>>, 1),
   Reply("answer", <<Says(b, "yes"), Says(a, list)>>, 1),
   Reply("error", <<>>, 1),
   Reply("odd error", <<>>, 1),
   Reply("unreadable", <<>>, 1)}

(* A verdict on the second packet that no judge gave.                      *)
MCDrafts == {[packet |-> Request(c1, home, j2, <<a>>), status |-> "complete",
              decisions |-> <<Says(a, "yes")>>]}
=============================================================================
