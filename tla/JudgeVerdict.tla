---------------------------- MODULE JudgeVerdict ----------------------------
(***************************************************************************)
(* Packets and verdicts of the independent judge (judge.py).  A packet or  *)
(* a verdict is addressed by its content, so the record is its own         *)
(* identity: request_id, order_digest, config_digest and scope of a        *)
(* verdict equal those of a packet iff the verdict holds that packet.      *)
(*                                                                         *)
(* A packet: [source, context, origin, originModel, judge, model, items].  *)
(* judge stands for provider, version, endpoint, configuration and         *)
(* adapter profile together, items for the ids in randomized order.        *)
(***************************************************************************)
EXTENDS Sequences

CONSTANT Labels        \* the three labels a decision may carry

ASSUME LabelsAssumption == "unknown" \in Labels

Once(s) == \A i, j \in DOMAIN s : s[i] = s[j] => i = j

(* What the judge may not share with the work it judges.                   *)
Independent(p) == /\ p.source # p.context
                  /\ p.origin # p.judge
                  /\ p.originModel # p.model

(* _validate_packet: allowed are the judge bindings the canonical provider *)
(* policy lists, and has not revoked, at the time of the call.             *)
PacketValid(p, allowed) == Independent(p) /\ p.judge \in allowed

(* build_blind_packet.                                                     *)
PacketBuilds(p, allowed) ==
  PacketValid(p, allowed) /\ p.items # <<>> /\ Once(p.items)

-----------------------------------------------------------------------------
ItemsOf(decisions) == [i \in DOMAIN decisions |-> decisions[i].item]

WellFormed(decisions) == \A i \in DOMAIN decisions : decisions[i].label \in Labels

Status(decisions) ==
  IF \E i \in DOMAIN decisions : decisions[i].label = "unknown"
  THEN "unknown" ELSE "complete"

(* _build_verdict accepts what names every item of the packet once, in the *)
(* packet's order.                                                         *)
Covers(p, decisions) == /\ WellFormed(decisions)
                        /\ ItemsOf(decisions) = p.items
                        /\ Once(p.items)

VerdictOn(p, decisions) ==
  [packet |-> p, status |-> Status(decisions), decisions |-> decisions]

(* validate_verdict_identity.                                              *)
IdentityValid(v) == /\ v.decisions # <<>>
                    /\ WellFormed(v.decisions)
                    /\ Once(ItemsOf(v.decisions))
                    /\ v.status = Status(v.decisions)

(* sign_verdict, verify_signed_verdict: only a complete candidate.         *)
Signable(v) == IdentityValid(v) /\ v.status = "complete"

SignatureValid(s, key) == Signable(s.verdict) /\ s.key = key

(* Mutant: the policy is not read again.                                   *)
BoundByContent(p, v, allowed) == /\ IdentityValid(v)
                                 /\ v.packet = p
                                 /\ ItemsOf(v.decisions) = p.items

(* validate_verdict_binding.                                               *)
Bound(p, v, allowed) == /\ PacketValid(p, allowed)
                        /\ IdentityValid(v)
                        /\ v.packet = p
                        /\ ItemsOf(v.decisions) = p.items

-----------------------------------------------------------------------------
LabelsIn(v) == {<<v.decisions[i].item, v.decisions[i].label>> : i \in DOMAIN v.decisions}

Judged(v) == {v.decisions[i].item : i \in DOMAIN v.decisions}

Divergent(v, w) ==
  {x \in Judged(v) : \E l, k \in Labels : /\ l # k
                                          /\ <<x, l>> \in LabelsIn(v)
                                          /\ <<x, k>> \in LabelsIn(w)}

(* compare_verdicts.                                                       *)
Agree(v, w) == /\ v.packet = w.packet
               /\ Judged(v) = Judged(w)
               /\ Divergent(v, w) = {}
=============================================================================
