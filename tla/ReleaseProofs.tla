--------------------------- MODULE ReleaseProofs ----------------------------
(***************************************************************************)
(* Proofs about Release for any number of callers, sessions, bundles and   *)
(* pilots, any evidence, registries, allowlist and times; first the part   *)
(* about provider runs, of ProviderCalls.                                  *)
(***************************************************************************)
EXTENDS Release, FiniteSetTheorems, TLAPS

-----------------------------------------------------------------------------
(* Provider calls.                                                         *)

(* Calls are told apart by their ids.                                      *)
IdsApart ==
  /\ \A c \in Callers : call[c] # None => call[c].id <= lastCall
  /\ \A r \in runs : r.id <= lastCall
  /\ \A x \in sent : x.call <= lastCall
  /\ \A c, d \in Callers :
       call[c] # None /\ call[d] # None /\ call[c].id = call[d].id => c = d
  /\ \A c \in Callers : call[c] # None => \A r \in runs : r.id # call[c].id

Authorized(c) == call[c] # None /\ call[c].at \in {"transport", "reply"}

(* A call past the broker has a token of its own, used up for it.          *)
Holding ==
  \A c \in Callers : Authorized(c) =>
    /\ Verifies(call[c].token, call[c].request)
    /\ call[c].token \in spent
    /\ \A d \in Callers : Authorized(d) /\ call[d].token = call[c].token => c = d

(* What a call has sent, by its stage.                                     *)
SentByStage ==
  \A c \in Callers : call[c] # None =>
    /\ call[c].at # "reply" => \A x \in sent : x.call # call[c].id
    /\ call[c].at = "transport" => \A x \in sent : x.token # call[c].token
    /\ call[c].at = "reply" => [call |-> call[c].id, token |-> call[c].token] \in sent

ProviderInv == /\ ProviderTypeOK
               /\ IdsApart
               /\ Holding
               /\ SentByStage
               /\ SentOnItsOwnToken
               /\ RunsTellWhatLeft

LEMMA ProviderInitInv == ProviderInit => ProviderInv
  BY ProvidersAssumption
     DEF ProviderInit, ProviderInv, ProviderTypeOK, IdsApart, Authorized, Holding,
         SentByStage, SentOnItsOwnToken, RunsTellWhatLeft

LEMMA NoneApart == None \notin CallRecords /\ None \notin Receipts /\ None \notin Tokens
  BY ProvidersAssumption, NoneAssumption

-----------------------------------------------------------------------------
(* The kinds of steps: the call c ends with or without a run, goes on, or  *)
(* is new.                                                                 *)

LEMMA CallType ==
  ASSUME ProviderTypeOK, NEW c \in Callers, call[c] # None
  PROVE  call[c] \in CallRecords
  BY DEF ProviderTypeOK

(* c ends, with a run of the given status; spent may grow.                 *)
LEMMA EndsKeeps ==
  ASSUME ProviderInv, NEW c \in Callers, call[c] # None,
         NEW status \in {"completed", "blocked", "unknown"},
         NEW receipt \in Receipts \cup {None}, Ends(c, status, receipt),
         UNCHANGED <<allowlist, edits, lastCall, sent>>,
         spent' \subseteq Tokens, spent \subseteq spent',
         status = "completed" =>
           [call |-> call[c].id, token |-> receipt.token] \in sent,
         status = "blocked" => call[c].at # "reply"
  PROVE  ProviderInv'
  <1> DEFINE run == [id |-> call[c].id, request |-> call[c].request,
                     status |-> status, receipt |-> receipt]
  <1>1. call[c] \in CallRecords
    BY CallType DEF ProviderInv
  <1>2. run \in Runs /\ run.id = call[c].id /\ run.request = call[c].request
          /\ run.status = status /\ run.receipt = receipt
    BY <1>1 DEF Runs, CallRecords
  <1>3. runs' = runs \cup {run} /\ call' = [call EXCEPT ![c] = None]
    BY DEF Ends
  <1> HIDE DEF run
  <1>4. /\ call'[c] = None
        /\ \A d \in Callers : d # c => call'[d] = call[d]
    BY <1>3 DEF ProviderInv, ProviderTypeOK
  <1>5. ProviderTypeOK'
    BY <1>2, <1>3 DEF ProviderInv, ProviderTypeOK
  <1>6. IdsApart'
    BY <1>1, <1>2, <1>3, <1>4 DEF ProviderInv, IdsApart, CallRecords, Calls
  <1>7. Holding'
    BY <1>4 DEF ProviderInv, Holding, Authorized, Verifies
  <1>8. SentByStage'
    BY <1>4 DEF ProviderInv, SentByStage
  <1>9. SentOnItsOwnToken'
    <2>1. \A x \in sent : /\ x.token \in Genuine \cap spent'
                          /\ \A y \in sent : y.token = x.token => y = x
      BY DEF ProviderInv, SentOnItsOwnToken
    <2>2. \A x \in sent : \A r \in runs' : r.id = x.call => BoundTo[x.token] = r.request
      BY <1>2, <1>3 DEF ProviderInv, SentOnItsOwnToken
    <2>3. \A x \in sent : \A d \in Callers : call'[d] # None /\ call'[d].id = x.call =>
            call'[d].token = x.token /\ BoundTo[x.token] = call'[d].request
      BY <1>4 DEF ProviderInv, SentOnItsOwnToken
    <2>4. QED
      BY <2>1, <2>2, <2>3 DEF SentOnItsOwnToken
  <1>10. RunsTellWhatLeft'
    BY <1>2, <1>3 DEF ProviderInv, RunsTellWhatLeft, SentByStage
  <1>11. QED
    BY <1>5, <1>6, <1>7, <1>8, <1>9, <1>10 DEF ProviderInv

(* c goes on to a stage in which nothing is held.                          *)
LEMMA BindKeeps ==
  ASSUME ProviderInv, NEW c \in Callers, At(c, "bind"), GoesTo(c, "authorize"),
         UNCHANGED <<allowlist, edits, lastCall, spent, sent, runs>>
  PROVE  ProviderInv'
  <1> DEFINE next == [call[c] EXCEPT !.at = "authorize"]
  <1>1. call[c] \in CallRecords /\ call[c] # None /\ call[c].at = "bind"
    BY CallType DEF ProviderInv, At
  <1>2. /\ next \in CallRecords /\ next # None /\ next.at = "authorize"
        /\ next.id = call[c].id /\ next.token = call[c].token
        /\ next.request = call[c].request
    BY <1>1, NoneApart DEF CallRecords, Stages
  <1>3. call' = [call EXCEPT ![c] = next]
    BY DEF GoesTo
  <1> HIDE DEF next
  <1>4. /\ call'[c] = next
        /\ \A d \in Callers : d # c => call'[d] = call[d]
    BY <1>3 DEF ProviderInv, ProviderTypeOK
  <1>5. ProviderTypeOK'
    BY <1>2, <1>3 DEF ProviderInv, ProviderTypeOK
  <1>6. IdsApart'
    BY <1>1, <1>2, <1>4 DEF ProviderInv, IdsApart
  <1>7. Holding'
    BY <1>2, <1>4 DEF ProviderInv, Holding, Authorized, Verifies
  <1>8. SentByStage'
    BY <1>1, <1>2, <1>4 DEF ProviderInv, SentByStage
  <1>9. SentOnItsOwnToken'
    BY <1>1, <1>2, <1>4 DEF ProviderInv, SentOnItsOwnToken
  <1>10. RunsTellWhatLeft'
    BY DEF ProviderInv, RunsTellWhatLeft
  <1>11. QED
    BY <1>5, <1>6, <1>7, <1>8, <1>9, <1>10 DEF ProviderInv

(* The broker lets c pass: its token was not used before, so nobody else   *)
(* holds it and nothing was sent on it.                                    *)
LEMMA PassKeeps ==
  ASSUME ProviderInv, NEW c \in Callers, At(c, "authorize"),
         Verifies(call[c].token, call[c].request), call[c].token \notin spent,
         spent' = spent \cup {call[c].token}, GoesTo(c, "transport"),
         UNCHANGED <<allowlist, edits, lastCall, sent, runs>>
  PROVE  ProviderInv'
  <1> DEFINE next == [call[c] EXCEPT !.at = "transport"]
  <1>1. call[c] \in CallRecords /\ call[c] # None /\ call[c].at = "authorize"
    BY CallType DEF ProviderInv, At
  <1>2. /\ next \in CallRecords /\ next # None /\ next.at = "transport"
        /\ next.id = call[c].id /\ next.token = call[c].token
        /\ next.request = call[c].request
    BY <1>1, NoneApart DEF CallRecords, Stages
  <1>3. call' = [call EXCEPT ![c] = next]
    BY DEF GoesTo
  <1> HIDE DEF next
  <1>4. /\ call'[c] = next
        /\ \A d \in Callers : d # c => call'[d] = call[d]
    BY <1>3 DEF ProviderInv, ProviderTypeOK
  <1>5. call[c].token \in Tokens
    BY ProvidersAssumption DEF Verifies
  <1>6. ProviderTypeOK'
    BY <1>2, <1>3, <1>5 DEF ProviderInv, ProviderTypeOK
  <1>7. IdsApart'
    BY <1>1, <1>2, <1>4 DEF ProviderInv, IdsApart
  <1>8. Holding'
    BY <1>2, <1>4 DEF ProviderInv, Holding, Authorized, Verifies
  <1>9. \A x \in sent : x.token # call[c].token
    BY DEF ProviderInv, SentOnItsOwnToken
  <1>10. SentByStage'
    BY <1>1, <1>2, <1>4, <1>9 DEF ProviderInv, SentByStage
  <1>11. SentOnItsOwnToken'
    BY <1>1, <1>2, <1>4 DEF ProviderInv, SentOnItsOwnToken
  <1>12. RunsTellWhatLeft'
    BY DEF ProviderInv, RunsTellWhatLeft
  <1>13. QED
    BY <1>6, <1>7, <1>8, <1>10, <1>11, <1>12 DEF ProviderInv

LEMMA SendKeeps ==
  ASSUME ProviderInv, NEW c \in Callers, Send(c)
  PROVE  ProviderInv'
  <1> DEFINE next == [call[c] EXCEPT !.at = "reply"]
             new == [call |-> call[c].id, token |-> call[c].token]
  <1>1. call[c] \in CallRecords /\ call[c] # None /\ call[c].at = "transport"
    BY CallType DEF ProviderInv, Send, At
  <1>2. /\ next \in CallRecords /\ next # None /\ next.at = "reply"
        /\ next.id = call[c].id /\ next.token = call[c].token
        /\ next.request = call[c].request
    BY <1>1, NoneApart DEF CallRecords, Stages
  <1>3. call' = [call EXCEPT ![c] = next]
    BY DEF Send, GoesTo
  <1>4. /\ Verifies(call[c].token, call[c].request)
        /\ call[c].token \in spent
        /\ call[c].token \in Tokens
    BY <1>1, ProvidersAssumption DEF ProviderInv, Holding, Authorized, Verifies
  <1>5. new \in [call: Calls, token: Tokens] /\ new.call = call[c].id
          /\ new.token = call[c].token
    BY <1>1, <1>4 DEF CallRecords
  <1>6. sent' = sent \cup {new}
    BY DEF Send
  <1>7. /\ UNCHANGED <<allowlist, edits, lastCall, spent, runs>>
        /\ new = [call |-> call[c].id, token |-> call[c].token]
    BY DEF Send
  <1> HIDE DEF next, new
  <1>8. /\ call'[c] = next
        /\ \A d \in Callers : d # c => call'[d] = call[d]
    BY <1>3 DEF ProviderInv, ProviderTypeOK
  <1>9. /\ \A x \in sent : x.call # call[c].id /\ x.token # call[c].token
        /\ \A r \in runs : r.id # call[c].id
        /\ \A d \in Callers : call[d] # None /\ call[d].id = call[c].id => d = c
    BY <1>1 DEF ProviderInv, SentByStage, IdsApart
  <1>10. ProviderTypeOK'
    BY <1>2, <1>3, <1>5, <1>6, <1>7 DEF ProviderInv, ProviderTypeOK
  <1>11. IdsApart'
    BY <1>1, <1>2, <1>5, <1>6, <1>7, <1>8 DEF ProviderInv, IdsApart
  <1>12. Holding'
    BY <1>1, <1>2, <1>7, <1>8 DEF ProviderInv, Holding, Authorized, Verifies
  <1>13. SentByStage'
    <2>1. ASSUME NEW d \in Callers, call'[d] # None, d # c
          PROVE  /\ call'[d].at # "reply" => \A x \in sent' : x.call # call'[d].id
                 /\ call'[d].at = "transport" => \A x \in sent' : x.token # call'[d].token
                 /\ call'[d].at = "reply" =>
                      [call |-> call'[d].id, token |-> call'[d].token] \in sent'
      <3>1. call'[d] = call[d] /\ call[d] # None /\ call[d].id # call[c].id
        BY <1>8, <1>9, <2>1
      <3>2. call[d].at = "transport" => call[d].token # call[c].token
        BY <1>1, <2>1, <3>1 DEF ProviderInv, Holding, Authorized
      <3>3. QED
        BY <1>5, <1>6, <3>1, <3>2 DEF ProviderInv, SentByStage
    <2>2. QED
      BY <1>2, <1>6, <1>7, <1>8, <2>1 DEF SentByStage
  <1>14. SentOnItsOwnToken'
    <2>1. \A x \in sent' : x.token \in Genuine \cap spent'
      BY <1>4, <1>5, <1>6, <1>7 DEF ProviderInv, SentOnItsOwnToken, Verifies
    <2>2. \A x, y \in sent' : y.token = x.token => y = x
      BY <1>5, <1>6, <1>9 DEF ProviderInv, SentOnItsOwnToken
    <2>3. \A x \in sent' : \A r \in runs' : r.id = x.call => BoundTo[x.token] = r.request
      BY <1>5, <1>6, <1>7, <1>9 DEF ProviderInv, SentOnItsOwnToken
    <2>4. \A x \in sent' : \A d \in Callers : call'[d] # None /\ call'[d].id = x.call =>
            call'[d].token = x.token /\ BoundTo[x.token] = call'[d].request
      BY <1>1, <1>2, <1>4, <1>5, <1>6, <1>8, <1>9
         DEF ProviderInv, SentOnItsOwnToken, Verifies
    <2>5. QED
      BY <2>1, <2>2, <2>3, <2>4 DEF SentOnItsOwnToken
  <1>15. RunsTellWhatLeft'
    BY <1>5, <1>6, <1>7, <1>9 DEF ProviderInv, RunsTellWhatLeft
  <1>16. QED
    BY <1>10, <1>11, <1>12, <1>13, <1>14, <1>15 DEF ProviderInv

LEMMA RunKeeps ==
  ASSUME ProviderInv, NEW c \in Callers, NEW q \in Requests, NEW t \in Tokens \cup {None},
         Run(c, q, t)
  PROVE  ProviderInv'
  <1> DEFINE new == [id |-> lastCall + 1, request |-> q, token |-> t, at |-> "bind"]
  <1>1. lastCall \in Nat /\ lastCall < MaxCalls /\ MaxCalls \in Nat /\ lastCall' = lastCall + 1
    BY ProvidersAssumption DEF Run, ProviderInv, ProviderTypeOK
  <1>2. /\ new \in CallRecords /\ new # None /\ new.at = "bind"
        /\ new.id = lastCall + 1
    BY <1>1, NoneApart DEF CallRecords, Stages, Calls
  <1>3. call' = [call EXCEPT ![c] = new] /\ call[c] = None
    BY DEF Run
  <1> HIDE DEF new
  <1>4. /\ call'[c] = new
        /\ \A d \in Callers : d # c => call'[d] = call[d]
        /\ UNCHANGED <<allowlist, edits, spent, sent, runs>>
    BY <1>3 DEF ProviderInv, ProviderTypeOK, Run
  <1>5. /\ \A d \in Callers : call[d] # None => call[d].id \in Nat
        /\ \A r \in runs : r.id \in Nat
        /\ \A x \in sent : x.call \in Nat
    BY DEF ProviderInv, ProviderTypeOK, CallRecords, Runs, Calls
  <1>6. ProviderTypeOK'
    BY <1>1, <1>2, <1>3, <1>4 DEF ProviderInv, ProviderTypeOK
  <1>7. IdsApart'
    BY <1>1, <1>2, <1>4, <1>5 DEF ProviderInv, IdsApart
  <1>8. Holding'
    BY <1>2, <1>4 DEF ProviderInv, Holding, Authorized, Verifies
  <1>9. \A x \in sent : x.call # new.id
    BY <1>1, <1>2, <1>5 DEF ProviderInv, IdsApart
  <1>10. SentByStage'
    BY <1>2, <1>4, <1>9 DEF ProviderInv, SentByStage
  <1>11. SentOnItsOwnToken'
    BY <1>2, <1>4, <1>9 DEF ProviderInv, SentOnItsOwnToken
  <1>12. RunsTellWhatLeft'
    BY <1>4 DEF ProviderInv, RunsTellWhatLeft
  <1>13. QED
    BY <1>6, <1>7, <1>8, <1>10, <1>11, <1>12 DEF ProviderInv

LEMMA DieKeeps ==
  ASSUME ProviderInv, NEW c \in Callers, Die(c)
  PROVE  ProviderInv'
  <1>1. /\ call'[c] = None
        /\ \A d \in Callers : d # c => call'[d] = call[d]
        /\ UNCHANGED <<allowlist, edits, lastCall, spent, sent, runs>>
    BY DEF ProviderInv, ProviderTypeOK, Die
  <1>2. ProviderTypeOK'
    BY <1>1 DEF ProviderInv, ProviderTypeOK, Die
  <1>3. IdsApart' /\ Holding' /\ SentByStage'
    BY <1>1 DEF ProviderInv, IdsApart, Holding, Authorized, Verifies, SentByStage
  <1>4. SentOnItsOwnToken' /\ RunsTellWhatLeft'
    BY <1>1 DEF ProviderInv, SentOnItsOwnToken, RunsTellWhatLeft
  <1>5. QED
    BY <1>2, <1>3, <1>4 DEF ProviderInv

(* What the calls do not see: the allowlist and the number of edits.       *)
LEMMA EditKeeps ==
  ASSUME ProviderInv, allowlist' \in [Providers -> Entries], edits' \in 0..MaxEdits,
         UNCHANGED <<lastCall, call, spent, sent, runs>>
  PROVE  ProviderInv'
  BY DEF ProviderInv, ProviderTypeOK, IdsApart, Holding, Authorized, Verifies, SentByStage,
         SentOnItsOwnToken, RunsTellWhatLeft

(* Each step keeps the invariant.                                          *)
LEMMA ProviderStep == ProviderInv /\ ProviderNext => ProviderInv'
  <1> SUFFICES ASSUME ProviderInv, ProviderNext PROVE ProviderInv'
    OBVIOUS
  <1>1. ASSUME NEW p \in Providers, NEW entry \in Entries, EditAllowlist(p, entry)
        PROVE  ProviderInv'
    <2>1. allowlist' \in [Providers -> Entries] /\ edits' \in 0..MaxEdits
      BY <1>1, ProvidersAssumption DEF EditAllowlist, ProviderInv, ProviderTypeOK
    <2>2. QED
      BY <1>1, <2>1, EditKeeps DEF EditAllowlist
  <1>2. ASSUME NEW c \in Callers, Bind(c) PROVE ProviderInv'
    <2>1. CASE GoesTo(c, "authorize") /\ UNCHANGED runs
      BY <1>2, <2>1, BindKeeps DEF Bind
    <2>2. CASE Ends(c, "blocked", None)
      BY <1>2, <2>2, EndsKeeps DEF Bind, At, ProviderInv, ProviderTypeOK
    <2>3. QED
      BY <1>2, <2>1, <2>2 DEF Bind
  <1>3. \A t \in Tokens \cup {None} : /\ Receipt("deny", t) \in Receipts
                                      /\ Receipt("allow", t) \in Receipts
                                      /\ Receipt("allow", t).token = t
    BY DEF Receipt, Receipts
  <1>4. ASSUME NEW c \in Callers, DenyUnverified(c) PROVE ProviderInv'
    BY <1>3, <1>4, EndsKeeps DEF DenyUnverified, At, ProviderInv, ProviderTypeOK
  <1>5. ASSUME NEW c \in Callers, call[c] # None PROVE call[c].token \in Tokens \cup {None}
    BY <1>5, CallType DEF ProviderInv, CallRecords
  <1>6. ASSUME NEW c \in Callers, DenySpent(c) PROVE ProviderInv'
    BY <1>3, <1>5, <1>6, EndsKeeps DEF DenySpent, At, ProviderInv, ProviderTypeOK
  <1>7. ASSUME NEW t, NEW q, Verifies(t, q) PROVE t \in Tokens
    BY <1>7, ProvidersAssumption DEF Verifies
  <1>8. ASSUME NEW c \in Callers, Consume(c) PROVE ProviderInv'
    <2>1. CASE GoesTo(c, "transport") /\ UNCHANGED runs
      BY <1>8, <2>1, PassKeeps DEF Consume
    <2>2. CASE Ends(c, "blocked", Receipt("deny", call[c].token))
      <3>1. call[c].token \in Tokens
        BY <1>7, <1>8 DEF Consume
      <3>2. QED
        BY <1>3, <1>8, <2>2, <3>1, EndsKeeps DEF Consume, At, ProviderInv, ProviderTypeOK
    <2>3. QED
      BY <1>8, <2>1, <2>2 DEF Consume
  <1>9. ASSUME NEW c \in Callers, LedgerFails(c) PROVE ProviderInv'
    <2>1. call[c].token \in Tokens
      BY <1>7, <1>9 DEF LedgerFails
    <2>2. QED
      BY <1>9, <2>1, EndsKeeps DEF LedgerFails, At, ProviderInv, ProviderTypeOK
  <1>10. ASSUME NEW c \in Callers, Outage(c) PROVE ProviderInv'
    BY <1>3, <1>5, <1>10, EndsKeeps DEF Outage, At, ProviderInv, ProviderTypeOK
  <1>11. ASSUME NEW c \in Callers, Answer(c) PROVE ProviderInv'
    <2>1. call[c] # None /\ [call |-> call[c].id, token |-> call[c].token] \in sent
      BY <1>11 DEF Answer, At, ProviderInv, SentByStage
    <2>2. QED
      BY <1>3, <1>5, <1>11, <2>1, EndsKeeps DEF Answer, ProviderInv, ProviderTypeOK
  <1>12. QED
    BY <1>1, <1>2, <1>4, <1>6, <1>8, <1>9, <1>10, <1>11, SendKeeps, RunKeeps, DieKeeps
       DEF ProviderNext

(* Each step burns a token, sends on a burnt one nothing was sent on, or   *)
(* leaves both alone.                                                      *)
LEMMA TicketStep ==
  ASSUME ProviderInv, ProviderNext
  PROVE  Tickets!Next \/ UNCHANGED <<spent, sent>>
  <1>1. ASSUME NEW c \in Callers, NEW t \in Tokens, t \notin spent,
               spent' = spent \cup {t}, UNCHANGED sent
        PROVE  Tickets!Next
    BY <1>1 DEF Tickets!Next, Tickets!Burn
  <1>2. ASSUME NEW c \in Callers, Consume(c) PROVE Tickets!Next
    BY <1>1, <1>2, ProvidersAssumption DEF Consume, Verifies
  <1>3. ASSUME NEW c \in Callers, LedgerFails(c)
        PROVE  Tickets!Next \/ UNCHANGED <<spent, sent>>
    BY <1>1, <1>3, ProvidersAssumption DEF LedgerFails, Verifies
  <1>4. ASSUME NEW c \in Callers, Send(c) PROVE Tickets!Next
    <2>1. call[c] \in CallRecords /\ call[c] # None /\ call[c].at = "transport"
      BY <1>4, CallType DEF ProviderInv, Send, At
    <2>2. /\ call[c].token \in spent /\ call[c].token \in Tokens /\ call[c].id \in Calls
          /\ \A x \in sent : x.token # call[c].token
      BY <2>1, ProvidersAssumption
         DEF ProviderInv, Holding, Authorized, Verifies, SentByStage, CallRecords
    <2>3. Tickets!Launch(call[c].id, call[c].token)
      BY <1>4, <2>2 DEF Send, Tickets!Launch
    <2>4. QED
      BY <2>2, <2>3 DEF Tickets!Next
  <1>5. QED
    BY <1>2, <1>3, <1>4
       DEF ProviderNext, EditAllowlist, Run, Bind, DenyUnverified, DenySpent, Outage, Answer, Die

-----------------------------------------------------------------------------
(* The reports and pilots.                                                 *)

PilotRecords ==
  [session: Sessions, profile: Profiles, report: KnownReports,
   evidence: (Packages \X Registries) \cup {None}, status: PilotStatus, runs: SUBSET KnownRuns]

ReportsTyped == \A report \in reports : report.at \in Times /\ DOMAIN report.gates = Gates

(* Runs are attached on completion only.                                   *)
ReadyHaveNoRuns == \A pilot \in KnownPilots : pilot.status = "ready" => pilot.runs = {}

PilotInv == /\ disk \in Bundles
            /\ ReportsTyped
            /\ pilots \subseteq PilotRecords
            /\ ReadyHaveNoRuns
            /\ CompletedPilotsRest

(* A run that counts towards the pilot, since an allowlist of seen named   *)
(* its provider.                                                           *)
ListedWhile(pilot, r, seen) ==
  \E a \in seen : /\ a[Analyzer[r.request]] # "refused"
                  /\ pilot.profile = "canary" => a[Analyzer[r.request]] = "qualified"

Counts(c, r) == /\ Session[r.request] = c.pilot.session
                /\ r.status = "completed"
                /\ ListedWhile(c.pilot, r, c.seen)

CompletionRecords ==
  [pilot: KnownPilots, runs: SUBSET KnownRuns, left: SUBSET KnownRuns,
   verified: KnownRuns \cup {None}, seen: SUBSET [Providers -> Entries]]

(* What the call under way has found out so far.                           *)
CompletionSound(c) == /\ c.pilot.status = "ready"
                      /\ c.runs # {}
                      /\ c.left \subseteq c.runs
                      /\ c.verified \in c.left \cup {None}
                      /\ \A r \in c.runs \ c.left : Counts(c, r)

CompletionInv == completing # None => /\ completing \in CompletionRecords
                                      /\ CompletionSound(completing)
                                      /\ allowlist \in completing.seen

Inv == ProviderInv /\ PilotInv /\ CompletionInv

LEMMA OthersTyped == OtherPilots \subseteq PilotRecords
  BY OthersAssumption DEF PilotRecords, KnownReports, KnownRuns

LEMMA InitInv == Init => Inv
  <1> SUFFICES ASSUME Init PROVE Inv
    OBVIOUS
  <1>1. ProviderInv
    BY ProviderInitInv DEF Init
  <1>2. PilotInv
    BY OthersAssumption
       DEF Init, PilotInv, ReportsTyped, ReadyHaveNoRuns, KnownPilots, CompletedPilotsRest
  <1>3. QED
    BY <1>1, <1>2 DEF Init, Inv, CompletionInv

(* Runs and transmissions are never taken back.                            *)
LEMMA ProviderGrows ==
  ASSUME ProviderNext
  PROVE  runs \subseteq runs' /\ sent \subseteq sent'
  BY DEF ProviderNext, EditAllowlist, Run, Bind, DenyUnverified, DenySpent, Consume, LedgerFails,
         Send, Outage, Answer, Die, Ends, GoesTo

(* What the pilots see of the providers only grows.                        *)
LEMMA PilotsKept ==
  ASSUME PilotInv, ProviderTypeOK', runs \subseteq runs', sent \subseteq sent', disk' \in Bundles,
         UNCHANGED <<reports, pilots>>
  PROVE  PilotInv'
  <1>1. pilots' \subseteq PilotRecords'
    BY DEF PilotInv, PilotRecords, KnownReports, KnownRuns
  <1>2. \A pilot \in pilots : \A r \in pilot.runs : r \in runs' => r \in runs
    <2> SUFFICES ASSUME NEW pilot \in pilots, NEW r \in pilot.runs, r \in runs', r \in OtherRuns
                 PROVE  FALSE
      BY DEF PilotInv, PilotRecords, KnownRuns
    <2>1. r.id = None
      BY OthersAssumption
    <2>2. r.id \in Calls
      BY DEF ProviderTypeOK, Runs
    <2>3. QED
      BY <2>1, <2>2, OthersAssumption
  <1>3. CompletedPilotsRest'
    BY <1>2 DEF PilotInv, CompletedPilotsRest, KnownPilots, WasSent
  <1>4. QED
    BY <1>1, <1>3 DEF PilotInv, ReportsTyped, ReadyHaveNoRuns, KnownPilots

LEMMA ReportType ==
  ASSUME NEW e, NEW registry, NEW direct, NEW scope, NEW at
  PROVE  LET report == ReportNow(e, registry, direct, scope, at)
         IN /\ report.at = at
            /\ DOMAIN report.gates = Gates
            /\ report.bindings = Bindings(e, registry)
  BY DEF ReportNow, ReportOn

LEMMA EvaluateKeeps ==
  ASSUME PilotInv, NEW e, NEW registry, NEW direct, NEW scope, NEW at \in Times,
         Evaluate(e, registry, direct, scope, at)
  PROVE  PilotInv'
  <1> DEFINE report == ReportNow(e, registry, direct, scope, at)
  <1>1. report.at \in Times /\ DOMAIN report.gates = Gates
    BY ReportType
  <1>2. reports' = reports \cup {report} /\ UNCHANGED <<runs, sent, disk, pilots>>
    BY DEF Evaluate, providerVars
  <1> HIDE DEF report
  <1>3. ReportsTyped'
    BY <1>1, <1>2 DEF PilotInv, ReportsTyped
  <1>4. pilots' \subseteq PilotRecords'
    BY <1>2 DEF PilotInv, PilotRecords, KnownReports, KnownRuns
  <1>5. CompletedPilotsRest'
    BY <1>2 DEF PilotInv, CompletedPilotsRest, KnownPilots, WasSent
  <1>6. QED
    BY <1>2, <1>3, <1>4, <1>5 DEF PilotInv, ReadyHaveNoRuns, KnownPilots

(* A revision that is new, is no completion, and has no runs if it is ready. *)
LEMMA RevisionKeeps ==
  ASSUME PilotInv, NEW pilot \in PilotRecords, Adds(pilot),
         pilot.status # "complete", pilot.status = "ready" => pilot.runs = {},
         UNCHANGED <<providerVars, disk, reports>>
  PROVE  PilotInv' /\ pilots \subseteq pilots'
  <1>1. pilots' = pilots \cup {pilot} /\ UNCHANGED <<runs, sent, disk, reports>>
    BY DEF Adds, providerVars
  <1>2. pilots' \subseteq PilotRecords'
    BY <1>1 DEF PilotInv, PilotRecords, KnownReports, KnownRuns
  <1>3. CompletedPilotsRest'
    BY <1>1 DEF PilotInv, CompletedPilotsRest, KnownPilots, WasSent
  <1>4. QED
    BY <1>1, <1>2, <1>3 DEF PilotInv, ReportsTyped, ReadyHaveNoRuns, KnownPilots

LEMMA PreparedType ==
  ASSUME NEW s \in Sessions, NEW profile \in Profiles, NEW report \in KnownReports,
         NEW drills \in BOOLEAN, NEW evidence \in (Packages \X Registries) \cup {None}
  PROVE  LET pilot == Prepared(s, profile, report, drills, evidence)
         IN /\ pilot \in PilotRecords
            /\ pilot.status # "complete"
            /\ pilot.runs = {}
  BY DEF Prepared, PilotRecords, PilotStatus

LEMMA RollbackKeeps ==
  ASSUME PilotInv, NEW pilot \in KnownPilots, Rollback(pilot)
  PROVE  PilotInv' /\ pilots \subseteq pilots'
  <1> DEFINE next == [pilot EXCEPT !.status = "rollback"]
  <1>1. pilot \in PilotRecords
    BY OthersTyped DEF PilotInv, KnownPilots
  <1>2. next \in PilotRecords /\ next.status = "rollback"
    BY <1>1 DEF PilotRecords, PilotStatus
  <1>3. QED
    BY <1>2, RevisionKeeps DEF Rollback

(* A completed run went out on a token for its request.                    *)
LEMMA CompletedWasSent ==
  ASSUME ProviderInv, NEW r \in runs, r.status = "completed"
  PROVE  WasSent(r)
  <1> DEFINE x == [call |-> r.id, token |-> r.receipt.token]
  <1>1. x \in sent /\ x.call = r.id
    BY DEF ProviderInv, RunsTellWhatLeft
  <1>2. BoundTo[x.token] = r.request
    BY <1>1 DEF ProviderInv, SentOnItsOwnToken
  <1>3. QED
    BY <1>1, <1>2 DEF WasSent

LEMMA CompleteKeeps ==
  ASSUME ProviderInv, PilotInv, CompletionInv, Complete
  PROVE  PilotInv'
  <1> DEFINE pilot == completing.pilot
             rs == completing.runs
             next == [pilot EXCEPT !.status = "complete", !.runs = rs]
  <1>1. /\ completing \in CompletionRecords /\ CompletionSound(completing)
        /\ completing.left = {}
    BY DEF Complete, CompletionInv
  <1>2. pilot \in KnownPilots /\ pilot.status = "ready" /\ pilot.runs = {} /\ rs \subseteq KnownRuns
    BY <1>1 DEF CompletionRecords, CompletionSound, PilotInv, ReadyHaveNoRuns
  <1>3. pilot \in PilotRecords
    BY <1>2, OthersTyped DEF PilotInv, KnownPilots
  <1>4. /\ next \in PilotRecords
        /\ next.status = "complete" /\ next.runs = rs /\ next.session = pilot.session
        /\ [next EXCEPT !.status = "ready", !.runs = {}] = pilot
    BY <1>2, <1>3 DEF PilotRecords, PilotStatus
  <1>5. pilots' = pilots \cup {next} /\ UNCHANGED <<runs, sent, disk, reports>>
    BY DEF Complete, Adds, providerVars
  <1>6. /\ rs # {}
        /\ \A r \in rs : Session[r.request] = pilot.session /\ r.status = "completed"
    BY <1>1 DEF CompletionSound, Counts
  <1> HIDE DEF next, pilot, rs
  <1>7. \A r \in next.runs : Session[r.request] = next.session /\ (r \in runs => WasSent(r))
    BY <1>4, <1>6, CompletedWasSent
  <1>8. CompletedPilotsRest'
    <2>1. \A p \in pilots' : p = next \/ p \in pilots
      BY <1>5
    <2>2. KnownPilots \subseteq KnownPilots' /\ pilot \in KnownPilots'
      BY <1>2, <1>5 DEF KnownPilots
    <2>3. \A r : WasSent(r) => WasSent(r)'
      BY <1>5 DEF WasSent
    <2>4. QED
      BY <1>4, <1>5, <1>6, <1>7, <2>1, <2>2, <2>3 DEF PilotInv, CompletedPilotsRest
  <1>9. pilots' \subseteq PilotRecords'
    BY <1>4, <1>5 DEF PilotInv, PilotRecords, KnownReports, KnownRuns
  <1>10. QED
    BY <1>4, <1>5, <1>8, <1>9 DEF PilotInv, ReportsTyped, ReadyHaveNoRuns, KnownPilots

-----------------------------------------------------------------------------
(* The completion under way.                                               *)

(* It may watch the allowlist change, and more documents come up.          *)
LEMMA CompletionKept ==
  ASSUME CompletionInv, Watching, allowlist' \in [Providers -> Entries],
         runs \subseteq runs', reports \subseteq reports', pilots \subseteq pilots'
  PROVE  CompletionInv'
  <1> SUFFICES ASSUME completing # None
               PROVE  /\ completing' \in CompletionRecords'
                      /\ CompletionSound(completing')
                      /\ allowlist' \in completing'.seen
    BY DEF CompletionInv, Watching, CompletionSound, Counts, ListedWhile
  <1> DEFINE next == [completing EXCEPT !.seen = @ \cup {allowlist'}]
  <1>1. completing \in CompletionRecords /\ CompletionSound(completing)
    BY DEF CompletionInv
  <1>2. /\ next.pilot = completing.pilot /\ next.runs = completing.runs
        /\ next.left = completing.left /\ next.verified = completing.verified
        /\ next.seen = completing.seen \cup {allowlist'}
    BY <1>1 DEF CompletionRecords
  <1>3. next \in CompletionRecords'
    BY <1>1, <1>2 DEF CompletionRecords, KnownPilots, KnownRuns
  <1>4. completing' = next
    BY DEF Watching
  <1> HIDE DEF next
  <1>5. CompletionSound(next)
    BY <1>1, <1>2 DEF CompletionSound, Counts, ListedWhile
  <1>6. QED
    BY <1>2, <1>3, <1>4, <1>5

(* A step that does not touch the allowlist need not be watched.           *)
LEMMA CompletionUntouched ==
  ASSUME CompletionInv, UNCHANGED <<completing, allowlist>>,
         runs \subseteq runs', reports \subseteq reports', pilots \subseteq pilots'
  PROVE  CompletionInv'
  <1>1. completing # None => completing' \in CompletionRecords'
    BY DEF CompletionInv, CompletionRecords, KnownPilots, KnownRuns
  <1>2. QED
    BY <1>1 DEF CompletionInv, CompletionSound, Counts, ListedWhile

LEMMA BeginKeeps ==
  ASSUME ProviderTypeOK, NEW pilot \in KnownPilots, NEW rs \in SUBSET KnownRuns,
         BeginCompletion(pilot, rs)
  PROVE  CompletionInv'
  <1> DEFINE next == [pilot |-> pilot, runs |-> rs, left |-> rs, verified |-> None,
                      seen |-> {allowlist}]
  <1>1. next \in CompletionRecords /\ CompletionSound(next) /\ allowlist \in next.seen
    BY DEF BeginCompletion, ProviderTypeOK, CompletionRecords, CompletionSound
  <1>2. completing' = next /\ UNCHANGED <<allowlist, runs, reports, pilots>>
    BY DEF BeginCompletion, providerVars
  <1> HIDE DEF next
  <1>3. CompletionRecords' = CompletionRecords
    BY <1>2 DEF CompletionRecords, KnownPilots, KnownRuns
  <1>4. QED
    BY <1>1, <1>2, <1>3 DEF CompletionInv

(* verify_provider_run found nothing wrong with the run r.                 *)
LEMMA VerifyKeeps ==
  ASSUME CompletionInv, NEW r \in KnownRuns, VerifyRun(r)
  PROVE  CompletionInv'
  <1> DEFINE next == [completing EXCEPT !.verified = r]
  <1>1. /\ completing \in CompletionRecords /\ CompletionSound(completing)
        /\ allowlist \in completing.seen /\ r \in completing.left
    BY DEF VerifyRun, CompletionInv
  <1>2. /\ next \in CompletionRecords /\ CompletionSound(next) /\ allowlist \in next.seen
    BY <1>1 DEF CompletionRecords, CompletionSound, Counts, ListedWhile
  <1>3. completing' = next /\ UNCHANGED <<allowlist, runs, reports, pilots>>
    BY DEF VerifyRun, providerVars
  <1> HIDE DEF next
  <1>4. CompletionRecords' = CompletionRecords
    BY <1>3 DEF CompletionRecords, KnownPilots, KnownRuns
  <1>5. QED
    BY <1>2, <1>3, <1>4 DEF CompletionInv

LEMMA CountKeeps ==
  ASSUME CompletionInv, CountRun
  PROVE  CompletionInv'
  <1> DEFINE r == completing.verified
             next == [completing EXCEPT !.left = @ \ {r}, !.verified = None]
  <1>1. /\ completing \in CompletionRecords /\ CompletionSound(completing)
        /\ allowlist \in completing.seen /\ RunServes(completing.pilot, r)
    BY DEF CountRun, CompletionInv
  <1>2. /\ next.pilot = completing.pilot /\ next.runs = completing.runs
        /\ next.left = completing.left \ {r} /\ next.verified = None
        /\ next.seen = completing.seen
    BY <1>1 DEF CompletionRecords
  <1>3. Counts(next, r)
    BY <1>1, <1>2 DEF RunServes, Counts, ListedWhile, Allowed
  <1>4. completing' = next /\ UNCHANGED <<allowlist, runs, reports, pilots>>
    BY DEF CountRun, providerVars
  <1>5. next \in CompletionRecords
    BY <1>1 DEF CompletionRecords
  <1>6. \A x \in next.runs \ next.left : x = r \/ Counts(completing, x)
    BY <1>1, <1>2 DEF CompletionSound
  <1> HIDE DEF next, r
  <1>7. \A x : Counts(completing, x) => Counts(next, x)
    BY <1>2 DEF Counts, ListedWhile
  <1>8. CompletionSound(next)
    BY <1>1, <1>2, <1>3, <1>6, <1>7 DEF CompletionSound
  <1>9. CompletionRecords' = CompletionRecords
    BY <1>4 DEF CompletionRecords, KnownPilots, KnownRuns
  <1>10. QED
    BY <1>1, <1>2, <1>4, <1>5, <1>8, <1>9 DEF CompletionInv

LEMMA NextKeeps == Inv /\ [Next]_vars => Inv'
  <1> SUFFICES ASSUME Inv, [Next]_vars PROVE Inv'
    OBVIOUS
  <1> USE DEF Inv
  <1>1. CASE UNCHANGED vars
    <2>1. UNCHANGED providerVars /\ UNCHANGED <<disk, reports, pilots, completing>>
      BY <1>1 DEF vars, releaseVars
    <2>2. ProviderInv'
      BY <2>1, EditKeeps DEF providerVars, ProviderInv, ProviderTypeOK
    <2>3. PilotInv'
      BY <2>1, <2>2, PilotsKept DEF providerVars, PilotInv, ProviderInv
    <2>4. CompletionInv'
      BY <2>1, CompletionUntouched DEF providerVars
    <2>5. QED
      BY <2>2, <2>3, <2>4
  <1>2. CASE ProviderNext /\ Watching /\ UNCHANGED <<disk, reports, pilots>>
    <2>1. ProviderInv'
      BY <1>2, ProviderStep
    <2>2. PilotInv'
      BY <1>2, <2>1, ProviderGrows, PilotsKept DEF PilotInv, ProviderInv
    <2>3. CompletionInv'
      BY <1>2, <2>1, ProviderGrows, CompletionKept DEF ProviderInv, ProviderTypeOK
    <2>4. QED
      BY <2>1, <2>2, <2>3
  <1>3. ASSUME NEW b \in Bundles, EditBundle(b) PROVE Inv'
    <2>1. allowlist' \in [Providers -> Entries] /\ edits' \in 0..MaxEdits
      BY <1>3, ProvidersAssumption DEF EditBundle, ProviderInv, ProviderTypeOK
    <2>2. ProviderInv'
      BY <1>3, <2>1, EditKeeps DEF EditBundle
    <2>3. PilotInv'
      BY <1>3, <2>2, PilotsKept DEF EditBundle, ProviderInv
    <2>4. CompletionInv'
      BY <1>3, CompletionUntouched DEF EditBundle
    <2>5. QED
      BY <2>2, <2>3, <2>4
  <1>4. ASSUME UNCHANGED providerVars PROVE ProviderInv'
    BY <1>4, EditKeeps DEF providerVars, ProviderInv, ProviderTypeOK
  <1>5. ASSUME UNCHANGED <<providerVars, completing>>, reports \subseteq reports',
               pilots \subseteq pilots', PilotInv'
        PROVE  Inv'
    BY <1>4, <1>5, CompletionUntouched DEF providerVars
  <1>6. ASSUME NEW e \in Packages, NEW registry \in Registries \cup {Absent},
               NEW direct \in DirectKeys \cup {NoKeys}, NEW scope \in Bundles, NEW at \in Times,
               Evaluate(e, registry, direct, scope, at)
        PROVE  Inv'
    BY <1>5, <1>6, EvaluateKeeps DEF Evaluate
  <1>7. ASSUME NEW report \in KnownReports, NEW s \in Sessions, NEW drills \in BOOLEAN,
               PrepareShadow(s, report, drills)
        PROVE  Inv'
    <2> DEFINE pilot == Prepared(s, "shadow", report, drills, None)
    <2>1. pilot \in PilotRecords /\ pilot.status # "complete" /\ pilot.runs = {}
      BY PreparedType DEF Profiles
    <2>2. /\ Adds(pilot) /\ UNCHANGED <<providerVars, disk, reports, completing>>
      BY <1>7 DEF PrepareShadow
    <2> HIDE DEF pilot
    <2>3. QED
      BY <1>5, <2>1, <2>2, RevisionKeeps
  <1>8. ASSUME NEW report \in KnownReports, NEW s \in Sessions, NEW drills \in BOOLEAN,
               NEW e \in Packages, NEW registry \in Registries \cup {Absent},
               NEW scope \in Bundles,
               PrepareCanary(s, report, drills, e, registry, scope)
        PROVE  Inv'
    <2> DEFINE pilot == Prepared(s, "canary", report, drills, <<e, registry>>)
    <2>1. <<e, registry>> \in Packages \X Registries
      BY <1>8 DEF PrepareCanary
    <2>2. pilot \in PilotRecords /\ pilot.status # "complete" /\ pilot.runs = {}
      BY <2>1, PreparedType DEF Profiles
    <2>3. /\ Adds(pilot) /\ UNCHANGED <<providerVars, disk, reports, completing>>
      BY <1>8 DEF PrepareCanary
    <2> HIDE DEF pilot
    <2>4. QED
      BY <1>5, <2>2, <2>3, RevisionKeeps
  <1>9. ASSUME NEW pilot \in KnownPilots, Rollback(pilot) PROVE Inv'
    BY <1>5, <1>9, RollbackKeeps DEF Rollback
  <1>10. ASSUME UNCHANGED <<providerVars, disk, reports, pilots>>, CompletionInv' PROVE Inv'
    <2>1. ProviderInv'
      BY <1>4, <1>10
    <2>2. PilotInv'
      BY <1>10, <2>1, PilotsKept DEF providerVars, PilotInv, ProviderInv
    <2>3. QED
      BY <1>10, <2>1, <2>2
  <1>11. ASSUME NEW pilot \in KnownPilots, NEW rs \in SUBSET KnownRuns, BeginCompletion(pilot, rs)
         PROVE  Inv'
    BY <1>10, <1>11, BeginKeeps DEF BeginCompletion, ProviderInv
  <1>12. ASSUME NEW r \in KnownRuns, VerifyRun(r) PROVE Inv'
    BY <1>10, <1>12, VerifyKeeps DEF VerifyRun
  <1>13. CASE CountRun
    BY <1>10, <1>13, CountKeeps DEF CountRun
  <1>14. CASE Complete
    BY <1>4, <1>14, CompleteKeeps DEF Complete, CompletionInv
  <1>15. CASE Abandon
    BY <1>10, <1>15 DEF Abandon, CompletionInv
  <1>16. CASE PilotNext
    BY <1>7, <1>8, <1>9, <1>11, <1>12, <1>13, <1>14, <1>15, <1>16 DEF PilotNext
  <1>17. QED
    BY <1>1, <1>2, <1>3, <1>6, <1>16 DEF Next

(* Whatever is edited, fails or dies meanwhile: the types are kept         *)
(* (evaluation.py, pilot.py and providers.py build their documents of      *)
(* checked fields).                                                        *)
THEOREM TypeCorrect == Spec => []TypeOK
  <1>1. Inv => TypeOK
    BY OthersTyped DEF Inv, ProviderInv, PilotInv, ReportsTyped, PilotRecords, PilotTyped, TypeOK,
                    CompletionInv, CompletionRecords, CompletionSound
  <1>2. QED
    BY InitInv, NextKeeps, <1>1, PTL DEF Spec

(* What a provider run says of the transmission is true, for any number of *)
(* callers and whatever fails around the adapter (providers.py, run).      *)
THEOREM RunsAlwaysTell == Spec => []RunsTellWhatLeft
  <1>1. Inv => RunsTellWhatLeft
    BY DEF Inv, ProviderInv
  <1>2. QED
    BY InitInv, NextKeeps, <1>1, PTL DEF Spec

(* Nothing leaves without a genuine token of its own, for that request     *)
(* (tool_broker.py, evaluate).                                             *)
THEOREM AlwaysOnItsOwnToken == Spec => []SentOnItsOwnToken
  <1>1. Inv => SentOnItsOwnToken
    BY DEF Inv, ProviderInv
  <1>2. QED
    BY InitInv, NextKeeps, <1>1, PTL DEF Spec

(* A completed pilot rests on a ready revision and on runs of its session, *)
(* of which those the adapter made reached the provider, whatever other    *)
(* reports, pilots and runs are handed in (pilot.py, complete_pilot).      *)
THEOREM CompletedAlwaysRest == Spec => []CompletedPilotsRest
  <1>1. Inv => CompletedPilotsRest
    BY DEF Inv, PilotInv
  <1>2. QED
    BY InitInv, NextKeeps, <1>1, PTL DEF Spec

(* Adapter, broker and ledger implement the single use of tokens.          *)
THEOREM SingleUseImplemented == Spec => ImplementsSingleUse
  <1>1. Init => Tickets!Init
    BY DEF Init, ProviderInit, Tickets!Init
  <1>2. Inv /\ [Next]_vars => [Tickets!Next]_Tickets!vars
    <2> SUFFICES ASSUME Inv, [Next]_vars
                 PROVE  Tickets!Next \/ UNCHANGED <<spent, sent>>
      BY DEF Tickets!vars
    <2>1. CASE ProviderNext
      BY <2>1, TicketStep DEF Inv
    <2>2. CASE ~ProviderNext
      BY <2>2 DEF Next, PilotNext, EditBundle, Evaluate, PrepareShadow, PrepareCanary, Rollback,
                  BeginCompletion, VerifyRun, CountRun, Complete, Abandon, vars, providerVars
    <2>3. QED
      BY <2>1, <2>2
  <1>3. QED
    BY InitInv, NextKeeps, <1>1, <1>2, PTL DEF Spec, ImplementsSingleUse, Tickets!Spec

-----------------------------------------------------------------------------
(* Evidence with which all gates pass.                                     *)

LEMMA Rules ==
  /\ {"RG00", "RG09", "RG13"} \subseteq Gates
  /\ "mutation_rejection_rate" \in DOMAIN ReleaseRules["RG00"]
  /\ "hard_stop_p99_seconds" \in DOMAIN ReleaseRules["RG09"]
  /\ "mutation_rejection_rate" \notin SupplyChainMetrics
  /\ "hard_stop_p99_seconds" \notin SupplyChainMetrics
  /\ SupplyChainMetrics = {"signed_release", "provenance_verified", "canonical_sbom",
                           "dependencies_locked", "critical_exploitable_cve_count"}
  /\ ReleaseRules["RG13"]["signed_release"] = Exactly(1)
  /\ ReleaseRules["RG13"]["dependencies_locked"] = Exactly(1)
  BY DEF Gates, ReleaseRules, SupplyChainMetrics, AtLeast, AtMost, Below, Exactly

(* A gate that passes misses no metric and has none that fails.            *)
LEMMA PassingGate ==
  ASSUME NEW g \in Gates, NEW metrics, Gate(g, metrics) = "pass"
  PROVE  \A m \in DOMAIN ReleaseRules[g] :
           m \in DOMAIN metrics /\ Satisfies(metrics[m], ReleaseRules[g][m])
  <1>1. Failed(g, metrics) = {} /\ Missing(g, metrics) = {}
    BY DEF Gate
  <1>2. QED
    BY <1>1 DEF Failed, Missing

(* What has been verified when a part of the evidence gives metrics.       *)
QualificationDone(e, keys, scope, allowed) ==
  /\ \A kind \in {"manifest", "receipt", "qualification"} : Readable(e, kind)
  /\ QualificationVerifies(e, keys, scope, allowed, DeclaredMetrics)

HostDone(e, keys, scope) ==
  /\ \A kind \in {"hostRun", "hostAttestation"} : Readable(e, kind)
  /\ HostVerifies(e, keys, scope)

SupplyDone(e, keys, scope, at, b) ==
  /\ \A kind \in SupplyKinds : Readable(e, kind)
  /\ \A role \in SigningRoles : keys[role] # NoKey
  /\ SupplyChainVerifies(e, keys, scope, at, b)

LEMMA QualificationGives ==
  ASSUME NEW e, NEW keys, NEW scope, NEW allowed,
         NEW m \in DOMAIN QualificationPart(e, keys, scope, allowed)
  PROVE  /\ QualificationDone(e, keys, scope, allowed)
         /\ m # "hard_stop_p99_seconds"
         /\ m \in DOMAIN e.qualification.measurements
         /\ QualificationPart(e, keys, scope, allowed)[m] = e.qualification.measurements[m].value
  BY DEF QualificationPart, QualificationDone, Readable, There, Ill

LEMMA HostGives ==
  ASSUME NEW e, NEW keys, NEW scope, NEW m \in DOMAIN HostPart(e, keys, scope)
  PROVE  /\ HostDone(e, keys, scope)
         /\ m = "hard_stop_p99_seconds"
         /\ HostPart(e, keys, scope)[m] = e.hostRun.value
  BY DEF HostPart, HostDone

LEMMA SupplyGives ==
  ASSUME NEW e, NEW keys, NEW scope, NEW at, NEW b,
         NEW m \in DOMAIN SupplyPart(e, keys, scope, at, b)
  PROVE  m \in SupplyChainMetrics
  BY Rules DEF SupplyPart

(* A release that counts as signed has passed all checks of its supply     *)
(* chain.                                                                  *)
LEMMA SignedMeansDone ==
  ASSUME NEW e, NEW keys, NEW scope, NEW at, NEW b,
         "signed_release" \in DOMAIN SupplyPart(e, keys, scope, at, b),
         SupplyPart(e, keys, scope, at, b)["signed_release"] = 1
  PROVE  /\ SupplyDone(e, keys, scope, at, b)
         /\ SupplyPart(e, keys, scope, at, b) =
              [signed_release |-> 1, provenance_verified |-> 1, canonical_sbom |-> 1,
               dependencies_locked |-> IF e.attestation.lock = NoLock THEN 0 ELSE 1,
               critical_exploitable_cve_count |-> e.scan.critical]
  BY Rules DEF SupplyPart, SupplyDone, SupplyKinds, Readable, There, Ill

(* A metric comes from the part of the evidence that gives it.             *)
LEMMA MetricFrom ==
  ASSUME NEW e, NEW keys, NEW scope, NEW at, NEW allowed, NEW b,
         NEW m \in DOMAIN Metrics(e, keys, scope, at, allowed, b)
  PROVE  LET q == QualificationPart(e, keys, scope, allowed)
             h == HostPart(e, keys, scope)
             s == SupplyPart(e, keys, scope, at, b)
             value == Metrics(e, keys, scope, at, allowed, b)[m]
         IN \/ m \in DOMAIN s /\ value = s[m]
            \/ m \notin DOMAIN s /\ m \in DOMAIN h /\ value = h[m]
            \/ m \notin DOMAIN s /\ m \notin DOMAIN h /\ m \in DOMAIN q /\ value = q[m]
  BY DEF Metrics

(* If all gates pass then everything was verified, and it is the evidence  *)
(* itself that meets the rules.                                            *)
LEMMA AllVerified ==
  ASSUME NEW e, NEW keys, NEW scope, NEW at, NEW allowed, NEW b,
         \A g \in Gates : Gate(g, Metrics(e, keys, scope, at, allowed, b)) = "pass"
  PROVE  /\ QualificationDone(e, keys, scope, allowed)
         /\ HostDone(e, keys, scope)
         /\ SupplyDone(e, keys, scope, at, b)
         /\ DeclaredMetrics \ {"hard_stop_p99_seconds"} \subseteq DOMAIN e.qualification.measurements
         /\ \A g \in Gates : \A m \in DOMAIN ReleaseRules[g] :
              Satisfies(Shows(e, m), ReleaseRules[g][m])
  <1> DEFINE M == Metrics(e, keys, scope, at, allowed, b)
             Q == QualificationPart(e, keys, scope, allowed)
             H == HostPart(e, keys, scope)
             S == SupplyPart(e, keys, scope, at, b)
  <1>1. \A g \in Gates : \A m \in DOMAIN ReleaseRules[g] :
          m \in DOMAIN M /\ Satisfies(M[m], ReleaseRules[g][m])
    BY PassingGate
  <1>2. ASSUME NEW m \in DOMAIN M
        PROVE  \/ m \in DOMAIN S /\ M[m] = S[m]
               \/ m \notin DOMAIN S /\ m \in DOMAIN H /\ M[m] = H[m]
               \/ m \notin DOMAIN S /\ m \notin DOMAIN H /\ m \in DOMAIN Q /\ M[m] = Q[m]
    BY MetricFrom
  <1>3. \A m \in DOMAIN S : m \in SupplyChainMetrics
    BY SupplyGives
  <1>4. \A m \in DOMAIN H : HostDone(e, keys, scope) /\ m = "hard_stop_p99_seconds"
                             /\ H[m] = e.hostRun.value
    BY HostGives
  <1>5. \A m \in DOMAIN Q : /\ QualificationDone(e, keys, scope, allowed)
                             /\ m # "hard_stop_p99_seconds"
                             /\ m \in DOMAIN e.qualification.measurements
                             /\ Q[m] = e.qualification.measurements[m].value
    BY QualificationGives
  <1>6. /\ "signed_release" \in DOMAIN S /\ S["signed_release"] = 1
        => /\ SupplyDone(e, keys, scope, at, b)
           /\ S = [signed_release |-> 1, provenance_verified |-> 1, canonical_sbom |-> 1,
                   dependencies_locked |-> IF e.attestation.lock = NoLock THEN 0 ELSE 1,
                   critical_exploitable_cve_count |-> e.scan.critical]
    BY SignedMeansDone
  <1> HIDE DEF M, Q, H, S
  <1>7. \A m \in DOMAIN M :
          /\ m = "hard_stop_p99_seconds" => m \in DOMAIN H /\ M[m] = H[m]
          /\ m \notin SupplyChainMetrics /\ m # "hard_stop_p99_seconds" =>
               m \in DOMAIN Q /\ M[m] = Q[m]
    BY <1>2, <1>3, <1>4, <1>5, Rules
  <1>8. QualificationDone(e, keys, scope, allowed) /\ HostDone(e, keys, scope)
    BY <1>1, <1>4, <1>5, <1>7, Rules
  <1>9. DOMAIN e.qualification.measurements \cap SupplyChainMetrics = {}
    BY <1>8 DEF QualificationDone, QualificationVerifies, DeclaredMetrics
  <1>10. \A m \in DOMAIN M \cap SupplyChainMetrics : m \in DOMAIN S /\ M[m] = S[m]
    BY <1>2, <1>4, <1>5, <1>9, Rules
  <1>11. \A m \in SupplyChainMetrics : m \in DOMAIN ReleaseRules["RG13"]
    BY DEF SupplyChainMetrics
  <1>12. S["signed_release"] = 1 /\ "signed_release" \in DOMAIN S
    BY <1>1, <1>10, <1>11, Rules DEF Satisfies, Exactly
  <1>13. S["dependencies_locked"] = 1
    BY <1>1, <1>10, <1>11, Rules DEF Satisfies, Exactly
  <1>14. \A m \in SupplyChainMetrics : S[m] = Shows(e, m)
    <2>1. e.scan.critical = Cardinality(CriticalExploitable(e.scan.findings))
      BY <1>6, <1>12 DEF SupplyDone, SupplyChainVerifies, ScanVerifies
    <2>2. QED
      BY <1>6, <1>12, <1>13, <2>1, Rules DEF Shows
  <1>15. \A m \in DOMAIN M : M[m] = Shows(e, m)
    BY <1>4, <1>5, <1>7, <1>10, <1>14, Rules DEF Shows
  <1>16. DeclaredMetrics \ {"hard_stop_p99_seconds"} \subseteq DOMAIN e.qualification.measurements
    BY <1>1, <1>5, <1>7 DEF DeclaredMetrics
  <1>17. QED
    BY <1>1, <1>6, <1>8, <1>12, <1>15, <1>16

-----------------------------------------------------------------------------
(* The keys.                                                               *)

(* Without keys of the caller, a key comes from a registry that resolves.  *)
LEMMA KeysFromRegistry ==
  ASSUME NEW e, NEW registry, NEW scope, NEW at,
         Material(e, registry, Authority, NoKeys, scope, at)["qualification"] # NoKey
  PROVE  /\ Resolvable(registry, Authority, scope, at)
         /\ Material(e, registry, Authority, NoKeys, scope, at) = Resolve(registry)
  BY RolesAssumption DEF Material, NoKeys

LEMMA SignatureInRole ==
  ASSUME NEW registry, NEW scope, NEW at, Resolvable(registry, Authority, scope, at),
         NEW role \in Roles, Resolve(registry)[role] # NoKey,
         NEW d, Signed(d, Resolve(registry)[role])
  PROVE  /\ SignedInRole(d, role, registry, at)
         /\ SignerOf(d) = Resolve(registry)[role].key
  <1> DEFINE i == CHOOSE i \in ActiveFor(registry, role) : TRUE
             x == registry.entries[i]
  <1>1. ActiveFor(registry, role) # {}
    BY DEF Resolve
  <1>2. i \in ActiveFor(registry, role)
    BY <1>1
  <1>3. Resolve(registry)[role] = [key |-> x.key, id |-> x.id]
    BY <1>1 DEF Resolve
  <1> HIDE DEF i
  <1>4. i \in DOMAIN registry.entries /\ x.role = role /\ x.revoked = Active
    BY <1>2 DEF ActiveFor
  <1>5. Within(x, at)
    BY <1>4 DEF Resolvable, EntrySound
  <1>6. d.signature = [key |-> x.key, id |-> x.id]
    BY <1>3 DEF Signed
  <1>7. SignedInRole(d, role, registry, at)
    BY <1>4, <1>5, <1>6 DEF SignedInRole
  <1>8. QED
    BY <1>3, <1>6, <1>7 DEF SignerOf

LEMMA ThreeApart ==
  ASSUME NEW x, NEW y, NEW z, x # y, x # z, y # z
  PROVE  Cardinality({x, y, z}) = 3
  <1>1. IsFiniteSet({x}) /\ Cardinality({x}) = 1
    BY FS_Singleton
  <1>2. {x} \cup {y} = {x, y} /\ {x, y} \cup {z} = {x, y, z}
    OBVIOUS
  <1>3. IsFiniteSet({x, y}) /\ Cardinality({x, y}) = 2
    <2>1. IsFiniteSet({x} \cup {y}) /\ Cardinality({x} \cup {y}) = 2
      BY <1>1, FS_AddElement
    <2>2. QED
      BY <1>2, <2>1
  <1>4. Cardinality({x, y} \cup {z}) = 3
    BY <1>3, FS_AddElement
  <1>5. QED
    BY <1>2, <1>4

(* Evidence that was verified in full is signed in its roles.              *)
LEMMA VerifiedIsSigned ==
  ASSUME NEW e, NEW registry, NEW scope, NEW at, NEW allowed, NEW b,
         Resolvable(registry, Authority, scope, at),
         QualificationDone(e, Resolve(registry), scope, allowed),
         HostDone(e, Resolve(registry), scope),
         SupplyDone(e, Resolve(registry), scope, at, b)
  PROVE  KeysTrusted(e, registry, at)
  <1> DEFINE keys == Resolve(registry)
  <1>1. /\ "qualification" \in Roles /\ "judge" \in Roles /\ "host" \in Roles
        /\ "supply_chain" \in Roles /\ "vulnerability" \in Roles /\ "provenance" \in Roles
    BY RolesAssumption
  <1>2. ASSUME NEW role \in Roles, keys[role] # NoKey, NEW d, Signed(d, keys[role])
        PROVE  SignedInRole(d, role, registry, at) /\ SignerOf(d) = keys[role].key
    BY <1>2, SignatureInRole
  <1>3. /\ keys["qualification"] # NoKey /\ keys["judge"] # NoKey
        /\ keys["qualification"].key # keys["judge"].key
        /\ Signed(e.manifest, keys["qualification"])
        /\ Signed(e.qualification, keys["qualification"])
        /\ VerdictsVerify(e, keys["judge"], scope, allowed)
    BY DEF QualificationDone, QualificationVerifies, ManifestVerifies, EvidenceVerifies
  <1>4. keys["host"] # NoKey /\ Signed(e.hostAttestation, keys["host"])
    BY DEF HostDone, HostVerifies
  <1>5. /\ keys["supply_chain"] # NoKey /\ keys["vulnerability"] # NoKey
        /\ keys["provenance"] # NoKey
        /\ keys["supply_chain"].key # keys["vulnerability"].key
        /\ keys["supply_chain"].key # keys["provenance"].key
        /\ keys["vulnerability"].key # keys["provenance"].key
        /\ Signed(e.attestation, keys["supply_chain"])
        /\ Signed(e.scan, keys["vulnerability"])
        /\ Signed(e.provenance, keys["provenance"])
    BY DEF SupplyDone, SigningRoles, SupplyChainVerifies, KeysDistinct, ScanVerifies,
           AttestationVerifies, ProvenanceVerifies
  <1> HIDE DEF keys
  <1>6. \A i \in DOMAIN e.verdicts : e.verdicts[i].id \in e.qualification.verdicts =>
          Signed(e.verdicts[i], keys["judge"])
    BY <1>3 DEF VerdictsVerify, Listed, VerdictVerifies
  <1>7. Cardinality({SignerOf(e.attestation), SignerOf(e.scan), SignerOf(e.provenance)}) = 3
    <2> DEFINE a == SignerOf(e.attestation)
               s == SignerOf(e.scan)
               p == SignerOf(e.provenance)
    <2>1. a # s /\ a # p /\ s # p
      BY <1>1, <1>2, <1>5
    <2> HIDE DEF a, s, p
    <2>2. Cardinality({a, s, p}) = 3
      BY <2>1, ThreeApart
    <2>3. QED
      BY <2>2 DEF a, s, p
  <1>8. registry.signature = Authority
    BY DEF Resolvable, Signed
  <1>9. QED
    BY <1>1, <1>2, <1>3, <1>4, <1>5, <1>6, <1>7, <1>8 DEF KeysTrusted

(* Evidence that was verified in full is about the bundle on disk, and its *)
(* verdicts are those of judges allowed.                                   *)
LEMMA VerifiedIsAboutDisk ==
  ASSUME NEW e, NEW keys, NEW scope, NEW at, NEW allowed,
         QualificationDone(e, keys, scope, allowed), HostDone(e, keys, scope),
         SupplyDone(e, keys, scope, at, disk)
  PROVE  scope = disk /\ AboutDisk(e)
  <1>1. /\ e.attestation.scope = scope /\ e.attestation.scope = disk
        /\ e.attestation.lock = Lock[disk]
        /\ e.scan.scope = e.attestation.scope /\ e.scan.lock = e.attestation.lock
        /\ e.provenance.scope = e.attestation.scope
    BY DEF SupplyDone, SupplyChainVerifies, ScanVerifies, AttestationVerifies, ProvenanceVerifies
  <1>2. e.hostAttestation.scope = scope /\ e.hostRun.scope = scope
    BY DEF HostDone, HostVerifies
  <1>3. e.manifest.scope = scope /\ e.qualification.scope = scope
    BY DEF QualificationDone, QualificationVerifies, ManifestVerifies, EvidenceVerifies
  <1>4. QED
    BY <1>1, <1>2, <1>3 DEF AboutDisk, EvidenceKinds

LEMMA VerifiedIsInTime ==
  ASSUME NEW e \in Packages, NEW keys, NEW scope, NEW at \in Times, NEW b,
         SupplyDone(e, keys, scope, at, b)
  PROVE  ScannedInTime(e, at)
  <1>1. e.scan.at \in Nat /\ at \in Nat /\ MaxScanAge \in Nat
    BY ReleaseAssumption DEF SupplyDone, SupplyKinds
  <1>2. e.scan.at <= at /\ at - e.scan.at <= MaxScanAge
    BY DEF SupplyDone, SupplyChainVerifies, ScanFresh
  <1>3. QED
    BY <1>1, <1>2 DEF ScannedInTime

LEMMA VerifiedIsJudged ==
  ASSUME NEW e, NEW keys, NEW allowed, NEW i \in DOMAIN e.verdicts,
         allowed \subseteq {p \in Providers : Allowed(p)},
         QualificationDone(e, keys, disk, allowed),
         e.verdicts[i].id \in e.qualification.verdicts
  PROVE  JudgedIndependently(e, i)
  <1> DEFINE v == e.verdicts[i].verdict
  <1>1. i \in Listed(e, e.verdicts[i].id)
    BY DEF Listed
  <1>2. VerdictVerifies(e.verdicts[i], e.packets, keys["judge"], disk, allowed)
    BY <1>1 DEF QualificationDone, QualificationVerifies, VerdictsVerify
  <1>3. /\ e.verdicts[i].scope = disk
        /\ \E k \in DOMAIN e.packets : e.packets[k] = v.packet /\ Bound(e.packets[k], v, allowed)
        /\ Signable(v)
    BY <1>2 DEF VerdictVerifies
  <1>4. v.packet.origin # v.packet.judge /\ v.packet.judge \in allowed
    BY <1>3 DEF Bound, PacketValid, Independent
  <1>5. \A j \in DOMAIN v.decisions : v.decisions[j].label # "unknown"
    BY <1>3 DEF Signable, IdentityValid, Status
  <1>6. QED
    BY <1>3, <1>4, <1>5 DEF JudgedIndependently

LEMMA VerifiedTrialsJudged ==
  ASSUME NEW e, NEW keys, NEW scope, NEW allowed, QualificationDone(e, keys, scope, allowed)
  PROVE  TrialsJudged(e)
  <1> DEFINE q == e.qualification
             named == {k \in DOMAIN e.verdicts : e.verdicts[k].id \in q.verdicts}
             judged == UNION {Judged(e.verdicts[i].verdict) : i \in named}
  <1>1. named = UNION {Listed(e, ref) : ref \in q.verdicts}
    BY DEF Listed
  <1>2. JudgedIn(e) = judged
    BY <1>1 DEF JudgedIn
  <1>3. \A m \in DOMAIN q.measurements : PopulationBound(e, m)
    BY DEF QualificationDone, QualificationVerifies
  <1>4. e.receipt.refs \cap judged = JudgedIn(e) \cap e.receipt.refs
    BY <1>2
  <1> HIDE DEF judged
  <1>5. \A m \in DOMAIN q.measurements : Basis[m] = "private_case_trials" =>
          q.measurements[m].samples <= Cardinality(e.receipt.refs \cap judged)
    BY <1>3, <1>4 DEF PopulationBound
  <1>6. QED
    BY <1>5 DEF TrialsJudged, judged

-----------------------------------------------------------------------------
(* The canary.                                                             *)

(* What stands behind a ready canary: evidence that was verified anew on   *)
(* preparation, as of the report's time, against the bundle on disk.       *)
LEMMA CanaryPrepared ==
  ASSUME Inv, [Next]_vars, NEW pilot \in pilots', NewCanary(pilot)
  PROVE  \E e \in Packages, registry \in Registries, scope \in Bundles :
           /\ pilot.evidence = <<e, registry>>
           /\ pilot.report \in KnownReports
           /\ GaEligible(pilot.report)
           /\ ReportNow(e, registry, NoKeys, scope, pilot.report.at) = pilot.report
  <1>1. pilot \notin pilots /\ pilot.profile = "canary" /\ pilot.status = "ready"
    BY DEF NewCanary
  <1>2. PilotNext
    BY <1>1 DEF Next, vars, releaseVars, EditBundle, Evaluate
  <1>3. ASSUME NEW report \in KnownReports, NEW s \in Sessions, NEW drills \in BOOLEAN,
               PrepareShadow(s, report, drills)
        PROVE  FALSE
    BY <1>1, <1>3 DEF PrepareShadow, Adds, Prepared
  <1>4. ASSUME NEW old \in KnownPilots, Rollback(old) PROVE FALSE
    <2>1. old \in PilotRecords
      BY OthersTyped DEF Inv, PilotInv, KnownPilots
    <2>2. [old EXCEPT !.status = "rollback"].status = "rollback"
      BY <2>1 DEF PilotRecords
    <2>3. QED
      BY <1>1, <1>4, <2>2 DEF Rollback, Adds
  <1>5. ~Complete
    <2> SUFFICES ASSUME Complete PROVE FALSE
      OBVIOUS
    <2>1. completing.pilot \in PilotRecords
      BY OthersTyped DEF Complete, Inv, CompletionInv, CompletionRecords, PilotInv, KnownPilots
    <2>2. [completing.pilot EXCEPT !.status = "complete", !.runs = completing.runs].status
            = "complete"
      BY <2>1 DEF PilotRecords
    <2>3. QED
      BY <1>1, <2>2 DEF Complete, Adds
  <1>6. pilots' # pilots
    BY <1>1
  <1>7. PICK report \in KnownReports, s \in Sessions, drills \in BOOLEAN, e \in Packages,
             registry \in Registries \cup {Absent}, scope \in Bundles :
               PrepareCanary(s, report, drills, e, registry, scope)
    BY <1>2, <1>3, <1>4, <1>5, <1>6
       DEF PilotNext, BeginCompletion, VerifyRun, CountRun, Abandon
  <1>8. pilot = Prepared(s, "canary", report, drills, <<e, registry>>)
    BY <1>1, <1>7 DEF PrepareCanary, Adds
  <1>9. pilot.report = report /\ pilot.evidence = <<e, registry>>
    BY <1>8 DEF Prepared
  <1>10. registry \in Registries
    BY <1>7 DEF PrepareCanary
  <1>11. QED
    BY <1>7, <1>9, <1>10 DEF PrepareCanary

Verified(e, registry, scope, at) ==
  /\ Resolvable(registry, Authority, scope, at)
  /\ QualificationDone(e, Resolve(registry), scope, {p \in Providers : Allowed(p)})
  /\ HostDone(e, Resolve(registry), scope)
  /\ SupplyDone(e, Resolve(registry), scope, at, disk)
  /\ MeetsThresholds(e)

LEMMA PassedIsVerified ==
  ASSUME NEW e, NEW registry, NEW scope, NEW at,
         GaEligible(ReportNow(e, registry, NoKeys, scope, at))
  PROVE  Verified(e, registry, scope, at)
  <1> DEFINE keys == Material(e, registry, Authority, NoKeys, scope, at)
             allowed == {p \in Providers : Allowed(p)}
  <1>1. \A g \in Gates : Gate(g, Metrics(e, keys, scope, at, allowed, disk)) = "pass"
    BY DEF GaEligible, ReportNow, ReportOn
  <1>2. /\ QualificationDone(e, keys, scope, allowed)
        /\ HostDone(e, keys, scope)
        /\ SupplyDone(e, keys, scope, at, disk)
        /\ DeclaredMetrics \ {"hard_stop_p99_seconds"} \subseteq DOMAIN e.qualification.measurements
        /\ \A g \in Gates : \A m \in DOMAIN ReleaseRules[g] :
             Satisfies(Shows(e, m), ReleaseRules[g][m])
    BY <1>1, AllVerified
  <1>3. keys["qualification"] # NoKey
    BY <1>2 DEF QualificationDone, QualificationVerifies
  <1>4. Resolvable(registry, Authority, scope, at) /\ keys = Resolve(registry)
    BY <1>3, KeysFromRegistry
  <1> HIDE DEF keys, allowed
  <1>5. \A kind \in EvidenceKinds : Readable(e, kind)
    BY <1>2 DEF QualificationDone, HostDone, SupplyDone, SupplyKinds, EvidenceKinds
  <1>6. MeetsThresholds(e)
    BY <1>2, <1>5 DEF MeetsThresholds
  <1>7. QED
    BY <1>2, <1>4, <1>6 DEF Verified, allowed

LEMMA CanaryVerified ==
  ASSUME Inv, [Next]_vars, NEW pilot \in pilots', NewCanary(pilot)
  PROVE  \E scope \in Bundles :
           /\ pilot.evidence[1] \in Packages
           /\ pilot.report.at \in Times
           /\ Verified(pilot.evidence[1], pilot.evidence[2], scope, pilot.report.at)
  <1>1. PICK e \in Packages, registry \in Registries, scope \in Bundles :
          /\ pilot.evidence = <<e, registry>>
          /\ pilot.report \in KnownReports
          /\ GaEligible(pilot.report)
          /\ ReportNow(e, registry, NoKeys, scope, pilot.report.at) = pilot.report
    BY CanaryPrepared
  <1>2. Verified(e, registry, scope, pilot.report.at)
    BY <1>1, PassedIsVerified
  <1>3. pilot.evidence[1] = e /\ pilot.evidence[2] = registry
    BY <1>1
  <1>4. pilot.report.at \in Times
    BY <1>1, OthersAssumption DEF Inv, PilotInv, ReportsTyped, KnownReports
  <1>5. QED
    BY <1>2, <1>3, <1>4

(* A canary gets ready only on complete evidence that itself meets every   *)
(* threshold: no gate passes by default (evaluation.py,                    *)
(* evaluate_release_gates; pilot.py, prepare_pilot).                       *)
THEOREM CanaryAlwaysMeetsThresholds == Spec => CanaryMeetsThresholds
  <1>1. Inv /\ [Next]_vars =>
          [\A pilot \in pilots' : NewCanary(pilot) =>
             MeetsThresholds(pilot.evidence[1])]_vars
    BY CanaryVerified DEF Verified
  <1>2. QED
    BY InitInv, NextKeeps, <1>1, PTL DEF Spec, CanaryMeetsThresholds

(* Whatever keys and registries callers hand over: every document behind a *)
(* ready canary was signed in its role with a key in force in one registry *)
(* of the authority (trust_registry.py, resolve_trusted_verification_keys; *)
(* supply_chain_policy.py).                                                *)
THEOREM CanaryKeysAlwaysTrusted == Spec => CanaryKeysTrusted
  <1>1. Inv /\ [Next]_vars =>
          [\A pilot \in pilots' : NewCanary(pilot) =>
             KeysTrusted(pilot.evidence[1], pilot.evidence[2], pilot.report.at)]_vars
    BY CanaryVerified, VerifiedIsSigned DEF Verified
  <1>2. QED
    BY InitInv, NextKeeps, <1>1, PTL DEF Spec, CanaryKeysTrusted

(* The evidence behind a ready canary is about the bundle on disk at that  *)
(* moment, freshly scanned and judged by judges still listed, whatever was *)
(* edited since the report (pilot.py, prepare_pilot; evaluation.py).       *)
THEOREM CanaryAlwaysCurrent == Spec => CanaryIsCurrent
  <1>1. ASSUME NEW e \in Packages, NEW registry, NEW scope, NEW at \in Times,
               Verified(e, registry, scope, at)
        PROVE  /\ AboutDisk(e)
               /\ ScannedInTime(e, at)
               /\ \A i \in DOMAIN e.verdicts :
                    e.verdicts[i].id \in e.qualification.verdicts => JudgedIndependently(e, i)
               /\ TrialsJudged(e)
    <2>1. scope = disk /\ AboutDisk(e)
      BY <1>1, VerifiedIsAboutDisk DEF Verified
    <2>2. QED
      BY <1>1, <2>1, VerifiedIsInTime, VerifiedIsJudged, VerifiedTrialsJudged DEF Verified
  <1>2. Inv /\ [Next]_vars =>
          [\A pilot \in pilots' : NewCanary(pilot) =>
             LET e == pilot.evidence[1]
             IN /\ AboutDisk(e)
                /\ ScannedInTime(e, pilot.report.at)
                /\ \A i \in DOMAIN e.verdicts :
                     e.verdicts[i].id \in e.qualification.verdicts => JudgedIndependently(e, i)
                /\ TrialsJudged(e)]_vars
    BY <1>1, CanaryVerified
  <1>3. QED
    BY InitInv, NextKeeps, <1>2, PTL DEF Spec, CanaryIsCurrent

(* A pilot completes only on providers that were listed, those of a canary *)
(* as qualified, during the call that completes it (pilot.py,              *)
(* complete_pilot; providers.py, verify_provider_run).                     *)
THEOREM CompletionAlwaysCurrent == Spec => CompletionIsCurrent
  <1>1. ASSUME Inv, Complete, NEW pilot \in pilots' \ pilots
        PROVE  \A r \in pilot.runs : ListedWhile(pilot, r, completing.seen)
    <2> DEFINE p == completing.pilot
    <2>1. /\ completing \in CompletionRecords /\ CompletionSound(completing)
          /\ completing.left = {}
      BY <1>1 DEF Inv, Complete, CompletionInv
    <2>2. p \in PilotRecords
      BY <1>1, <2>1, OthersTyped DEF Inv, PilotInv, KnownPilots, CompletionRecords
    <2>3. pilot = [p EXCEPT !.status = "complete", !.runs = completing.runs]
      BY <1>1 DEF Complete, Adds
    <2>4. pilot.runs = completing.runs /\ pilot.profile = p.profile
      BY <2>2, <2>3 DEF PilotRecords
    <2>5. \A r \in completing.runs : ListedWhile(p, r, completing.seen)
      BY <2>1 DEF CompletionSound, Counts
    <2>6. QED
      BY <2>4, <2>5 DEF ListedWhile
  <1>2. ASSUME NEW p \in KnownPilots, Inv, Rollback(p), NEW pilot \in pilots' \ pilots
        PROVE  pilot.status # "complete"
    <2>1. p \in PilotRecords
      BY <1>2, OthersTyped DEF Inv, PilotInv, KnownPilots
    <2>2. pilot = [p EXCEPT !.status = "rollback"]
      BY <1>2 DEF Rollback, Adds
    <2>3. QED
      BY <2>1, <2>2 DEF PilotRecords
  <1>3. Inv /\ [Next]_vars =>
          [\A pilot \in pilots' \ pilots : pilot.status = "complete" =>
             \A r \in pilot.runs : \E a \in completing.seen :
               /\ a[Analyzer[r.request]] # "refused"
               /\ pilot.profile = "canary" => a[Analyzer[r.request]] = "qualified"]_vars
    <2> SUFFICES ASSUME Inv, Next, NEW pilot \in pilots' \ pilots, pilot.status = "complete"
                 PROVE  \A r \in pilot.runs : ListedWhile(pilot, r, completing.seen)
      BY DEF vars, releaseVars, ListedWhile
    <2>1. PilotNext
      BY DEF Next, releaseVars, EditBundle, Evaluate
    <2>2. ASSUME NEW s, NEW profile, NEW report, NEW drills \in BOOLEAN, NEW evidence
          PROVE  Prepared(s, profile, report, drills, evidence).status # "complete"
      BY DEF Prepared
    <2>3. ASSUME NEW report \in KnownReports, NEW s \in Sessions, NEW drills \in BOOLEAN
          PROVE  ~PrepareShadow(s, report, drills)
      BY <2>2 DEF PrepareShadow, Adds
    <2>4. ASSUME NEW report \in KnownReports, NEW s \in Sessions, NEW drills \in BOOLEAN,
                 NEW e \in Packages, NEW registry \in Registries \cup {Absent},
                 NEW scope \in Bundles
          PROVE  ~PrepareCanary(s, report, drills, e, registry, scope)
      BY <2>2 DEF PrepareCanary, Adds
    <2>5. ASSUME NEW p \in KnownPilots PROVE ~Rollback(p)
      BY <1>2, <2>5
    <2>6. Complete
      BY <2>1, <2>3, <2>4, <2>5 DEF PilotNext, BeginCompletion, VerifyRun, CountRun, Abandon
    <2>7. QED
      BY <1>1, <2>6
  <1>4. QED
    BY InitInv, NextKeeps, <1>3, PTL DEF Spec, CompletionIsCurrent
=============================================================================
