--------------------------- MODULE ProviderCalls ----------------------------
(***************************************************************************)
(* ExternalAnalyzerProvider.run (providers.py) with the provider allowlist *)
(* (provider_policy.py) and the tool broker it asks (tool_broker.py):      *)
(* callers hand analyzer requests to an adapter, which sends what they     *)
(* hold to a provider after the allowlist and then the broker agreed.      *)
(*                                                                         *)
(* The allowlist is a file, read anew at each use, that an operator may    *)
(* edit meanwhile.  The ledger of used tokens is a directory shared by all *)
(* processes.  A request stands for its content: request_id is the digest  *)
(* build_analyzer_request makes of it, and the network request it gives    *)
(* rise to is the digest of that id and the endpoint.                      *)
(***************************************************************************)
EXTENDS Integers, FiniteSets

CONSTANTS
  Callers,   \* threads that call the adapter
  Requests,  \* analyzer requests
  Session,   \* Session[q]: the session q belongs to
  Analyzer,  \* Analyzer[q]: the provider q goes to
  Egress,    \* requests whose endpoint is among the egress destinations
  Tokens,    \* approval tokens
  BoundTo,   \* BoundTo[t]: the request whose network request t is for
  Genuine,   \* tokens signed with a key of the keyring
  Providers, \* providers and judges the allowlist can name
  MaxCalls,  \* bound on the calls made
  MaxEdits,  \* bound on the edits of files the operator makes
  None

Calls == 1..MaxCalls

(* Left out, revoked, or listed with another endpoint, configuration or    *)
(* adapter profile are one to provider_descriptor, validate_provider_      *)
(* binding: "refused".                                                     *)
Entries == {"refused", "pending", "qualified"}

ASSUME ProvidersAssumption ==
  /\ Session \in [Requests -> {Session[q] : q \in Requests}]
  /\ Analyzer \in [Requests -> Providers]
  /\ Egress \subseteq Requests
  /\ BoundTo \in [Tokens -> Requests]
  /\ Genuine \subseteq Tokens
  /\ MaxCalls \in Nat
  /\ MaxEdits \in Nat
  /\ None \notin Tokens

Receipts == [decision: {"allow", "deny"}, token: Tokens \cup {None}]

Stages == {"bind", "authorize", "transport", "reply"}

CallRecords == [id: Calls, request: Requests, token: Tokens \cup {None}, at: Stages]

Runs == [id: Calls, request: Requests, status: {"completed", "blocked", "unknown"},
         receipt: Receipts \cup {None}]

ASSUME NoneAssumption == None \notin CallRecords \cup Receipts

VARIABLES
  allowlist,  \* allowlist[p]: the entry of p in the file
  edits,      \* number of edits made
  lastCall,   \* number of calls made
  call,       \* call[c]: the call c is in, or None
  spent,      \* tokens of which the ledger holds a marker
  sent,       \* what was sent to a provider: [call, token]
  runs        \* the provider runs handed back

providerVars == <<allowlist, edits, lastCall, call, spent, sent, runs>>

ProviderInit == /\ allowlist \in [Providers -> Entries]
                /\ edits = 0
                /\ lastCall = 0
                /\ call = [c \in Callers |-> None]
                /\ spent = {}
                /\ sent = {}
                /\ runs = {}

At(c, stage) == call[c] # None /\ call[c].at = stage

(* provider_descriptor, validate_provider_binding.                         *)
Allowed(p) == allowlist[p] # "refused"

-----------------------------------------------------------------------------
(* The operator edits the allowlist.                                       *)
EditAllowlist(p, entry) ==
  /\ edits < MaxEdits
  /\ entry # allowlist[p]
  /\ edits' = edits + 1
  /\ allowlist' = [allowlist EXCEPT ![p] = entry]
  /\ UNCHANGED <<lastCall, call, spent, sent, runs>>

(* run: the request is complete and for this provider.                     *)
Run(c, q, t) ==
  /\ call[c] = None
  /\ lastCall < MaxCalls
  /\ lastCall' = lastCall + 1
  /\ call' = [call EXCEPT ![c] = [id |-> lastCall + 1, request |-> q, token |-> t, at |-> "bind"]]
  /\ UNCHANGED <<allowlist, edits, spent, sent, runs>>

GoesTo(c, stage) == call' = [call EXCEPT ![c].at = stage]

(* The call ends with a run.                                               *)
Ends(c, status, receipt) ==
  /\ runs' = runs \cup {[id |-> call[c].id, request |-> call[c].request,
                         status |-> status, receipt |-> receipt]}
  /\ call' = [call EXCEPT ![c] = None]

(* The adapter compares itself with the allowlist before anything else.    *)
Bind(c) ==
  /\ At(c, "bind")
  /\ \/ /\ Allowed(Analyzer[call[c].request])
        /\ GoesTo(c, "authorize")
        /\ UNCHANGED runs
     \/ /\ ~Allowed(Analyzer[call[c].request])
        /\ Ends(c, "blocked", None)
  /\ UNCHANGED <<allowlist, edits, lastCall, spent, sent>>

Receipt(decision, token) == [decision |-> decision, token |-> token]

(* Mutant: the request a token is for is not compared.                     *)
VerifiesAnyRequest(t, q) == t \in Genuine

(* _verify_approval, the expiry apart.                                     *)
Verifies(t, q) == t \in Genuine /\ BoundTo[t] = q

(* A request the broker refuses before it looks at the ledger: no token    *)
(* that verifies, or one that has expired.                                 *)
DenyUnverified(c) ==
  /\ At(c, "authorize")
  /\ Ends(c, "blocked", Receipt("deny", None))
  /\ UNCHANGED <<allowlist, edits, lastCall, spent, sent>>

DenySpent(c) ==
  /\ At(c, "authorize")
  /\ Verifies(call[c].token, call[c].request)
  /\ call[c].token \in spent
  /\ Ends(c, "blocked", Receipt("deny", call[c].token))
  /\ UNCHANGED <<allowlist, edits, lastCall, spent, sent>>

(* Mutant: the ledger is written for nothing, a marker that is there is    *)
(* not an obstacle.                                                        *)
ConsumeAgain(c) ==
  /\ At(c, "authorize")
  /\ Verifies(call[c].token, call[c].request)
  /\ spent' = spent \cup {call[c].token}
  /\ \/ /\ call[c].request \in Egress
        /\ GoesTo(c, "transport")
        /\ UNCHANGED runs
     \/ /\ call[c].request \notin Egress
        /\ Ends(c, "blocked", Receipt("deny", call[c].token))
  /\ UNCHANGED <<allowlist, edits, lastCall, sent>>

(* The token is used up before the destination is looked at.               *)
Consume(c) ==
  /\ At(c, "authorize")
  /\ Verifies(call[c].token, call[c].request)
  /\ call[c].token \notin spent
  /\ spent' = spent \cup {call[c].token}
  /\ \/ /\ call[c].request \in Egress
        /\ GoesTo(c, "transport")
        /\ UNCHANGED runs
     \/ /\ call[c].request \notin Egress
        /\ Ends(c, "blocked", Receipt("deny", call[c].token))
  /\ UNCHANGED <<allowlist, edits, lastCall, sent>>

(* The ledger raises, before or after the marker is there: the run is      *)
(* blocked and carries no receipt.                                         *)
LedgerFails(c) ==
  /\ At(c, "authorize")
  /\ Verifies(call[c].token, call[c].request)
  /\ call[c].token \notin spent
  /\ spent' \in {spent, spent \cup {call[c].token}}
  /\ Ends(c, "blocked", None)
  /\ UNCHANGED <<allowlist, edits, lastCall, sent>>

(* The transport takes the payload.                                        *)
Send(c) ==
  /\ At(c, "transport")
  /\ sent' = sent \cup {[call |-> call[c].id, token |-> call[c].token]}
  /\ GoesTo(c, "reply")
  /\ UNCHANGED <<allowlist, edits, lastCall, spent, runs>>

(* Mutant: an outage counts as a refusal.                                  *)
OutageBlocked(c) ==
  /\ At(c, "transport") \/ At(c, "reply")
  /\ Ends(c, "blocked", Receipt("allow", call[c].token))
  /\ UNCHANGED <<allowlist, edits, lastCall, spent, sent>>

(* It fails before the payload left, or afterwards; or what comes back is  *)
(* not an object, or one of another request or provider.                   *)
Outage(c) ==
  /\ At(c, "transport") \/ At(c, "reply")
  /\ Ends(c, "unknown", Receipt("allow", call[c].token))
  /\ UNCHANGED <<allowlist, edits, lastCall, spent, sent>>

Answer(c) ==
  /\ At(c, "reply")
  /\ Ends(c, "completed", Receipt("allow", call[c].token))
  /\ UNCHANGED <<allowlist, edits, lastCall, spent, sent>>

(* The process of the caller dies: no run is handed back.                  *)
Die(c) ==
  /\ call[c] # None
  /\ call' = [call EXCEPT ![c] = None]
  /\ UNCHANGED <<allowlist, edits, lastCall, spent, sent, runs>>

ProviderNext ==
  \/ \E p \in Providers, entry \in Entries : EditAllowlist(p, entry)
  \/ \E c \in Callers :
       \/ \E q \in Requests, t \in Tokens \cup {None} : Run(c, q, t)
       \/ Bind(c) \/ DenyUnverified(c) \/ DenySpent(c) \/ Consume(c) \/ LedgerFails(c)
       \/ Send(c) \/ Outage(c) \/ Answer(c) \/ Die(c)

-----------------------------------------------------------------------------
(* The types of the variables.                                             *)
ProviderTypeOK ==
  /\ allowlist \in [Providers -> Entries]
  /\ edits \in 0..MaxEdits
  /\ lastCall \in 0..MaxCalls
  /\ call \in [Callers -> CallRecords \cup {None}]
  /\ spent \subseteq Tokens
  /\ sent \subseteq [call: Calls, token: Tokens]
  /\ runs \subseteq Runs

(* What a run says of the transmission is true, whatever failed around it: *)
(* a completed run was sent, on the token its receipt names, and nothing   *)
(* was sent for a blocked one (providers.py: authorization failures are    *)
(* typed blocked outcomes, an outage an unknown one).                      *)
RunsTellWhatLeft ==
  \A r \in runs :
    /\ r.status = "completed" => [call |-> r.id, token |-> r.receipt.token] \in sent
    /\ r.status = "blocked" => \A x \in sent : x.call # r.id

(* Nothing leaves without a genuine token made for that very request, used *)
(* up for it, on which nothing else ever left (docs/tool-broker.md: single *)
(* use, bound to the complete request), also when the ledger failed or a   *)
(* caller died meanwhile.                                                  *)
SentOnItsOwnToken ==
  \A x \in sent :
    /\ x.token \in Genuine \cap spent
    /\ \A y \in sent : y.token = x.token => y = x
    /\ \A r \in runs : r.id = x.call => BoundTo[x.token] = r.request
    /\ \A c \in Callers : call[c] # None /\ call[c].id = x.call =>
         call[c].token = x.token /\ BoundTo[x.token] = call[c].request

Tickets == INSTANCE SingleUse WITH burnt <- spent, launches <- sent

(* The ledger, the broker and the adapter keep what SingleUse promises,    *)
(* for every edit of the allowlist, failure of the ledger and crash.       *)
ImplementsSingleUse == Tickets!Spec
=============================================================================
