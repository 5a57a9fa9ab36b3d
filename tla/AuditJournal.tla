---------------------------- MODULE AuditJournal ----------------------------
(***************************************************************************)
(* What the session store promises its callers, with neither transactions, *)
(* hashes, files nor crashes: one session's journal is a list of entries   *)
(* that only grows at its end, whose idempotency keys are all different    *)
(* and whose states follow the lifecycle, and a caller is only ever told   *)
(* of an entry that is in the list.                                        *)
(***************************************************************************)
EXTENDS Naturals, Sequences, Lifecycle

CONSTANTS Clients,  \* the callers
          None      \* "no entry"

VARIABLES log,      \* the entries, in journal order
          told      \* told[c]: the entry the last call of c returned, or None

journalVars == <<log, told>>

CurrentState == IF log = <<>> THEN InitialState ELSE log[Len(log)].to

Init == /\ log = <<>>
        /\ told = [c \in Clients |-> None]

(* One entry is added at the end, and its author may be told of it.        *)
Record ==
  /\ Len(log') = Len(log) + 1
  /\ SubSeq(log', 1, Len(log)) = log
  /\ LET entry == log'[Len(log')] IN
       /\ \A i \in 1..Len(log) : log[i].key # entry.key
       /\ entry.from = CurrentState
       /\ MayMove(entry.from, entry.to)
       /\ \E c \in Clients : told' \in {told, [told EXCEPT ![c] = entry]}

(* A caller repeats a call and is told of the entry already there.         *)
Repeat == \E c \in Clients, i \in 1..Len(log) :
  /\ told' = [told EXCEPT ![c] = log[i]]
  /\ UNCHANGED log

(* A caller starts something else, is refused, or restarts.                *)
Forget == \E c \in Clients :
  /\ told' = [told EXCEPT ![c] = None]
  /\ UNCHANGED log

Next == Record \/ Repeat \/ Forget

Spec == Init /\ [][Next]_journalVars
=============================================================================
