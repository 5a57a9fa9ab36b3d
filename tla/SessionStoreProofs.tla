------------------------- MODULE SessionStoreProofs -------------------------
(***************************************************************************)
(* Proofs about SessionStore for any number of callers, keys and plans,    *)
(* journals of any length and any number of crashes.                       *)
(***************************************************************************)
EXTENDS SessionStore, FiniteSetTheorems, TLAPS

-----------------------------------------------------------------------------
(* Operators.                                                              *)

LEMMA HashType == ASSUME NEW e \in Events PROVE Hash(e) \in Hashes
  BY DEF Hash, Events, Hashes

LEMMA EventType ==
  ASSUME NEW seq \in Nat, NEW key \in JournalKeys,
         NEW kind \in {"session_created", "plan_attached", "appended"},
         NEW body \in Bodies \cup Plans \cup {None},
         NEW from \in LifecycleStates, NEW to \in LifecycleStates,
         NEW prev \in Hashes
  PROVE  Event(seq, key, kind, body, from, to, prev) \in Events
  BY DEF Event, Events, Contents

LEMMA InitialIsState == InitialState \in LifecycleStates
  BY DEF InitialState, LifecycleStates, ALLOWED_TRANSITIONS

LEMMA FirstEventType == FirstEvent \in Events
  <1>1. ZeroHash \in Hashes
    BY DEF ZeroHash, Hashes
  <1>2. QED
    BY <1>1, InitialIsState, EventType DEF FirstEvent, JournalKeys

LEMMA FirstViewType == FirstView \in Views
  BY FirstEventType, HashType, InitialIsState DEF FirstView, Views

(* A non-empty journal without gaps has the length its domain shows.       *)
LEMMA Length == ASSUME NEW n \in Nat PROVE Cardinality(1..n) = n
  <1>1. Cardinality(1..n) = IF 1 > n THEN 0 ELSE n - 1 + 1
    BY FS_Interval
  <1>2. QED
    BY <1>1

-----------------------------------------------------------------------------
(* Types.                                                                  *)

LEMMA OpensType ==
  ASSUME TypeOK, NEW c \in Clients, NEW event \in Events, NEW fresh,
         NEW view \in Views, NEW answer, answer.outcome \in Outcomes,
         Opens(c, event, fresh, view, answer)
  PROVE  TypeOK'
  BY DEF TypeOK, Opens, Answer, NoReply, Reply, Outcomes

LEMMA EndsType ==
  ASSUME TypeOK, NEW c \in Clients, NEW r, r.outcome \in Outcomes, Ends(c, r)
  PROVE  TypeOK'
  BY DEF TypeOK, Ends, Answer

LEMMA ReplyType ==
  /\ NoReply.outcome \in Outcomes
  /\ Refused.outcome \in Outcomes
  /\ Opened.outcome \in Outcomes
  /\ Tampered.outcome \in Outcomes
  /\ \A a, e : Reply("event", a, e).outcome \in Outcomes
  BY DEF NoReply, Refused, Opened, Tampered, Reply, Outcomes

LEMMA NextEventType ==
  ASSUME row.view \in Views, NEW key \in JournalKeys,
         NEW kind \in {"session_created", "plan_attached", "appended"},
         NEW body \in Bodies \cup Plans \cup {None}, NEW to \in LifecycleStates
  PROVE  /\ NextEvent(key, kind, body, to) \in Events
         /\ NextEvent(key, kind, body, to).content.seq = row.view.seq + 1
         /\ NextEvent(key, kind, body, to).content.key = key
         /\ NextEvent(key, kind, body, to).content.kind = kind
         /\ NextEvent(key, kind, body, to).content.body = body
         /\ NextEvent(key, kind, body, to).content.from = row.view.state
         /\ NextEvent(key, kind, body, to).content.to = to
         /\ NextEvent(key, kind, body, to).prev = row.view.last
  <1>1. /\ row.view.seq + 1 \in Nat
        /\ row.view.state \in LifecycleStates
        /\ row.view.last \in Hashes
    BY DEF Views
  <1>2. NextEvent(key, kind, body, to) \in Events
    BY <1>1, EventType DEF NextEvent
  <1>3. QED
    BY <1>2 DEF NextEvent, Event

LEMMA AttachedViewType ==
  ASSUME row.view \in Views, NEW p \in Plans, NEW event \in Events
  PROVE  /\ AttachedView(p, event) \in Views
         /\ AttachedView(p, event).plan = p
         /\ AttachedView(p, event).revision = Revision[p]
         /\ AttachedView(p, event).seq = event.content.seq
         /\ AttachedView(p, event).last = Hash(event)
         /\ AttachedView(p, event).state = row.view.state
  <1>1. /\ Revision[p] \in Int
        /\ event.content.seq \in Nat
        /\ Hash(event) \in Hashes
    BY HashType, ConstantsAssumption DEF Events, Contents
  <1>2. QED
    BY <1>1 DEF AttachedView, Views

LEMMA AppendedViewType ==
  ASSUME row.view \in Views, NEW target \in LifecycleStates, NEW event \in Events
  PROVE  /\ AppendedView(target, event) \in Views
         /\ AppendedView(target, event).plan = row.view.plan
         /\ AppendedView(target, event).revision = row.view.revision
         /\ AppendedView(target, event).seq = event.content.seq
         /\ AppendedView(target, event).last = Hash(event)
         /\ AppendedView(target, event).state = target
  <1>1. /\ event.content.seq \in Nat
        /\ Hash(event) \in Hashes
    BY HashType DEF Events, Contents
  <1>2. QED
    BY <1>1 DEF AppendedView, Views

(* Every variable keeps its shape through every call, commit and crash.    *)
THEOREM TypeCorrect == Spec => []TypeOK
  <1>1. Init => TypeOK
    BY ReplyType DEF Init, TypeOK
  <1>2. ASSUME TypeOK, [Next]_vars PROVE TypeOK'
    <2>1. ASSUME NEW c \in Clients, CreateSession(c) PROVE TypeOK'
      <3>1. CASE row = None /\ Opens(c, FirstEvent, TRUE, FirstView, Opened)
        BY <1>2, <3>1, OpensType, FirstEventType, FirstViewType, ReplyType
      <3>2. CASE Ends(c, IF RowReplays(row.view, journal) THEN Opened ELSE Refused)
        BY <1>2, <3>2, EndsType, ReplyType
      <3>3. QED
        BY <2>1, <3>1, <3>2 DEF CreateSession
    <2>2. ASSUME NEW c \in Clients, NEW key \in AppendKeys, NEW body \in Bodies,
                 NEW asked \in Targets, AppendEvent(c, key, body, asked)
          PROVE  TypeOK'
      <3>1. CASE Ends(c, Refused)
        BY <1>2, <3>1, EndsType, ReplyType
      <3>2. CASE AppendAgain(c, key, body, asked)
        <4>1. PICK i \in JournalledUnder(key), same \in BOOLEAN :
                Ends(c, IF same THEN Reply("event", AppendRequest(key, body, asked), journal[i])
                                ELSE Refused)
          BY <3>2 DEF AppendAgain
        <4>2. QED
          BY <1>2, <4>1, EndsType, ReplyType
      <3>3. CASE row # None /\ AppendNew(c, key, body, asked)
        <4> DEFINE target == IF asked = None THEN row.view.state ELSE asked
                   event == NextEvent(key, "appended", body, target)
        <4>1. row.view \in Views
          BY <1>2, <3>3 DEF TypeOK
        <4>2. /\ target \in LifecycleStates
              /\ key \in JournalKeys
              /\ body \in Bodies \cup Plans \cup {None}
          BY <4>1, ConstantsAssumption DEF Views, JournalKeys
        <4>3. event \in Events
          BY <4>1, <4>2, NextEventType
        <4>4. AppendedView(target, event) \in Views
          BY <4>1, <4>2, <4>3, AppendedViewType
        <4>5. \/ Ends(c, Refused)
              \/ Opens(c, event, TRUE, AppendedView(target, event),
                       Reply("event", AppendRequest(key, body, asked), event))
          BY <3>3 DEF AppendNew
        <4> HIDE DEF target, event
        <4>6. QED
          BY <1>2, <3>1, <4>3, <4>4, <4>5, OpensType, ReplyType
      <3>4. QED
        BY <2>2, <3>1, <3>2, <3>3 DEF AppendEvent
    <2>3. ASSUME NEW c \in Clients, NEW p \in Plans, AttachPlan(c, p) PROVE TypeOK'
      <3>1. CASE Ends(c, Refused)
        BY <1>2, <3>1, EndsType, ReplyType
      <3>2. ASSUME MayAttach(p) PROVE row.view \in Views
        BY <1>2, <3>2 DEF TypeOK, MayAttach
      <3>3. CASE MayAttach(p) /\ AttachAgain(c, p)
        <4>1. PICK i \in JournalledUnder(p) :
                \/ Ends(c, Refused)
                \/ Opens(c, journal[i], FALSE, AttachedView(p, journal[i]),
                         Reply("event", AttachRequest(p), journal[i]))
          BY <3>3 DEF AttachAgain
        <4>2. journal[i] \in Events
          BY <1>2, <4>1 DEF TypeOK, JournalledUnder
        <4>3. AttachedView(p, journal[i]) \in Views
          BY <3>2, <3>3, <4>2, AttachedViewType
        <4>4. QED
          BY <1>2, <3>1, <4>1, <4>2, <4>3, OpensType, ReplyType
      <3>4. CASE MayAttach(p) /\ AttachNew(c, p)
        <4> DEFINE event == NextEvent(p, "plan_attached", p, row.view.state)
        <4>1. p \in JournalKeys /\ p \in Bodies \cup Plans \cup {None}
          BY DEF JournalKeys
        <4>2. row.view.state \in LifecycleStates
          BY <3>2, <3>4 DEF Views
        <4>3. event \in Events
          BY <3>2, <3>4, <4>1, <4>2, NextEventType
        <4>4. AttachedView(p, event) \in Views
          BY <3>2, <3>4, <4>3, AttachedViewType
        <4>5. \/ Ends(c, Refused)
              \/ Opens(c, event, TRUE, AttachedView(p, event), Reply("event", AttachRequest(p), event))
          BY <3>4 DEF AttachNew
        <4> HIDE DEF event
        <4>6. QED
          BY <1>2, <3>1, <4>3, <4>4, <4>5, OpensType, ReplyType
      <3>5. QED
        BY <2>3, <3>1, <3>3, <3>4 DEF AttachPlan
    <2>4. ASSUME WriteSnapshot PROVE TypeOK'
      BY <1>2, <2>4 DEF TypeOK, WriteSnapshot
    <2>5. ASSUME Commit PROVE TypeOK'
      <3>1. \A i \in DOMAIN journal' : i \in Nat /\ journal'[i] \in Events
        BY <1>2, <2>5 DEF TypeOK, Commit, InsertEvent, Events, Contents
      <3>2. QED
        BY <1>2, <2>5, <3>1 DEF TypeOK, Commit, Answer
    <2>6. ASSUME NEW c \in Clients, ResumeRow(c) PROVE TypeOK'
      <3>1. CASE Ends(c, Refused)
        BY <1>2, <3>1, EndsType, ReplyType
      <3>2. CASE row # None /\ ~Ends(c, Refused)
        BY <1>2, <2>6, <3>2, ReplyType DEF TypeOK, ResumeRow, Answer
      <3>3. QED
        BY <2>6, <3>1, <3>2 DEF ResumeRow
    <2>7. ASSUME NEW c \in Clients, NEW r, r.outcome \in Outcomes, ResumeEnds(c, r)
          PROVE  TypeOK'
      BY <1>2, <2>7 DEF TypeOK, ResumeEnds, Answer
    <2>8. ASSUME NEW c \in Clients, ResumeEvents(c) PROVE TypeOK'
      <3>1. CASE ResumeEnds(c, Tampered)
        BY <2>7, <3>1, ReplyType
      <3>2. CASE /\ seen' = [seen EXCEPT ![c].events = journal]
                 /\ UNCHANGED <<row, journal, objects, casFiles, tx, reply>>
        BY <1>2, <2>8, <3>2 DEF TypeOK, ResumeEvents
      <3>3. QED
        BY <2>8, <3>1, <3>2 DEF ResumeEvents
    <2>9. ASSUME NEW c \in Clients, ResumeSnapshot(c) PROVE TypeOK'
      <3> DEFINE healthy == [Reply("healthy", None, None) EXCEPT !.resumed = seen[c]]
      <3>1. healthy.outcome \in Outcomes
        BY DEF Reply, Outcomes
      <3>2. \/ ResumeEnds(c, Tampered)
            \/ ResumeEnds(c, healthy)
            \/ ResumeEnds(c, Refused)
        BY <2>9 DEF ResumeSnapshot
      <3> HIDE DEF healthy
      <3>3. QED
        BY <2>7, <3>1, <3>2, ReplyType
    <2>10. ASSUME NEW c \in Clients, Crash(c) PROVE TypeOK'
      BY <1>2, <2>10, ReplyType DEF TypeOK, Crash, Answer
    <2>11. CASE UNCHANGED vars
      BY <1>2, <2>11 DEF TypeOK, vars
    <2>12. QED
      BY <1>2, <2>1, <2>2, <2>3, <2>4, <2>5, <2>6, <2>8, <2>9, <2>10, <2>11 DEF Next
  <1>3. QED
    BY <1>1, <1>2, PTL DEF Spec
-----------------------------------------------------------------------------
(* The inductive invariant.  n is the length of the journal.               *)

Chain(n) ==
  /\ DOMAIN journal = 1..n
  /\ \A i \in 1..n :
       /\ journal[i].content.seq = i
       /\ journal[i].prev = HashBefore(journal, i)
       /\ journal[i].content.from = StateBefore(journal, i)
       /\ MayMove(journal[i].content.from, journal[i].content.to)

(* The row's plan is the last one attached, and no attached plan has a     *)
(* higher revision.                                                        *)
PlanRow(view) ==
  /\ view.revision = IF view.plan = None THEN -1 ELSE Revision[view.plan]
  /\ \/ PlanEvents(journal) = {} /\ view.plan = None
     \/ \E m \in PlanEvents(journal) :
          /\ \A k \in PlanEvents(journal) : k <= m
          /\ journal[m].content.body = view.plan
  /\ \A i \in PlanEvents(journal) :
       /\ journal[i].content.body \in Plans
       /\ Revision[journal[i].content.body] <= view.revision

(* The row points at the last event, or back at the attachment of its own  *)
(* plan when that plan was attached again.                                 *)
RowAt(n) ==
  /\ row = None => n = 0
  /\ row # None =>
       /\ row.view.seq \in 1..n
       /\ row.view.last = Hash(journal[row.view.seq])
       /\ row.view.state = journal[n].content.to
       /\ row.view.seq < n => row.view.seq \in PlanEvents(journal)
       /\ PlanRow(row.view)

(* An open transaction either adds the event that comes next, with the     *)
(* columns that follow from it, or moves the row to an attachment that is  *)
(* journalled already.                                                     *)
AddsNext(n) ==
  /\ tx.event.content.seq = n + 1
  /\ tx.event.prev = HashBefore(journal, n + 1)
  /\ tx.event.content.from = StateBefore(journal, n + 1)
  /\ MayMove(tx.event.content.from, tx.event.content.to)
  /\ tx.view.seq = n + 1
  /\ tx.view.last = Hash(tx.event)
  /\ tx.view.state = tx.event.content.to
  /\ IF tx.event.content.kind = "plan_attached"
       THEN /\ row # None
            /\ tx.event.content.body \in Plans
            /\ tx.view.plan = tx.event.content.body
            /\ tx.view.revision = Revision[tx.view.plan]
            /\ row.view.revision <= tx.view.revision
       ELSE IF row = None
              THEN tx.view.plan = None /\ tx.view.revision = -1
              ELSE tx.view.plan = row.view.plan /\ tx.view.revision = row.view.revision

MovesBack ==
  /\ row # None
  /\ tx.view.seq \in PlanEvents(journal)
  /\ tx.view.last = Hash(journal[tx.view.seq])
  /\ tx.view.state = row.view.state
  /\ tx.view.plan = row.view.plan
  /\ tx.view.revision = row.view.revision

TxAt(n) == tx # None => IF tx.fresh THEN AddsNext(n) ELSE MovesBack

Sound(n) == Chain(n) /\ RowAt(n) /\ TxAt(n)

SoundInv == \E n \in Nat : Sound(n)
LEMMA StoredStays ==
  ASSUME NEW n \in Nat, Chain(n), RowAt(n), UNCHANGED <<row, journal>>
  PROVE  Chain(n)' /\ RowAt(n)'
  BY DEF Chain, RowAt, PlanRow, PlanEvents, HashBefore, StateBefore, Hash

(* A step that writes nothing and leaves the open transaction as it is, or *)
(* drops it.                                                               *)
LEMMA WritesNothing ==
  ASSUME NEW n \in Nat, Sound(n), UNCHANGED <<row, journal>>, tx' \in {tx, None}
  PROVE  Sound(n)'
  <1>1. Chain(n)' /\ RowAt(n)'
    BY StoredStays DEF Sound
  <1>2. TxAt(n)'
    BY DEF Sound, TxAt, AddsNext, MovesBack, PlanEvents, HashBefore, StateBefore, Hash
  <1>3. QED
    BY <1>1, <1>2 DEF Sound

LEMMA AppendOpens ==
  ASSUME TypeOK, NEW n \in Nat, Sound(n), row # None,
         NEW c \in Clients, NEW key \in AppendKeys, NEW body \in Bodies,
         NEW asked \in Targets, AppendNew(c, key, body, asked)
  PROVE  Sound(n)'
  <1> DEFINE target == IF asked = None THEN row.view.state ELSE asked
             event == NextEvent(key, "appended", body, target)
             view == AppendedView(target, event)
  <1>1. CASE Ends(c, Refused)
    BY <1>1, WritesNothing DEF Ends
  <1>2. CASE /\ MayMove(row.view.state, target)
             /\ ~Clashes(event)
             /\ Opens(c, event, TRUE, view, Reply("event", AppendRequest(key, body, asked), event))
    <2>1. /\ row.view \in Views
          /\ row.view.seq \in Nat
          /\ target \in LifecycleStates
          /\ key \in JournalKeys
          /\ body \in Bodies \cup Plans \cup {None}
      BY ConstantsAssumption DEF TypeOK, Views, JournalKeys
    <2>2. /\ event \in Events
          /\ event.content.seq = row.view.seq + 1
          /\ event.content.kind = "appended"
          /\ event.content.from = row.view.state
          /\ event.content.to = target
          /\ event.prev = row.view.last
      BY <2>1, NextEventType
    <2>3. /\ view.plan = row.view.plan
          /\ view.revision = row.view.revision
          /\ view.seq = event.content.seq
          /\ view.last = Hash(event)
          /\ view.state = target
      BY <2>1, <2>2, AppendedViewType
    <2>4. row.view.seq = n
      <3> HIDE DEF event
      <3>1. row.view.seq + 1 \notin DOMAIN journal
        BY <1>2, <2>2 DEF Clashes
      <3>2. QED
        BY <2>1, <3>1 DEF Sound, Chain, RowAt
    <2> HIDE DEF target, event, view
    <2>5. /\ UNCHANGED <<row, journal>>
          /\ tx'.event = event /\ tx'.fresh = TRUE /\ tx'.view = view
      BY <1>2 DEF Opens
    <2>6. n \in Nat \ {0}
      BY <2>4 DEF Sound, RowAt
    <2>7. /\ event.prev = HashBefore(journal, n + 1)
          /\ event.content.from = StateBefore(journal, n + 1)
      <3>1. n + 1 # 1 /\ n + 1 - 1 = n
        BY <2>6
      <3>2. /\ row.view.last = Hash(journal[n])
            /\ row.view.state = journal[n].content.to
        BY <2>4 DEF Sound, RowAt
      <3>3. QED
        BY <2>2, <3>1, <3>2 DEF HashBefore, StateBefore
    <2>8. /\ tx'.event.prev = HashBefore(journal, n + 1)'
          /\ tx'.event.content.from = StateBefore(journal, n + 1)'
          /\ tx'.view.last = Hash(tx.event)'
      BY <2>3, <2>5, <2>7 DEF HashBefore, StateBefore, Hash
    <2>9. AddsNext(n)'
      BY <1>2, <2>2, <2>3, <2>4, <2>5, <2>8 DEF AddsNext
    <2>10. QED
      BY <2>5, <2>9, StoredStays DEF Sound, TxAt
  <1>3. QED
    BY <1>1, <1>2 DEF AppendNew

LEMMA AttachOpens ==
  ASSUME TypeOK, NEW n \in Nat, Sound(n), NEW c \in Clients, NEW p \in Plans,
         MayAttach(p), AttachNew(c, p)
  PROVE  Sound(n)'
  <1> DEFINE event == NextEvent(p, "plan_attached", p, row.view.state)
             view == AttachedView(p, event)
  <1>1. CASE Ends(c, Refused)
    BY <1>1, WritesNothing DEF Ends
  <1>2. CASE /\ ~Clashes(event)
             /\ Opens(c, event, TRUE, view, Reply("event", AttachRequest(p), event))
    <2>1. /\ row # None
          /\ row.view \in Views
          /\ row.view.seq \in Nat
          /\ row.view.revision \in Int
          /\ row.view.state \in LifecycleStates
          /\ p \in JournalKeys
          /\ p \in Bodies \cup Plans \cup {None}
      BY DEF MayAttach, TypeOK, Views, JournalKeys
    <2>2. /\ event \in Events
          /\ event.content.seq = row.view.seq + 1
          /\ event.content.kind = "plan_attached"
          /\ event.content.body = p
          /\ event.content.from = row.view.state
          /\ event.content.to = row.view.state
          /\ event.prev = row.view.last
      BY <2>1, NextEventType
    <2>3. /\ view.plan = p
          /\ view.revision = Revision[p]
          /\ view.seq = event.content.seq
          /\ view.last = Hash(event)
          /\ view.state = row.view.state
      BY <2>1, <2>2, AttachedViewType
    <2>4. row.view.seq = n
      <3> HIDE DEF event
      <3>1. row.view.seq + 1 \notin DOMAIN journal
        BY <1>2, <2>2 DEF Clashes
      <3>2. QED
        BY <2>1, <3>1 DEF Sound, Chain, RowAt
    <2>5. Revision[p] \in Nat /\ row.view.revision <= Revision[p]
      BY <2>1, ConstantsAssumption DEF MayAttach
    <2> HIDE DEF event, view
    <2>6. /\ UNCHANGED <<row, journal>>
          /\ tx'.event = event /\ tx'.fresh = TRUE /\ tx'.view = view
      BY <1>2 DEF Opens
    <2>7. n \in Nat \ {0}
      BY <2>1, <2>4 DEF Sound, RowAt
    <2>8. /\ event.prev = HashBefore(journal, n + 1)
          /\ event.content.from = StateBefore(journal, n + 1)
      <3>1. n + 1 # 1 /\ n + 1 - 1 = n
        BY <2>7
      <3>2. /\ row.view.last = Hash(journal[n])
            /\ row.view.state = journal[n].content.to
        BY <2>1, <2>4 DEF Sound, RowAt
      <3>3. QED
        BY <2>2, <3>1, <3>2 DEF HashBefore, StateBefore
    <2>9. /\ tx'.event.prev = HashBefore(journal, n + 1)'
          /\ tx'.event.content.from = StateBefore(journal, n + 1)'
          /\ tx'.view.last = Hash(tx.event)'
      BY <2>3, <2>6, <2>8 DEF HashBefore, StateBefore, Hash
    <2>10. AddsNext(n)'
      BY <2>1, <2>2, <2>3, <2>4, <2>5, <2>6, <2>9 DEF AddsNext, MayMove
    <2>11. QED
      BY <2>6, <2>10, StoredStays DEF Sound, TxAt
  <1>3. QED
    BY <1>1, <1>2 DEF AttachNew

(* Attaching a journalled plan again gets past attach_plan's guards only   *)
(* for the current plan.                                                   *)
LEMMA ReattachOpens ==
  ASSUME TypeOK, NEW n \in Nat, Sound(n), NEW c \in Clients, NEW p \in Plans,
         MayAttach(p), AttachAgain(c, p)
  PROVE  Sound(n)'
  <1>1. CASE Ends(c, Refused)
    BY <1>1, WritesNothing DEF Ends
  <1>2. ASSUME NEW i \in DOMAIN journal,
               journal[i].content.kind = "plan_attached",
               journal[i].content.body = p,
               Opens(c, journal[i], FALSE, AttachedView(p, journal[i]),
                     Reply("event", AttachRequest(p), journal[i]))
        PROVE  Sound(n)'
    <2>1. /\ row # None
          /\ row.view \in Views
          /\ row.view.revision \in Int
          /\ journal[i] \in Events
          /\ Revision[p] \in Nat
      BY <1>2, ConstantsAssumption DEF MayAttach, TypeOK, Views
    <2>2. /\ i \in PlanEvents(journal)
          /\ journal[i].content.seq = i
      BY <1>2 DEF PlanEvents, Sound, Chain
    <2>3. Revision[p] <= row.view.revision
      BY <1>2, <2>1, <2>2 DEF Sound, RowAt, PlanRow
    <2>4. p = row.view.plan /\ Revision[p] = row.view.revision
      BY <2>1, <2>3 DEF MayAttach
    <2> DEFINE view == AttachedView(p, journal[i])
    <2>5. /\ view.plan = row.view.plan
          /\ view.revision = row.view.revision
          /\ view.seq = i
          /\ view.last = Hash(journal[i])
          /\ view.state = row.view.state
      BY <2>1, <2>2, <2>4, AttachedViewType
    <2> HIDE DEF view
    <2>6. /\ UNCHANGED <<row, journal>>
          /\ tx'.fresh = FALSE /\ tx'.view = view
      BY <1>2 DEF Opens, view
    <2>7. MovesBack'
      BY <2>1, <2>2, <2>5, <2>6 DEF MovesBack, PlanEvents, Hash
    <2>8. QED
      BY <2>6, <2>7, StoredStays DEF Sound, TxAt
  <1>3. QED
    BY <1>1, <1>2 DEF AttachAgain, JournalledUnder

LEMMA CreateOpens ==
  ASSUME TypeOK, NEW n \in Nat, Sound(n), NEW c \in Clients, CreateSession(c)
  PROVE  Sound(n)'
  <1>1. CASE row # None
    BY <1>1, WritesNothing DEF CreateSession, Ends
  <1>2. CASE row = None /\ Opens(c, FirstEvent, TRUE, FirstView, Opened)
    <2>1. n = 0
      BY <1>2 DEF Sound, RowAt
    <2>2. /\ UNCHANGED <<row, journal>>
          /\ tx'.event = FirstEvent /\ tx'.fresh = TRUE /\ tx'.view = FirstView
      BY <1>2 DEF Opens
    <2>3. AddsNext(n)'
      BY <1>2, <2>1, <2>2 DEF AddsNext, FirstEvent, FirstView, Event,
                              HashBefore, StateBefore, MayMove, Hash
    <2>4. QED
      BY <2>2, <2>3, StoredStays DEF Sound, TxAt
  <1>3. QED
    BY <1>1, <1>2 DEF CreateSession
LEMMA CommitMovesBack ==
  ASSUME TypeOK, NEW n \in Nat, Sound(n), Commit, ~tx.fresh
  PROVE  Sound(n)'
  <1>1. /\ MovesBack
        /\ journal' = journal
        /\ row'.view = tx.view
        /\ tx' = None
    BY DEF Commit, Sound, TxAt
  <1>2. Chain(n)'
    BY <1>1 DEF Sound, Chain, HashBefore, StateBefore, Hash
  <1>3. RowAt(n)'
    <2>1. /\ tx.view.seq \in 1..n
          /\ row # None
          /\ n # 0
      BY <1>1 DEF MovesBack, PlanEvents, Sound, Chain
    <2>2. tx.view.state = journal[n].content.to
      BY <1>1, <2>1 DEF MovesBack, Sound, RowAt
    <2>3. PlanRow(tx.view)
      BY <1>1, <2>1 DEF MovesBack, Sound, RowAt, PlanRow
    <2>4. row' # None
      BY NoneAssumption DEF Commit, TypeOK
    <2>5. PlanRow(row.view)'
      BY <1>1, <2>3 DEF PlanRow, PlanEvents
    <2>6. QED
      BY <1>1, <2>1, <2>2, <2>4, <2>5 DEF RowAt, MovesBack, PlanEvents, Hash
  <1>4. QED
    BY <1>1, <1>2, <1>3 DEF Sound, TxAt

LEMMA CommitAddsNext ==
  ASSUME TypeOK, NEW n \in Nat, Sound(n), Commit, tx.fresh
  PROVE  Sound(n + 1)'
  <1>1. /\ AddsNext(n)
        /\ Chain(n)
        /\ RowAt(n)
        /\ journal' = InsertEvent(tx.event)
        /\ row'.view = tx.view
        /\ tx' = None
    BY DEF Commit, Sound, TxAt
  <1>2. /\ DOMAIN journal' = 1..(n + 1)
        /\ \A i \in 1..n : journal'[i] = journal[i]
        /\ journal'[n + 1] = tx.event
    BY <1>1 DEF InsertEvent, AddsNext, Chain
  <1>3. \A i \in 1..(n + 1) : /\ HashBefore(journal', i) = HashBefore(journal, i)
                              /\ StateBefore(journal', i) = StateBefore(journal, i)
    <2>1. \A i \in 1..(n + 1) : i # 1 => journal'[i - 1] = journal[i - 1]
      BY <1>2
    <2>2. QED
      BY <2>1 DEF HashBefore, StateBefore
  <1>4. Chain(n + 1)'
    <2>1. ASSUME NEW i \in 1..(n + 1)
          PROVE  /\ journal'[i].content.seq = i
                 /\ journal'[i].prev = HashBefore(journal', i)
                 /\ journal'[i].content.from = StateBefore(journal', i)
                 /\ MayMove(journal'[i].content.from, journal'[i].content.to)
      <3>1. CASE i \in 1..n
        BY <1>1, <1>2, <1>3, <3>1 DEF Chain
      <3>2. CASE i = n + 1
        BY <1>1, <1>2, <1>3, <3>2 DEF AddsNext
      <3>3. QED
        BY <3>1, <3>2
    <2>2. QED
      BY <1>2, <2>1 DEF Chain, HashBefore, StateBefore, Hash
  <1>5. row' # None
    BY NoneAssumption DEF Commit, TypeOK
  <1>6. PlanEvents(journal') = IF tx.event.content.kind = "plan_attached"
                                 THEN PlanEvents(journal) \cup {n + 1}
                                 ELSE PlanEvents(journal)
    BY <1>1, <1>2 DEF PlanEvents, Chain
  <1>7. PlanRow(row.view)'
    <2>1. PlanEvents(journal) \subseteq 1..n
      BY <1>1 DEF PlanEvents, Chain
    <2>2. CASE tx.event.content.kind = "plan_attached"
      <3>1. /\ row # None
            /\ tx.event.content.body \in Plans
            /\ tx.view.plan = tx.event.content.body
            /\ tx.view.revision = Revision[tx.view.plan]
            /\ row.view.revision <= tx.view.revision
            /\ tx.view.plan # None
        BY <1>1, <2>2, ConstantsAssumption DEF AddsNext
      <3>2. /\ PlanEvents(journal') = PlanEvents(journal) \cup {n + 1}
            /\ journal'[n + 1].content.body = tx.view.plan
        BY <1>2, <1>6, <2>2, <3>1
      <3>3. \A k \in PlanEvents(journal') : k <= n + 1
        BY <2>1, <3>2
      <3>4. /\ row.view.revision \in Int
            /\ \A q \in Plans : Revision[q] \in Int
            /\ tx.view.revision \in Int
        BY <3>1, ConstantsAssumption DEF TypeOK, Views
      <3>5. ASSUME NEW i \in PlanEvents(journal')
            PROVE  /\ journal'[i].content.body \in Plans
                   /\ Revision[journal'[i].content.body] <= tx.view.revision
        <4>1. CASE i = n + 1
          BY <3>1, <3>2, <3>4, <4>1
        <4>2. CASE i \in PlanEvents(journal)
          <5>1. /\ journal'[i] = journal[i]
                /\ journal[i].content.body \in Plans
                /\ Revision[journal[i].content.body] <= row.view.revision
            BY <1>1, <1>2, <2>1, <3>1, <4>2 DEF RowAt, PlanRow
          <5>2. QED
            BY <3>1, <3>4, <5>1
        <4>3. QED
          BY <3>2, <3>5, <4>1, <4>2
      <3>6. QED
        BY <1>1, <3>1, <3>2, <3>3, <3>5 DEF PlanRow
    <2>3. CASE tx.event.content.kind # "plan_attached"
      <3>1. PlanEvents(journal') = PlanEvents(journal)
        BY <1>6, <2>3
      <3>2. \A i \in PlanEvents(journal') : journal'[i] = journal[i]
        BY <1>2, <2>1, <3>1
      <3>3. CASE row = None
        <4>1. tx.view.plan = None /\ tx.view.revision = -1
          BY <1>1, <2>3, <3>3 DEF AddsNext
        <4>2. PlanEvents(journal) = {}
          BY <1>1, <2>1, <3>3 DEF RowAt
        <4>3. QED
          BY <1>1, <3>1, <4>1, <4>2 DEF PlanRow
      <3>4. CASE row # None
        <4>1. tx.view.plan = row.view.plan /\ tx.view.revision = row.view.revision
          BY <1>1, <2>3, <3>4 DEF AddsNext
        <4>2. QED
          BY <1>1, <3>1, <3>2, <3>4, <4>1 DEF RowAt, PlanRow
      <3>5. QED
        BY <3>3, <3>4
    <2>4. QED
      BY <2>2, <2>3
  <1>8. RowAt(n + 1)'
    <2>1. /\ tx.view.seq = n + 1
          /\ tx.view.last = Hash(tx.event)
          /\ tx.view.state = tx.event.content.to
      BY <1>1 DEF AddsNext
    <2>2. n + 1 \in 1..(n + 1) /\ ~(n + 1 < n + 1)
      OBVIOUS
    <2>3. /\ row'.view.seq = n + 1
          /\ row'.view.last = Hash(journal'[n + 1])
          /\ row'.view.state = journal'[n + 1].content.to
      BY <1>1, <1>2, <2>1
    <2>4. row'.view.last = Hash(journal[n + 1])'
      BY <2>3 DEF Hash
    <2>5. QED
      BY <1>5, <1>7, <2>2, <2>3, <2>4 DEF RowAt
  <1>9. QED
    BY <1>1, <1>4, <1>8 DEF Sound, TxAt
LEMMA SoundInvariant == Spec => []SoundInv
  <1>1. Init => SoundInv
    <2> SUFFICES ASSUME Init PROVE Sound(0)
      BY DEF SoundInv
    <2>1. DOMAIN journal = 1..0 /\ row = None /\ tx = None
      BY DEF Init
    <2>2. QED
      BY <2>1 DEF Sound, Chain, RowAt, TxAt
  <1>2. ASSUME TypeOK, SoundInv, [Next]_vars PROVE SoundInv'
    <2>1. PICK n \in Nat : Sound(n)
      BY <1>2 DEF SoundInv
    <2>2. SUFFICES \E m \in Nat : Sound(m)'
      BY DEF SoundInv
    <2>3. ASSUME NEW c \in Clients, CreateSession(c) PROVE Sound(n)'
      BY <1>2, <2>1, <2>3, CreateOpens
    <2>4. ASSUME NEW c \in Clients, NEW key \in AppendKeys, NEW body \in Bodies,
                 NEW asked \in Targets, AppendEvent(c, key, body, asked)
          PROVE  Sound(n)'
      <3>1. CASE Ends(c, Refused)
        BY <2>1, <3>1, WritesNothing DEF Ends
      <3>2. CASE AppendAgain(c, key, body, asked)
        BY <2>1, <3>2, WritesNothing DEF AppendAgain, Ends
      <3>3. CASE row # None /\ AppendNew(c, key, body, asked)
        BY <1>2, <2>1, <3>3, AppendOpens
      <3>4. QED
        BY <2>4, <3>1, <3>2, <3>3 DEF AppendEvent
    <2>5. ASSUME NEW c \in Clients, NEW p \in Plans, AttachPlan(c, p) PROVE Sound(n)'
      <3>1. CASE Ends(c, Refused)
        BY <2>1, <3>1, WritesNothing DEF Ends
      <3>2. CASE MayAttach(p) /\ AttachAgain(c, p)
        BY <1>2, <2>1, <3>2, ReattachOpens
      <3>3. CASE MayAttach(p) /\ AttachNew(c, p)
        BY <1>2, <2>1, <3>3, AttachOpens
      <3>4. QED
        BY <2>5, <3>1, <3>2, <3>3 DEF AttachPlan
    <2>6. ASSUME WriteSnapshot PROVE Sound(n)'
      <3>1. /\ UNCHANGED <<row, journal>>
            /\ tx # None
            /\ tx'.event = tx.event /\ tx'.fresh = tx.fresh /\ tx'.view = tx.view
        BY <2>6 DEF WriteSnapshot
      <3>2. Chain(n)' /\ RowAt(n)'
        BY <2>1, <3>1, StoredStays DEF Sound
      <3>3. TxAt(n)'
        BY <2>1, <3>1 DEF Sound, TxAt, AddsNext, MovesBack, PlanEvents,
                          HashBefore, StateBefore, Hash
      <3>4. QED
        BY <3>2, <3>3 DEF Sound
    <2>7. ASSUME Commit PROVE \E m \in Nat : Sound(m)'
      <3>1. CASE tx.fresh
        <4>1. Sound(n + 1)'
          BY <1>2, <2>1, <2>7, <3>1, CommitAddsNext
        <4>2. QED
          BY <4>1
      <3>2. CASE ~tx.fresh
        BY <1>2, <2>1, <2>7, <3>2, CommitMovesBack
      <3>3. QED
        BY <3>1, <3>2
    <2>8. ASSUME NEW c \in Clients,
                 ResumeRow(c) \/ ResumeEvents(c) \/ ResumeSnapshot(c)
          PROVE  Sound(n)'
      BY <2>1, <2>8, WritesNothing
         DEF ResumeRow, ResumeEvents, ResumeSnapshot, ResumeEnds, Ends
    <2>9. ASSUME NEW c \in Clients, Crash(c) PROVE Sound(n)'
      BY <2>1, <2>9, WritesNothing DEF Crash
    <2>10. CASE UNCHANGED vars
      BY <2>1, <2>10, WritesNothing DEF vars
    <2>11. QED
      BY <1>2, <2>3, <2>4, <2>5, <2>6, <2>7, <2>8, <2>9, <2>10 DEF Next
  <1>3. QED
    BY <1>1, <1>2, TypeCorrect, PTL DEF Spec

-----------------------------------------------------------------------------
(* What follows from it.                                                   *)

(* The journal replays after every interleaving of calls and crashes: the  *)
(* checks resume() makes of the events alone can never fail.               *)
THEOREM JournalAlwaysReplays == Spec => []JournalReplays
  <1>1. SoundInv => JournalReplays
    <2> SUFFICES ASSUME NEW n \in Nat, Sound(n), row # None PROVE Replays(journal)
      BY DEF SoundInv, JournalReplays
    <2>1. Cardinality(DOMAIN journal) = n
      BY Length DEF Sound, Chain
    <2>2. n > 0
      BY DEF Sound, RowAt
    <2>3. QED
      BY <2>1, <2>2 DEF Replays, Sound, Chain
  <1>2. QED
    BY <1>1, SoundInvariant, PTL

LEMMA LastPlan ==
  ASSUME NEW n \in Nat, DOMAIN journal = 1..n, NEW m \in PlanEvents(journal),
         \A k \in PlanEvents(journal) : k <= m
  PROVE  JournalPlan(journal) = journal[m].content.body
  <1>1. PlanEvents(journal) \subseteq Nat
    BY DEF PlanEvents
  <1> DEFINE last == CHOOSE i \in PlanEvents(journal) :
                       \A k \in PlanEvents(journal) : k <= i
  <1>2. last \in PlanEvents(journal) /\ \A k \in PlanEvents(journal) : k <= last
    OBVIOUS
  <1>3. last = m
    <2> HIDE DEF last
    <2>1. QED
      BY <1>1, <1>2
  <1>4. QED
    BY <1>3 DEF JournalPlan

(* The row never runs ahead of the journal, and agrees with it on state    *)
(* and plan, even after a late second attach_plan has moved it back.       *)
THEOREM RowStaysWithinJournal == Spec => []RowWithinJournal
  <1>1. SoundInv => RowWithinJournal
    <2> SUFFICES ASSUME NEW n \in Nat, Sound(n), row # None PROVE RowWithinJournal
      BY DEF SoundInv, RowWithinJournal
    <2>1. Cardinality(DOMAIN journal) = n /\ DOMAIN journal = 1..n
      BY Length DEF Sound, Chain
    <2>2. row.view.plan = JournalPlan(journal)
      <3>1. CASE PlanEvents(journal) = {} /\ row.view.plan = None
        BY <3>1 DEF JournalPlan
      <3>2. CASE \E m \in PlanEvents(journal) :
                   /\ \A k \in PlanEvents(journal) : k <= m
                   /\ journal[m].content.body = row.view.plan
        BY <2>1, <3>2, LastPlan
      <3>3. QED
        BY <3>1, <3>2 DEF Sound, RowAt, PlanRow
    <2>3. QED
      BY <2>1, <2>2 DEF Sound, RowAt, RowWithinJournal
  <1>2. QED
    BY <1>1, SoundInvariant, PTL

(* A transaction that says its snapshot is stored has it on disk.          *)
StoredInv == tx # None /\ tx.stored => tx.view \in casFiles

(* The snapshot a row names is always indexed and on disk, because the     *)
(* file is in place before COMMIT and no crash removes it.                 *)
THEOREM SnapshotAlwaysStored == Spec => []SnapshotStored
  <1>1. Init => SnapshotStored /\ StoredInv
    BY DEF Init, SnapshotStored, StoredInv
  <1>2. ASSUME SnapshotStored, StoredInv, [Next]_vars
        PROVE  SnapshotStored' /\ StoredInv'
    <2>1. ASSUME NEW c \in Clients, NEW r, Ends(c, r)
          PROVE  SnapshotStored' /\ StoredInv'
      BY <1>2, <2>1 DEF Ends, SnapshotStored, StoredInv
    <2>2. ASSUME NEW c \in Clients, NEW e, NEW f, NEW v, NEW a, Opens(c, e, f, v, a)
          PROVE  SnapshotStored' /\ StoredInv'
      BY <1>2, <2>2 DEF Opens, SnapshotStored, StoredInv
    <2>3. ASSUME NEW c \in Clients, CreateSession(c)
          PROVE  SnapshotStored' /\ StoredInv'
      BY <2>1, <2>2, <2>3 DEF CreateSession
    <2>4. ASSUME NEW c \in Clients, NEW key \in AppendKeys, NEW body \in Bodies,
                 NEW asked \in Targets, AppendEvent(c, key, body, asked)
          PROVE  SnapshotStored' /\ StoredInv'
      BY <2>1, <2>2, <2>4 DEF AppendEvent, AppendAgain, AppendNew
    <2>5. ASSUME NEW c \in Clients, NEW p \in Plans, AttachPlan(c, p)
          PROVE  SnapshotStored' /\ StoredInv'
      BY <2>1, <2>2, <2>5 DEF AttachPlan, AttachAgain, AttachNew
    <2>6. ASSUME WriteSnapshot PROVE SnapshotStored' /\ StoredInv'
      BY <1>2, <2>6 DEF WriteSnapshot, SnapshotStored, StoredInv
    <2>7. ASSUME Commit PROVE SnapshotStored' /\ StoredInv'
      BY <1>2, <2>7 DEF Commit, SnapshotStored, StoredInv
    <2>8. ASSUME NEW c \in Clients,
                 ResumeRow(c) \/ ResumeEvents(c) \/ ResumeSnapshot(c)
          PROVE  SnapshotStored' /\ StoredInv'
      <3>1. UNCHANGED <<row, objects, casFiles, tx>>
        BY <2>8 DEF ResumeRow, ResumeEvents, ResumeSnapshot, ResumeEnds, Ends
      <3>2. QED
        BY <1>2, <3>1 DEF SnapshotStored, StoredInv
    <2>9. ASSUME NEW c \in Clients, Crash(c) PROVE SnapshotStored' /\ StoredInv'
      <3>1. UNCHANGED <<row, objects, casFiles>> /\ tx' \in {tx, None}
        BY <2>9 DEF Crash
      <3>2. QED
        BY <1>2, <3>1 DEF SnapshotStored, StoredInv
    <2>10. CASE UNCHANGED vars
      BY <1>2, <2>10 DEF vars, SnapshotStored, StoredInv
    <2>11. QED
      BY <1>2, <2>3, <2>4, <2>5, <2>6, <2>7, <2>8, <2>9, <2>10 DEF Next
  <1>3. QED
    BY <1>1, <1>2, PTL DEF Spec

-----------------------------------------------------------------------------
(* Plans.                                                                  *)

(* What an open transaction does to the row's plan.                        *)
PlanStep ==
  tx # None /\ row # None /\ tx.view.plan # row.view.plan =>
    tx.view.revision > row.view.revision

(* The row's plan is only ever replaced by one of a higher revision: what  *)
(* attach_plan compared is still the row when its transaction commits.     *)
THEOREM PlansAlwaysMoveForward == Spec => PlanMovesForward
  <1>1. Init => PlanStep
    BY DEF Init, PlanStep
  <1>2. ASSUME TypeOK, PlanStep, [Next]_vars
        PROVE  /\ PlanStep'
               /\ row # None /\ row' # None /\ row'.view.plan # row.view.plan =>
                    row'.view.revision > row.view.revision
    <2>1. ASSUME UNCHANGED row, tx' \in {tx, None} PROVE PlanStep'
      BY <1>2, <2>1 DEF PlanStep
    <2>2. ASSUME NEW c \in Clients, CreateSession(c) PROVE PlanStep' /\ UNCHANGED row
      BY <2>1, <2>2 DEF CreateSession, Ends, Opens, PlanStep
    <2>3. ASSUME NEW c \in Clients, NEW key \in AppendKeys, NEW body \in Bodies,
                 NEW asked \in Targets, AppendEvent(c, key, body, asked)
          PROVE  PlanStep' /\ UNCHANGED row
      <3>1. ASSUME NEW r, Ends(c, r) PROVE PlanStep' /\ UNCHANGED row
        BY <2>1, <3>1 DEF Ends
      <3>2. ASSUME NEW target, NEW event, NEW a,
                   Opens(c, event, TRUE, AppendedView(target, event), a)
            PROVE  PlanStep' /\ UNCHANGED row
        <4>1. CASE row = None
          BY <3>2, <4>1 DEF Opens, PlanStep
        <4>2. CASE row # None
          <5>1. row.view \in Views
            BY <1>2, <4>2 DEF TypeOK
          <5>2. AppendedView(target, event).plan = row.view.plan
            BY <5>1 DEF AppendedView, Views
          <5>3. QED
            BY <3>2, <5>2 DEF Opens, PlanStep
        <4>3. QED
          BY <4>1, <4>2
      <3>3. QED
        BY <2>3, <3>1, <3>2 DEF AppendEvent, AppendAgain, AppendNew
    <2>4. ASSUME NEW c \in Clients, NEW p \in Plans, AttachPlan(c, p)
          PROVE  PlanStep' /\ UNCHANGED row
      <3>1. ASSUME NEW r, Ends(c, r) PROVE PlanStep' /\ UNCHANGED row
        BY <2>1, <3>1 DEF Ends
      <3>2. ASSUME MayAttach(p), NEW event, NEW fresh, NEW a,
                   Opens(c, event, fresh, AttachedView(p, event), a)
            PROVE  PlanStep' /\ UNCHANGED row
        <4>1. row.view \in Views
          BY <1>2, <3>2 DEF TypeOK, MayAttach
        <4>2. /\ AttachedView(p, event).plan = p
              /\ AttachedView(p, event).revision = Revision[p]
          BY <4>1 DEF AttachedView, Views
        <4>3. Revision[p] > row.view.revision \/ p = row.view.plan
          BY <3>2 DEF MayAttach
        <4>4. QED
          BY <3>2, <4>2, <4>3 DEF Opens, PlanStep
      <3>3. QED
        BY <2>4, <3>1, <3>2 DEF AttachPlan, AttachAgain, AttachNew
    <2>5. ASSUME WriteSnapshot PROVE PlanStep' /\ UNCHANGED row
      BY <1>2, <2>5 DEF WriteSnapshot, PlanStep
    <2>6. ASSUME Commit
          PROVE  /\ PlanStep'
                 /\ row # None /\ row'.view.plan # row.view.plan =>
                      row'.view.revision > row.view.revision
      BY <1>2, <2>6 DEF Commit, PlanStep
    <2>7. ASSUME NEW c \in Clients,
                 ResumeRow(c) \/ ResumeEvents(c) \/ ResumeSnapshot(c)
          PROVE  PlanStep' /\ UNCHANGED row
      BY <2>1, <2>7 DEF ResumeRow, ResumeEvents, ResumeSnapshot, ResumeEnds, Ends
    <2>8. ASSUME NEW c \in Clients, Crash(c) PROVE PlanStep' /\ UNCHANGED row
      BY <2>1, <2>8 DEF Crash
    <2>9. CASE UNCHANGED vars
      BY <2>1, <2>9 DEF vars
    <2>10. QED
      BY <1>2, <2>2, <2>3, <2>4, <2>5, <2>6, <2>7, <2>8, <2>9 DEF Next, vars
  <1>3. QED
    BY <1>1, <1>2, TypeCorrect, PTL DEF Spec, PlanMovesForward

-----------------------------------------------------------------------------
(* Answers.                                                                *)

Journalled(event) == \E i \in DOMAIN journal : journal[i] = event

(* The event is of the key, type and data the request names.               *)
Matches(event, asked) ==
  /\ event.content.key = asked.key
  /\ event.content.kind = asked.kind
  /\ event.content.body = asked.body

Answered ==
  \A c \in Clients :
    reply[c].outcome = "event" => /\ Journalled(reply[c].event)
                                  /\ Matches(reply[c].event, reply[c].asked)

KeysOnce ==
  \A i, k \in DOMAIN journal : journal[i].content.key = journal[k].content.key => i = k

(* What the caller of an open transaction has been told, and will be.      *)
Owed ==
  tx # None =>
    /\ reply[tx.client].event = None
    /\ \/ /\ tx.answer.outcome = "event"
          /\ tx.answer.event = tx.event
          /\ Matches(tx.event, tx.answer.asked)
       \/ /\ tx.answer.outcome = "opened"
          /\ tx.answer.event = None
          /\ tx.fresh
    /\ IF tx.fresh THEN JournalledUnder(tx.event.content.key) = {}
                   ELSE Journalled(tx.event)

AnswerInv == Answered /\ KeysOnce /\ Owed

LEMMA OpensOwing ==
  ASSUME TypeOK, AnswerInv, NEW c \in Clients, NEW event, NEW fresh, NEW view,
         NEW answer, Opens(c, event, fresh, view, answer),
         \/ answer = Opened /\ fresh
         \/ \E asked : answer = Reply("event", asked, event) /\ Matches(event, asked),
         IF fresh THEN JournalledUnder(event.content.key) = {}
                  ELSE Journalled(event)
  PROVE  AnswerInv'
  <1>1. /\ reply' = [reply EXCEPT ![c] = NoReply]
        /\ UNCHANGED journal
        /\ tx'.client = c /\ tx'.event = event /\ tx'.fresh = fresh /\ tx'.answer = answer
    BY DEF Opens, Answer
  <1>2. Answered' /\ KeysOnce'
    BY <1>1 DEF AnswerInv, Answered, KeysOnce, TypeOK, NoReply, Reply, Journalled
  <1>3. reply'[c].event = None
    BY <1>1 DEF TypeOK, NoReply, Reply
  <1>4. \/ answer.outcome = "event" /\ answer.event = event /\ Matches(event, answer.asked)
        \/ answer.outcome = "opened" /\ answer.event = None /\ fresh
    BY DEF Opened, Reply
  <1>5. IF fresh THEN JournalledUnder(event.content.key)' = {} ELSE Journalled(event)'
    BY <1>1 DEF JournalledUnder, Journalled
  <1>6. Owed'
    BY <1>1, <1>3, <1>4, <1>5 DEF Owed, JournalledUnder, Journalled, Matches
  <1>7. QED
    BY <1>2, <1>6 DEF AnswerInv

(* A call that ends with what is journalled, or with nothing.              *)
LEMMA AnswersOwing ==
  ASSUME TypeOK, AnswerInv, NEW c \in Clients, NEW r,
         reply' = [reply EXCEPT ![c] = r], UNCHANGED journal, tx' \in {tx, None},
         \/ r.outcome # "event" /\ r.event = None
         \/ tx = None /\ Journalled(r.event) /\ Matches(r.event, r.asked)
  PROVE  AnswerInv'
  <1>1. Answered' /\ KeysOnce'
    BY DEF AnswerInv, Answered, KeysOnce, TypeOK, Journalled
  <1>2. Owed'
    BY DEF AnswerInv, Owed, TypeOK, Journalled, JournalledUnder
  <1>3. QED
    BY <1>1, <1>2 DEF AnswerInv

LEMMA PlainReplies ==
  \A r \in {NoReply, Refused, Opened, Tampered} : r.outcome # "event" /\ r.event = None
  BY DEF NoReply, Refused, Opened, Tampered, Reply

(* What COMMIT does to a sound journal.                                    *)
LEMMA CommitExtends ==
  ASSUME NEW n \in Nat, Sound(n), Commit
  PROVE  IF tx.fresh
           THEN /\ DOMAIN journal = 1..n /\ DOMAIN journal' = 1..(n + 1)
                /\ \A i \in 1..n : journal'[i] = journal[i]
                /\ journal'[n + 1] = tx.event
           ELSE journal' = journal
  <1>1. CASE tx.fresh
    <2>1. /\ DOMAIN journal = 1..n
          /\ tx.event.content.seq = n + 1
          /\ journal' = InsertEvent(tx.event)
      BY <1>1 DEF Commit, Sound, Chain, TxAt, AddsNext
    <2>2. QED
      BY <1>1, <2>1 DEF InsertEvent
  <1>2. CASE ~tx.fresh
    BY <1>2 DEF Commit
  <1>3. QED
    BY <1>1, <1>2

LEMMA AnswerInvariant == Spec => []AnswerInv
  <1>1. Init => AnswerInv
    BY PlainReplies DEF Init, AnswerInv, Answered, KeysOnce, Owed
  <1>2. ASSUME TypeOK, SoundInv, AnswerInv, [Next]_vars PROVE AnswerInv'
    <2>1. ASSUME NEW c \in Clients, NEW r \in {NoReply, Refused, Opened, Tampered}, Ends(c, r)
          PROVE  AnswerInv'
      BY <1>2, <2>1, AnswersOwing, PlainReplies DEF Ends, Answer
    <2>2. ASSUME NEW c \in Clients, CreateSession(c) PROVE AnswerInv'
      <3>1. CASE row = None /\ Opens(c, FirstEvent, TRUE, FirstView, Opened)
        <4>1. JournalledUnder(FirstEvent.content.key) = {}
          BY <1>2, <3>1 DEF SoundInv, Sound, Chain, RowAt, JournalledUnder
        <4>2. QED
          BY <1>2, <3>1, <4>1, OpensOwing
      <3>2. CASE Ends(c, IF RowReplays(row.view, journal) THEN Opened ELSE Refused)
        BY <2>1, <3>2
      <3>3. QED
        BY <2>2, <3>1, <3>2 DEF CreateSession
    <2>3. ASSUME NEW c \in Clients, NEW key \in AppendKeys, NEW body \in Bodies,
                 NEW asked \in Targets, AppendEvent(c, key, body, asked)
          PROVE  AnswerInv'
      <3>1. CASE Ends(c, Refused)
        BY <2>1, <3>1
      <3>2. CASE Begins(c) /\ AppendAgain(c, key, body, asked)
        <4> DEFINE request == AppendRequest(key, body, asked)
        <4>1. PICK i \in JournalledUnder(key) :
                \/ Ends(c, Refused)
                \/ /\ journal[i].content.kind = "appended" /\ journal[i].content.body = body
                   /\ Ends(c, Reply("event", request, journal[i]))
          BY <3>2 DEF AppendAgain
        <4>2. CASE Ends(c, Reply("event", request, journal[i])) /\ ~Ends(c, Refused)
          <5>1. Journalled(journal[i]) /\ Matches(journal[i], request)
            BY <4>1, <4>2 DEF JournalledUnder, Journalled, Matches, AppendRequest, Request
          <5> HIDE DEF request
          <5>2. LET r == Reply("event", request, journal[i])
                IN r.event = journal[i] /\ r.asked = request
            BY DEF Reply
          <5>3. QED
            BY <1>2, <3>2, <4>2, <5>1, <5>2, AnswersOwing DEF Ends, Answer, Begins
        <4>3. QED
          BY <3>1, <4>1, <4>2
      <3>3. CASE AppendNew(c, key, body, asked)
        <4> DEFINE target == IF asked = None THEN row.view.state ELSE asked
                   event == NextEvent(key, "appended", body, target)
        <4>1. event.content.key = key /\ Matches(event, AppendRequest(key, body, asked))
          BY DEF NextEvent, Event, Matches, AppendRequest, Request
        <4>2. /\ JournalledUnder(key) = {}
              /\ \/ Ends(c, Refused)
                 \/ Opens(c, event, TRUE, AppendedView(target, event),
                          Reply("event", AppendRequest(key, body, asked), event))
          BY <3>3 DEF AppendNew
        <4> HIDE DEF event, target
        <4>3. QED
          BY <1>2, <3>1, <4>1, <4>2, OpensOwing
      <3>4. QED
        BY <2>3, <3>1, <3>2, <3>3 DEF AppendEvent
    <2>4. ASSUME NEW c \in Clients, NEW p \in Plans, AttachPlan(c, p) PROVE AnswerInv'
      <3>1. CASE Ends(c, Refused)
        BY <2>1, <3>1
      <3>2. CASE AttachAgain(c, p)
        <4>1. PICK i \in JournalledUnder(p) :
                \/ Ends(c, Refused)
                \/ /\ Matches(journal[i], AttachRequest(p))
                   /\ Opens(c, journal[i], FALSE, AttachedView(p, journal[i]),
                            Reply("event", AttachRequest(p), journal[i]))
          BY <3>2 DEF AttachAgain, JournalledUnder, Matches, AttachRequest, Request
        <4>2. Journalled(journal[i])
          BY DEF JournalledUnder, Journalled
        <4>3. QED
          BY <1>2, <3>1, <4>1, <4>2, OpensOwing
      <3>3. CASE AttachNew(c, p)
        <4> DEFINE event == NextEvent(p, "plan_attached", p, row.view.state)
        <4>1. event.content.key = p /\ Matches(event, AttachRequest(p))
          BY DEF NextEvent, Event, Matches, AttachRequest, Request
        <4>2. /\ JournalledUnder(p) = {}
              /\ \/ Ends(c, Refused)
                 \/ Opens(c, event, TRUE, AttachedView(p, event), Reply("event", AttachRequest(p), event))
          BY <3>3 DEF AttachNew
        <4> HIDE DEF event
        <4>3. QED
          BY <1>2, <3>1, <4>1, <4>2, OpensOwing
      <3>4. QED
        BY <2>4, <3>1, <3>2, <3>3 DEF AttachPlan
    <2>5. ASSUME WriteSnapshot PROVE AnswerInv'
      <3>1. /\ UNCHANGED <<journal, reply>> /\ tx # None
            /\ tx'.client = tx.client /\ tx'.event = tx.event
            /\ tx'.fresh = tx.fresh /\ tx'.answer = tx.answer
        BY <2>5 DEF WriteSnapshot
      <3>2. QED
        BY <1>2, <3>1 DEF AnswerInv, Answered, KeysOnce, Owed, Journalled, JournalledUnder
    <2>6. ASSUME Commit PROVE AnswerInv'
      <3>1. PICK n \in Nat : Sound(n)
        BY <1>2 DEF SoundInv
      <3>2. /\ tx # None /\ tx' = None /\ tx.client \in Clients
            /\ reply' = [reply EXCEPT ![tx.client] = tx.answer]
        BY <1>2, <2>6 DEF Commit, Answer, TypeOK
      <3>3. \A e : Journalled(e) => Journalled(e)'
        BY <2>6, <3>1, CommitExtends DEF Journalled
      <3>4. \E i \in DOMAIN journal' : journal'[i] = tx.event
        <4>1. CASE tx.fresh
          <5>1. n + 1 \in DOMAIN journal' /\ journal'[n + 1] = tx.event
            BY <2>6, <3>1, <4>1, CommitExtends
          <5>2. QED
            BY <5>1
        <4>2. CASE ~tx.fresh
          <5>1. Journalled(tx.event)
            BY <1>2, <3>2, <4>2 DEF AnswerInv, Owed
          <5>2. journal' = journal
            BY <2>6, <4>2 DEF Commit
          <5>3. QED
            BY <5>1, <5>2 DEF Journalled
        <4>3. QED
          BY <4>1, <4>2
      <3>5. Answered'
        <4>1. ASSUME NEW c \in Clients, reply'[c].outcome = "event"
              PROVE  Journalled(reply[c].event)' /\ Matches(reply'[c].event, reply'[c].asked)
          <5>1. CASE c = tx.client
            BY <1>2, <3>2, <3>4, <4>1, <5>1 DEF AnswerInv, Owed, TypeOK, Journalled
          <5>2. CASE c # tx.client
            <6>1. reply'[c] = reply[c]
              BY <1>2, <3>2, <5>2 DEF TypeOK
            <6>2. QED
              BY <1>2, <3>3, <4>1, <6>1 DEF AnswerInv, Answered, Journalled
          <5>3. QED
            BY <5>1, <5>2
        <4>2. QED
          BY <4>1 DEF Answered, Journalled, Matches
      <3>6. KeysOnce'
        <4>1. CASE tx.fresh
          <5>1. \A i \in DOMAIN journal : journal[i].content.key # tx.event.content.key
            BY <1>2, <3>2, <4>1 DEF AnswerInv, Owed, JournalledUnder
          <5>2. /\ DOMAIN journal = 1..n /\ DOMAIN journal' = 1..(n + 1)
                /\ \A i \in 1..n : journal'[i] = journal[i]
                /\ journal'[n + 1] = tx.event
            BY <2>6, <3>1, <4>1, CommitExtends
          <5>3. \A i, k \in 1..n : journal[i].content.key = journal[k].content.key => i = k
            BY <1>2, <5>2 DEF AnswerInv, KeysOnce
          <5>4. ASSUME NEW i \in 1..(n + 1), NEW k \in 1..(n + 1),
                       journal'[i].content.key = journal'[k].content.key
                PROVE  i = k
            <6>1. CASE i = n + 1 /\ k # n + 1
              BY <5>1, <5>2, <5>4, <6>1
            <6>2. CASE i # n + 1 /\ k = n + 1
              BY <5>1, <5>2, <5>4, <6>2
            <6>3. CASE i # n + 1 /\ k # n + 1
              <7>1. i \in 1..n /\ k \in 1..n
                BY <6>3
              <7>2. QED
                BY <5>2, <5>3, <5>4, <7>1
            <6>4. QED
              BY <6>1, <6>2, <6>3
          <5>5. QED
            BY <5>2, <5>4 DEF KeysOnce
        <4>2. CASE ~tx.fresh
          BY <1>2, <2>6, <4>2 DEF Commit, AnswerInv, KeysOnce
        <4>3. QED
          BY <4>1, <4>2
      <3>7. QED
        BY <3>2, <3>5, <3>6 DEF AnswerInv, Owed
    <2>7. ASSUME NEW c \in Clients, NEW r, r.outcome # "event" /\ r.event = None,
                 ResumeEnds(c, r)
          PROVE  AnswerInv'
      BY <1>2, <2>7, AnswersOwing DEF ResumeEnds, Answer
    <2>8. ASSUME NEW c \in Clients, ResumeRow(c) PROVE AnswerInv'
      BY <1>2, <2>1, <2>8, AnswersOwing, PlainReplies DEF ResumeRow, Answer
    <2>9. ASSUME NEW c \in Clients, ResumeEvents(c) PROVE AnswerInv'
      <3>1. CASE ResumeEnds(c, Tampered)
        BY <2>7, <3>1, PlainReplies
      <3>2. CASE UNCHANGED <<journal, tx, reply>>
        BY <1>2, <3>2 DEF AnswerInv, Answered, KeysOnce, Owed, Journalled, JournalledUnder
      <3>3. QED
        BY <2>9, <3>1, <3>2 DEF ResumeEvents
    <2>10. ASSUME NEW c \in Clients, ResumeSnapshot(c) PROVE AnswerInv'
      <3> DEFINE healthy == [Reply("healthy", None, None) EXCEPT !.resumed = seen[c]]
      <3>1. healthy.outcome # "event" /\ healthy.event = None
        BY DEF Reply
      <3>2. \E r \in {Tampered, healthy, Refused} : ResumeEnds(c, r)
        BY <2>10 DEF ResumeSnapshot
      <3> HIDE DEF healthy
      <3>3. QED
        BY <2>7, <3>1, <3>2, PlainReplies
    <2>11. ASSUME NEW c \in Clients, Crash(c) PROVE AnswerInv'
      BY <1>2, <2>11, AnswersOwing, PlainReplies DEF Crash, Answer
    <2>12. CASE UNCHANGED vars
      BY <1>2, <2>12 DEF vars, AnswerInv, Answered, KeysOnce, Owed, Journalled, JournalledUnder
    <2>13. QED
      BY <1>2, <2>2, <2>3, <2>4, <2>5, <2>6, <2>8, <2>9, <2>10, <2>11, <2>12 DEF Next
  <1>3. QED
    BY <1>1, <1>2, TypeCorrect, SoundInvariant, PTL DEF Spec

(* Every call is answered by the one event journalled under its key, which *)
(* is of its type and data, every crash and repetition notwithstanding.    *)
THEOREM AnswersAlwaysJournalled == Spec => []AnswersJournalled
  <1>1. AnswerInv => AnswersJournalled
    BY DEF AnswerInv, Answered, KeysOnce, Journalled, Matches, AnswersJournalled
  <1>2. QED
    BY <1>1, AnswerInvariant, PTL

-----------------------------------------------------------------------------
(* The journal the callers are promised.                                   *)

Log == [i \in 1..Cardinality(DOMAIN journal) |-> Entry(journal[i])]

Told == [c \in Clients |-> IF reply[c].event = None THEN None
                            ELSE Entry(reply[c].event)]

ToldOf(r) == IF r.event = None THEN None ELSE Entry(r.event)

Entries == {Entry(event) : event \in Events}

(* A list one longer that starts as the old one did.                       *)
LEMMA OneMore ==
  ASSUME NEW E, NEW n \in Nat, NEW s \in [1..n -> E], NEW t \in [1..(n + 1) -> E],
         \A i \in 1..n : t[i] = s[i]
  PROVE  /\ Len(s) = n
         /\ Len(t) = n + 1
         /\ SubSeq(t, 1, n) = s
         /\ s = << >> <=> n = 0
  <1>1. s \in Seq(E) /\ t \in Seq(E)
    OBVIOUS
  <1>2. Len(s) = n /\ Len(t) = n + 1
    <2>1. DOMAIN s = 1..n /\ DOMAIN t = 1..(n + 1)
      OBVIOUS
    <2>2. QED
      BY <1>1, <2>1
  <1>3. SubSeq(t, 1, n) = s
    <2>1. SubSeq(t, 1, n) \in Seq(E) /\ Len(SubSeq(t, 1, n)) = n
      BY <1>1, <1>2
    <2>2. \A i \in 1..n : SubSeq(t, 1, n)[i] = s[i]
      BY <1>1, <1>2
    <2>3. QED
      BY <1>1, <1>2, <2>1, <2>2
  <1>4. s = << >> <=> n = 0
    BY <1>1, <1>2
  <1>5. QED
    BY <1>2, <1>3, <1>4

(* AuditJournal's lifecycle is the store's.                                *)
LEMMA SameLifecycle ==
  /\ Promise!InitialState = InitialState
  /\ \A from, to : Promise!MayMove(from, to) <=> MayMove(from, to)
  BY DEF Promise!InitialState, InitialState, Promise!MayMove, MayMove,
         Promise!ALLOWED_TRANSITIONS, ALLOWED_TRANSITIONS

LEMMA LogOfSound ==
  ASSUME TypeOK, NEW n \in Nat, Sound(n)
  PROVE  Log = [i \in 1..n |-> Entry(journal[i])] /\ Log \in [1..n -> Entries]
  <1>1. Cardinality(DOMAIN journal) = n /\ DOMAIN journal = 1..n
    BY Length DEF Sound, Chain
  <1>2. \A i \in 1..n : Entry(journal[i]) \in Entries
    BY <1>1 DEF TypeOK, Entries
  <1>3. QED
    BY <1>1, <1>2 DEF Log

LEMMA ToldOfAnswer ==
  ASSUME TypeOK, NEW c \in Clients, NEW r, reply' = [reply EXCEPT ![c] = r]
  PROVE  Told' = [Told EXCEPT ![c] = ToldOf(r)]
  <1>1. ASSUME NEW d \in Clients
        PROVE  reply'[d] = IF d = c THEN r ELSE reply[d]
    BY DEF TypeOK
  <1>2. Told' = [d \in Clients |-> ToldOf(reply'[d])]
    BY DEF Told, ToldOf
  <1>3. \A d \in Clients : ToldOf(reply'[d]) = IF d = c THEN ToldOf(r) ELSE Told[d]
    BY <1>1 DEF Told, ToldOf
  <1> DEFINE after == [Told EXCEPT ![c] = ToldOf(r)]
  <1>4. after = [d \in Clients |-> IF d = c THEN ToldOf(r) ELSE Told[d]]
    BY DEF Told
  <1> HIDE DEF after
  <1>5. Told' = after
    BY <1>2, <1>3, <1>4
  <1>6. QED
    BY <1>5 DEF after

LEMMA ForgetStep ==
  ASSUME TypeOK, NEW c \in Clients, NEW r, reply' = [reply EXCEPT ![c] = r],
         UNCHANGED journal, r.event = None
  PROVE  Promise!Next
  <1>1. Told' = [Told EXCEPT ![c] = None]
    BY ToldOfAnswer DEF ToldOf
  <1>2. Log' = Log
    BY DEF Log
  <1>3. Promise!Forget
    BY <1>1, <1>2 DEF Promise!Forget, Log, Told
  <1>4. QED
    BY <1>3 DEF Promise!Next

LEMMA RepeatStep ==
  ASSUME TypeOK, NEW n \in Nat, Sound(n), NEW c \in Clients, NEW r,
         reply' = [reply EXCEPT ![c] = r], UNCHANGED journal, Journalled(r.event)
  PROVE  Promise!Next
  <1>1. PICK i \in 1..n : journal[i] = r.event
    BY DEF Journalled, Sound, Chain
  <1>2. r.event # None
    BY <1>1, NoneAssumption DEF TypeOK, Sound, Chain
  <1>3. Log = [k \in 1..n |-> Entry(journal[k])] /\ Log \in [1..n -> Entries]
    BY LogOfSound
  <1>4. /\ Log[i] = Entry(r.event)
        /\ i \in 1..Len(Log)
    <2>1. Log[i] = Entry(r.event)
      BY <1>1, <1>3
    <2>2. Log \in Seq(Entries) /\ DOMAIN Log = 1..n
      BY <1>3
    <2>3. QED
      BY <2>1, <2>2
  <1>5. Told' = [Told EXCEPT ![c] = Log[i]]
    BY <1>2, <1>4, ToldOfAnswer DEF ToldOf
  <1>6. Log' = Log
    BY DEF Log
  <1>7. Promise!Repeat
    BY <1>4, <1>5, <1>6 DEF Promise!Repeat, Log, Told
  <1>8. QED
    BY <1>7 DEF Promise!Next

LEMMA RecordStep ==
  ASSUME TypeOK, TypeOK', NEW n \in Nat, Sound(n), Sound(n + 1)', AnswerInv,
         Commit, tx.fresh
  PROVE  Promise!Next
  <1> DEFINE entry == Log'[Len(Log')]
  <1>1. /\ tx # None /\ tx.client \in Clients
        /\ DOMAIN journal = 1..n /\ DOMAIN journal' = 1..(n + 1)
        /\ \A i \in 1..n : journal'[i] = journal[i]
        /\ journal'[n + 1] = tx.event
        /\ reply' = [reply EXCEPT ![tx.client] = tx.answer]
    BY CommitExtends DEF Commit, Answer, TypeOK
  <1>2. /\ Log = [i \in 1..n |-> Entry(journal[i])]
        /\ Log \in [1..n -> Entries]
    BY LogOfSound
  <1>3. /\ Log' = [i \in 1..(n + 1) |-> Entry(journal'[i])]
        /\ Log' \in [1..(n + 1) -> Entries]
    <2>1. Cardinality(DOMAIN journal') = n + 1
      BY <1>1, Length
    <2>2. \A i \in 1..(n + 1) : journal'[i] \in Events
      BY <1>1 DEF TypeOK
    <2>3. \A i \in 1..(n + 1) : Entry(journal'[i]) \in Entries
      BY <2>2 DEF Entries
    <2>4. Log' = [i \in 1..(n + 1) |-> Entry(journal'[i])]
      BY <2>1 DEF Log, Entry
    <2>5. QED
      BY <2>3, <2>4
  <1>4. \A i \in 1..n : Log'[i] = Log[i]
    BY <1>1, <1>2, <1>3
  <1>5. /\ Len(Log) = n
        /\ Len(Log') = n + 1
        /\ SubSeq(Log', 1, n) = Log
        /\ Log = << >> <=> n = 0
    <2> DEFINE s == Log
               t == Log'
    <2>1. /\ s \in [1..n -> Entries]
          /\ t \in [1..(n + 1) -> Entries]
          /\ \A i \in 1..n : t[i] = s[i]
      BY <1>2, <1>3, <1>4
    <2> HIDE DEF s, t
    <2>2. /\ Len(s) = n
          /\ Len(t) = n + 1
          /\ SubSeq(t, 1, n) = s
          /\ s = << >> <=> n = 0
      BY <2>1, OneMore
    <2>3. QED
      BY <2>2 DEF s, t
  <1>6. entry = Entry(tx.event)
    BY <1>1, <1>3, <1>5
  <1> HIDE DEF entry
  <1>7. /\ entry.key = tx.event.content.key
        /\ entry.from = tx.event.content.from
        /\ entry.to = tx.event.content.to
    BY <1>6 DEF Entry
  <1>8. \A i \in 1..Len(Log) : Log[i].key # entry.key
    <2>1. JournalledUnder(tx.event.content.key) = {}
      BY <1>1 DEF AnswerInv, Owed
    <2>2. \A i \in 1..n : journal[i].content.key # tx.event.content.key
      BY <1>1, <2>1 DEF JournalledUnder
    <2>3. \A i \in 1..n : Log[i].key = journal[i].content.key
      BY <1>2 DEF Entry
    <2>4. QED
      BY <1>5, <1>7, <2>2, <2>3
  <1>9. AddsNext(n)
    BY <1>1 DEF Sound, TxAt
  <1>10. entry.from = IF Log = << >> THEN InitialState ELSE Log[Len(Log)].to
    <2>1. entry.from = StateBefore(journal, n + 1)
      BY <1>7, <1>9 DEF AddsNext
    <2>2. CASE n = 0
      BY <1>5, <2>1, <2>2 DEF StateBefore
    <2>3. CASE n # 0
      <3>1. n + 1 # 1 /\ n + 1 - 1 = n /\ n \in 1..n
        BY <2>3
      <3>2. Log[n].to = journal[n].content.to
        BY <1>2, <3>1 DEF Entry
      <3>3. QED
        BY <1>5, <2>1, <2>3, <3>1, <3>2 DEF StateBefore
    <2>4. QED
      BY <2>2, <2>3
  <1>11. MayMove(entry.from, entry.to)
    BY <1>7, <1>9 DEF AddsNext
  <1>12. Told' \in {Told, [Told EXCEPT ![tx.client] = entry]}
    <2>1. Told' = [Told EXCEPT ![tx.client] = ToldOf(tx.answer)]
      BY <1>1, ToldOfAnswer
    <2>2. CASE tx.answer.event = None
      <3>1. ToldOf(tx.answer) = None
        BY <2>2 DEF ToldOf
      <3>2. Told[tx.client] = None
        BY <1>1 DEF AnswerInv, Owed, Told, ToldOf
      <3>3. QED
        BY <2>1, <3>1, <3>2 DEF Told
    <2>3. CASE tx.answer.event # None
      BY <1>1, <1>6, <2>1, <2>3 DEF AnswerInv, Owed, ToldOf
    <2>4. QED
      BY <2>2, <2>3
  <1>13. /\ Len(Log') = Len(Log) + 1
         /\ SubSeq(Log', 1, Len(Log)) = Log
    BY <1>5
  <1>14. Promise!Record
    <2>1. \E c \in Clients : Told' \in {Told, [Told EXCEPT ![c] = entry]}
      BY <1>1, <1>12
    <2>2. Promise!CurrentState = IF Log = << >> THEN InitialState ELSE Log[Len(Log)].to
      BY SameLifecycle DEF Promise!CurrentState, Log
    <2>3. /\ entry.from = Promise!CurrentState
          /\ Promise!MayMove(entry.from, entry.to)
      BY <1>10, <1>11, <2>2, SameLifecycle
    <2>4. LET e == Log'[Len(Log')] IN
            /\ \A i \in 1..Len(Log) : Log[i].key # e.key
            /\ e.from = Promise!CurrentState
            /\ Promise!MayMove(e.from, e.to)
            /\ \E c \in Clients : Told' \in {Told, [Told EXCEPT ![c] = e]}
      BY <1>8, <2>1, <2>3 DEF entry
    <2>5. QED
      BY <1>13, <2>4 DEF Promise!Record, Log, Told
  <1>15. QED
    BY <1>14 DEF Promise!Next

(* Every step of the store is a step of the promised journal or invisible: *)
(* a COMMIT records or repeats, everything else that is seen forgets.      *)
LEMMA StepsPromised ==
  ASSUME TypeOK, TypeOK', SoundInv, AnswerInv, [Next]_vars
  PROVE  [Promise!Next]_(Promise!journalVars)
  <1>1. PICK n \in Nat : Sound(n)
    BY DEF SoundInv
  <1>2. ASSUME UNCHANGED <<journal, reply>> PROVE UNCHANGED Promise!journalVars
    BY <1>2 DEF Promise!journalVars, Entry
  <1>3. ASSUME NEW c \in Clients, NEW r \in {NoReply, Refused, Opened, Tampered},
               Answer(c, r), UNCHANGED journal
        PROVE  Promise!Next
    BY <1>3, ForgetStep, PlainReplies DEF Answer
  <1>4. ASSUME NEW c \in Clients, NEW event, NEW fresh, NEW view, NEW a,
               Opens(c, event, fresh, view, a)
        PROVE  Promise!Next
    BY <1>3, <1>4 DEF Opens
  <1>5. ASSUME NEW c \in Clients, CreateSession(c) PROVE Promise!Next
    <2>1. CASE Ends(c, IF RowReplays(row.view, journal) THEN Opened ELSE Refused)
      BY <1>3, <2>1 DEF Ends
    <2>2. QED
      BY <1>4, <1>5, <2>1 DEF CreateSession
  <1>6. ASSUME NEW c \in Clients, NEW key \in AppendKeys, NEW body \in Bodies,
               NEW asked \in Targets, AppendEvent(c, key, body, asked)
        PROVE  Promise!Next
    <2>1. CASE Ends(c, Refused)
      BY <1>3, <2>1 DEF Ends
    <2>2. CASE AppendAgain(c, key, body, asked)
      <3>1. PICK i \in JournalledUnder(key), same \in BOOLEAN :
              Ends(c, IF same THEN Reply("event", AppendRequest(key, body, asked), journal[i])
                                ELSE Refused)
        BY <2>2 DEF AppendAgain
      <3>2. CASE same
        <4>1. Journalled(Reply("event", AppendRequest(key, body, asked), journal[i]).event)
          BY DEF JournalledUnder, Journalled, Reply
        <4>2. QED
          BY <1>1, <3>1, <3>2, <4>1, RepeatStep DEF Ends, Answer
      <3>3. CASE ~same
        BY <2>1, <3>1, <3>3
      <3>4. QED
        BY <3>2, <3>3
    <2>3. CASE AppendNew(c, key, body, asked)
      BY <1>4, <2>1, <2>3 DEF AppendNew
    <2>4. QED
      BY <1>6, <2>1, <2>2, <2>3 DEF AppendEvent
  <1>7. ASSUME NEW c \in Clients, NEW p \in Plans, AttachPlan(c, p) PROVE Promise!Next
    <2>1. CASE Ends(c, Refused)
      BY <1>3, <2>1 DEF Ends
    <2>2. QED
      BY <1>4, <1>7, <2>1 DEF AttachPlan, AttachAgain, AttachNew
  <1>8. ASSUME WriteSnapshot PROVE UNCHANGED <<journal, reply>>
    BY <1>8 DEF WriteSnapshot
  <1>9. ASSUME Commit PROVE Promise!Next
    <2>1. CASE tx.fresh
      <3>1. Sound(n + 1)'
        BY <1>1, <1>9, <2>1, CommitAddsNext
      <3>2. QED
        BY <1>1, <1>9, <2>1, <3>1, RecordStep
    <2>2. CASE ~tx.fresh
      <3>1. Journalled(tx.answer.event)
        BY <1>9, <2>2 DEF Commit, AnswerInv, Owed
      <3>2. /\ tx.client \in Clients /\ UNCHANGED journal
            /\ reply' = [reply EXCEPT ![tx.client] = tx.answer]
        BY <1>9, <2>2 DEF Commit, Answer, TypeOK
      <3>3. QED
        BY <1>1, <3>1, <3>2, RepeatStep
    <2>3. QED
      BY <2>1, <2>2
  <1>10. ASSUME NEW c \in Clients, ResumeRow(c) PROVE Promise!Next
    BY <1>3, <1>10 DEF ResumeRow, Ends
  <1>11. ASSUME NEW c \in Clients, ResumeEvents(c)
         PROVE  Promise!Next \/ UNCHANGED <<journal, reply>>
    BY <1>3, <1>11 DEF ResumeEvents, ResumeEnds
  <1>12. ASSUME NEW c \in Clients, ResumeSnapshot(c) PROVE Promise!Next
    <2> DEFINE healthy == [Reply("healthy", None, None) EXCEPT !.resumed = seen[c]]
    <2>1. healthy.event = None
      BY DEF Reply
    <2>2. \E r \in {Tampered, healthy, Refused} : Answer(c, r) /\ UNCHANGED journal
      BY <1>12 DEF ResumeSnapshot, ResumeEnds
    <2> HIDE DEF healthy
    <2>3. QED
      BY <1>3, <2>1, <2>2, ForgetStep DEF Answer
  <1>13. ASSUME NEW c \in Clients, Crash(c) PROVE Promise!Next
    BY <1>3, <1>13 DEF Crash
  <1>14. CASE UNCHANGED vars
    BY <1>14, <1>2 DEF vars
  <1>15. QED
    BY <1>2, <1>5, <1>6, <1>7, <1>8, <1>9, <1>10, <1>11, <1>12, <1>13, <1>14 DEF Next

(* The store keeps its promise: with all its transactions, retries,        *)
(* crashes and unlocked reads its callers cannot tell it from one list     *)
(* that only grows at its end, in which every answer is found.             *)
THEOREM JournalImplemented == Spec => JournalPromise
  <1>1. Init => Promise!Init
    <2> SUFFICES ASSUME Init PROVE Promise!Init
      OBVIOUS
    <2>1. Cardinality(DOMAIN journal) = 0
      <3>1. DOMAIN journal = 1..0
        BY DEF Init
      <3>2. QED
        BY <3>1, Length
    <2>2. \A c \in Clients : reply[c].event = None
      BY PlainReplies DEF Init
    <2>3. QED
      BY <2>1, <2>2 DEF Promise!Init
  <1>2. TypeOK /\ TypeOK' /\ SoundInv /\ AnswerInv /\ [Next]_vars
          => [Promise!Next]_(Promise!journalVars)
    BY StepsPromised
  <1>3. QED
    BY <1>1, <1>2, TypeCorrect, SoundInvariant, AnswerInvariant, PTL
       DEF Spec, JournalPromise, Promise!Spec

-----------------------------------------------------------------------------
(* resume().                                                               *)

JournalLength == Cardinality(DOMAIN journal)

(* What an unfinished resume() read is some moment of the session: its row *)
(* is that of the present journal as long as that is no longer than the    *)
(* row says, and rows that are behind the journal fail the replay.         *)
SeenInv ==
  \A c \in Clients : seen[c] # None =>
    /\ seen[c] = [view |-> seen[c].view, events |-> seen[c].events]
    /\ seen[c].view.seq <= JournalLength
    /\ seen[c].view.seq = JournalLength => seen[c].view.plan = JournalPlan(journal)
    /\ seen[c].events # None =>
         /\ RowReplays(seen[c].view, seen[c].events)
         /\ seen[c].view.plan = JournalPlan(seen[c].events)

(* No transaction answers "healthy".                                       *)
OnlyResumeIsHealthy == tx # None => tx.answer.outcome # "healthy"

ResumeInv == SeenInv /\ OnlyResumeIsHealthy /\ ResumeConsistent

LEMMA PlainRepliesAreNotHealthy ==
  /\ \A r \in {NoReply, Refused, Opened, Tampered} : r.outcome # "healthy"
  /\ \A asked, event : Reply("event", asked, event).outcome # "healthy"
  BY DEF NoReply, Refused, Opened, Tampered, Reply

(* A call that ends without a healthy resume and reads nothing more.       *)
LEMMA EndsUnseeing ==
  ASSUME TypeOK, ResumeInv, NEW c \in Clients, NEW r, r.outcome # "healthy",
         reply' = [reply EXCEPT ![c] = r], UNCHANGED journal, tx' \in {tx, None},
         seen' \in {seen, [seen EXCEPT ![c] = None]}
  PROVE  ResumeInv'
  <1>1. SeenInv'
    BY DEF ResumeInv, SeenInv, TypeOK, JournalLength
  <1>2. OnlyResumeIsHealthy'
    BY DEF ResumeInv, OnlyResumeIsHealthy
  <1>3. ResumeConsistent'
    BY DEF ResumeInv, ResumeConsistent, TypeOK
  <1>4. QED
    BY <1>1, <1>2, <1>3 DEF ResumeInv

LEMMA OpensUnseeing ==
  ASSUME TypeOK, ResumeInv, NEW c \in Clients, NEW event, NEW fresh, NEW view,
         NEW answer, answer.outcome # "healthy", Opens(c, event, fresh, view, answer)
  PROVE  ResumeInv'
  <1>1. SeenInv'
    BY DEF Opens, ResumeInv, SeenInv, JournalLength
  <1>2. OnlyResumeIsHealthy'
    BY DEF Opens, OnlyResumeIsHealthy
  <1>3. ResumeConsistent'
    BY PlainRepliesAreNotHealthy DEF Opens, Answer, ResumeInv, ResumeConsistent, TypeOK
  <1>4. QED
    BY <1>1, <1>2, <1>3 DEF ResumeInv

LEMMA LengthOfJournal ==
  ASSUME NEW n \in Nat, Sound(n)
  PROVE  JournalLength = n
  BY Length DEF Sound, Chain, JournalLength

LEMMA CommitUnseeing ==
  ASSUME TypeOK, SoundInv, ResumeInv, Commit
  PROVE  ResumeInv'
  <1>1. PICK n \in Nat : Sound(n)
    BY DEF SoundInv
  <1>2. JournalLength = n
    BY <1>1, LengthOfJournal
  <1>3. /\ tx # None /\ tx' = None /\ UNCHANGED seen
        /\ reply' = [reply EXCEPT ![tx.client] = tx.answer]
    BY DEF Commit, Answer
  <1>4. SeenInv'
    <2>1. CASE ~tx.fresh
      <3>1. UNCHANGED journal
        BY <2>1 DEF Commit
      <3>2. QED
        BY <1>3, <3>1 DEF ResumeInv, SeenInv, JournalLength
    <2>2. CASE tx.fresh
      <3>1. Sound(n + 1)'
        BY <1>1, <2>2, CommitAddsNext
      <3>2. Cardinality(DOMAIN journal') = n + 1
        BY <3>1, Length DEF Sound, Chain
      <3>3. \A c \in Clients : seen[c] # None => seen[c].view.seq \in Nat
        BY DEF TypeOK, Views
      <3>4. QED
        BY <1>2, <1>3, <3>2, <3>3 DEF ResumeInv, SeenInv, JournalLength
    <2>3. QED
      BY <2>1, <2>2
  <1>5. ResumeConsistent'
    BY <1>3 DEF ResumeInv, OnlyResumeIsHealthy, ResumeConsistent, TypeOK
  <1>6. QED
    BY <1>3, <1>4, <1>5 DEF ResumeInv, OnlyResumeIsHealthy

(* The first read: the row is within the journal.                          *)
LEMMA ResumeRowSees ==
  ASSUME TypeOK, SoundInv, RowWithinJournal, ResumeInv, NEW c \in Clients,
         row # None, seen' = [seen EXCEPT ![c] = [view |-> row.view, events |-> None]],
         Answer(c, NoReply), UNCHANGED <<row, journal, tx>>
  PROVE  ResumeInv'
  <1>1. PICK n \in Nat : Sound(n)
    BY DEF SoundInv
  <1>2. JournalLength = n
    BY <1>1, LengthOfJournal
  <1>3. row.view.seq <= JournalLength /\ row.view.plan = JournalPlan(journal)
    BY <1>2 DEF RowWithinJournal, JournalLength
  <1>4. SeenInv'
    <2>1. seen'[c] = [view |-> row.view, events |-> None]
      BY DEF TypeOK
    <2>2. \A d \in Clients : d # c => seen'[d] = seen[d]
      BY DEF TypeOK
    <2>3. /\ JournalLength' = JournalLength
          /\ JournalPlan(journal)' = JournalPlan(journal)
      BY DEF JournalLength
    <2>4. QED
      BY <1>3, <2>1, <2>2, <2>3 DEF ResumeInv, SeenInv
  <1>5. OnlyResumeIsHealthy' /\ ResumeConsistent'
    BY PlainRepliesAreNotHealthy
       DEF Answer, ResumeInv, OnlyResumeIsHealthy, ResumeConsistent, TypeOK
  <1>6. QED
    BY <1>4, <1>5 DEF ResumeInv

(* The second read: only a row that is still that of the journal replays.  *)
LEMMA ResumeEventsSees ==
  ASSUME TypeOK, ResumeInv, NEW c \in Clients, seen[c] # None,
         RowReplays(seen[c].view, journal),
         seen' = [seen EXCEPT ![c].events = journal], UNCHANGED <<journal, tx, reply>>
  PROVE  ResumeInv'
  <1>1. seen[c] = [view |-> seen[c].view, events |-> seen[c].events]
    BY DEF ResumeInv, SeenInv
  <1>2. seen'[c] = [view |-> seen[c].view, events |-> journal]
    BY <1>1 DEF TypeOK
  <1>3. \A d \in Clients : d # c => seen'[d] = seen[d]
    BY DEF TypeOK
  <1>4. seen[c].view.plan = JournalPlan(journal)
    BY DEF ResumeInv, SeenInv, RowReplays, JournalLength
  <1>5. /\ JournalLength' = JournalLength
        /\ JournalPlan(journal)' = JournalPlan(journal)
    BY DEF JournalLength
  <1>6. SeenInv'
    <2>1. ASSUME NEW d \in Clients, seen'[d] # None
          PROVE  /\ seen'[d] = [view |-> seen'[d].view, events |-> seen'[d].events]
                 /\ seen'[d].view.seq <= JournalLength
                 /\ seen'[d].view.seq = JournalLength =>
                      seen'[d].view.plan = JournalPlan(journal)
                 /\ seen'[d].events # None =>
                      /\ RowReplays(seen'[d].view, seen'[d].events)
                      /\ seen'[d].view.plan = JournalPlan(seen'[d].events)
      <3>1. CASE d # c
        BY <1>3, <2>1, <3>1 DEF ResumeInv, SeenInv
      <3>2. CASE d = c
        <4>1. seen[c].view.seq <= JournalLength
          BY DEF ResumeInv, SeenInv
        <4>2. QED
          BY <1>2, <1>4, <3>2, <4>1
      <3>3. QED
        BY <3>1, <3>2
    <2>2. QED
      BY <1>5, <2>1 DEF SeenInv
  <1>7. QED
    BY <1>6 DEF ResumeInv, OnlyResumeIsHealthy, ResumeConsistent

(* The third read: it changes nothing of what is returned.                 *)
LEMMA ResumeSnapshotSees ==
  ASSUME TypeOK, ResumeInv, NEW c \in Clients, ResumeSnapshot(c)
  PROVE  ResumeInv'
  <1> DEFINE healthy == [Reply("healthy", None, None) EXCEPT !.resumed = seen[c]]
  <1>1. healthy.resumed = seen[c]
    BY DEF Reply
  <1>2. seen[c] # None /\ seen[c].events # None
    BY DEF ResumeSnapshot
  <1>3. \E r \in {Tampered, healthy, Refused} : ResumeEnds(c, r)
    BY DEF ResumeSnapshot
  <1> HIDE DEF healthy
  <1>4. CASE ResumeEnds(c, Tampered) \/ ResumeEnds(c, Refused)
    BY <1>4, EndsUnseeing, PlainRepliesAreNotHealthy DEF ResumeEnds, Answer
  <1>5. CASE ResumeEnds(c, healthy)
    <2>1. SeenInv'
      BY <1>5 DEF ResumeEnds, ResumeInv, SeenInv, TypeOK, JournalLength
    <2>2. ResumeConsistent'
      BY <1>1, <1>2, <1>5 DEF ResumeEnds, Answer, ResumeInv, SeenInv, ResumeConsistent, TypeOK
    <2>3. QED
      BY <1>5, <2>1, <2>2 DEF ResumeEnds, ResumeInv, OnlyResumeIsHealthy
  <1>6. QED
    BY <1>3, <1>4, <1>5

(* A resume that succeeds returns one moment of the session, put together  *)
(* from three unlocked reads though it is.                                 *)
THEOREM ResumesAlwaysConsistent == Spec => []ResumeConsistent
  <1>1. Init => ResumeInv
    BY PlainRepliesAreNotHealthy
       DEF Init, ResumeInv, SeenInv, OnlyResumeIsHealthy, ResumeConsistent
  <1>2. ASSUME TypeOK, SoundInv, RowWithinJournal, ResumeInv, [Next]_vars
        PROVE  ResumeInv'
    <2>1. ASSUME NEW c \in Clients, NEW r, r.outcome # "healthy", Ends(c, r)
          PROVE  ResumeInv'
      BY <1>2, <2>1, EndsUnseeing DEF Ends, Answer
    <2>2. ASSUME NEW c \in Clients, CreateSession(c) PROVE ResumeInv'
      BY <1>2, <2>1, <2>2, OpensUnseeing, PlainRepliesAreNotHealthy DEF CreateSession
    <2>3. ASSUME NEW c \in Clients, NEW key \in AppendKeys, NEW body \in Bodies,
                 NEW asked \in Targets, AppendEvent(c, key, body, asked)
          PROVE  ResumeInv'
      <3>1. CASE Ends(c, Refused)
        BY <2>1, <3>1, PlainRepliesAreNotHealthy
      <3>2. CASE AppendAgain(c, key, body, asked)
        <4>1. PICK i \in JournalledUnder(key), same \in BOOLEAN :
                Ends(c, IF same THEN Reply("event", AppendRequest(key, body, asked), journal[i])
                                ELSE Refused)
          BY <3>2 DEF AppendAgain
        <4>2. QED
          BY <2>1, <4>1, PlainRepliesAreNotHealthy
      <3>3. CASE AppendNew(c, key, body, asked)
        <4>1. PICK event, view :
                \/ Ends(c, Refused)
                \/ Opens(c, event, TRUE, view, Reply("event", AppendRequest(key, body, asked), event))
          BY <3>3 DEF AppendNew
        <4>2. QED
          BY <1>2, <3>1, <4>1, OpensUnseeing, PlainRepliesAreNotHealthy
      <3>4. QED
        BY <2>3, <3>1, <3>2, <3>3 DEF AppendEvent
    <2>4. ASSUME NEW c \in Clients, NEW p \in Plans, AttachPlan(c, p) PROVE ResumeInv'
      <3>1. PICK event, fresh, view :
              \/ Ends(c, Refused)
              \/ Opens(c, event, fresh, view, Reply("event", AttachRequest(p), event))
        BY <2>4 DEF AttachPlan, AttachAgain, AttachNew
      <3>2. QED
        BY <1>2, <2>1, <3>1, OpensUnseeing, PlainRepliesAreNotHealthy
    <2>5. ASSUME WriteSnapshot PROVE ResumeInv'
      BY <1>2, <2>5 DEF WriteSnapshot, ResumeInv, SeenInv, OnlyResumeIsHealthy,
                        ResumeConsistent, JournalLength
    <2>6. ASSUME Commit PROVE ResumeInv'
      BY <1>2, <2>6, CommitUnseeing
    <2>7. ASSUME NEW c \in Clients, ResumeRow(c) PROVE ResumeInv'
      BY <1>2, <2>1, <2>7, ResumeRowSees, PlainRepliesAreNotHealthy DEF ResumeRow
    <2>8. ASSUME NEW c \in Clients, ResumeEvents(c) PROVE ResumeInv'
      BY <1>2, <2>8, ResumeEventsSees, EndsUnseeing, PlainRepliesAreNotHealthy
         DEF ResumeEvents, ResumeEnds, Answer
    <2>9. ASSUME NEW c \in Clients, ResumeSnapshot(c) PROVE ResumeInv'
      BY <1>2, <2>9, ResumeSnapshotSees
    <2>10. ASSUME NEW c \in Clients, Crash(c) PROVE ResumeInv'
      BY <1>2, <2>10, EndsUnseeing, PlainRepliesAreNotHealthy DEF Crash, Answer
    <2>11. CASE UNCHANGED vars
      BY <1>2, <2>11 DEF vars, ResumeInv, SeenInv, OnlyResumeIsHealthy,
                         ResumeConsistent, JournalLength
    <2>12. QED
      BY <1>2, <2>2, <2>3, <2>4, <2>5, <2>6, <2>7, <2>8, <2>9, <2>10, <2>11 DEF Next
  <1>3. QED
    BY <1>1, <1>2, TypeCorrect, SoundInvariant, RowStaysWithinJournal, PTL DEF Spec, ResumeInv

-----------------------------------------------------------------------------
(* How row and journal come to part.                                       *)

(* A commit that adds the next event leaves the row at the journal's end.  *)
LEMMA FreshCommitMatches ==
  ASSUME TypeOK, NEW n \in Nat, Sound(n), Commit, tx.fresh,
         JournalReplays', RowWithinJournal'
  PROVE  RowMatchesJournal'
  <1>1. Sound(n + 1)'
    BY CommitAddsNext
  <1>2. Cardinality(DOMAIN journal') = n + 1
    BY <1>1, Length DEF Sound, Chain
  <1>3. row' # None /\ row'.view.seq = n + 1
    BY NoneAssumption DEF Commit, Sound, TxAt, AddsNext, TypeOK
  <1>4. QED
    BY <1>2, <1>3 DEF RowMatchesJournal, RowWithinJournal, JournalReplays, RowReplays

(* A commit that repeats an attachment leaves the journal as it is, so     *)
(* that the row is off only if it was moved back from the journal's end.   *)
LEMMA RepeatedCommitMatches ==
  ASSUME TypeOK, NEW n \in Nat, Sound(n), Commit, ~tx.fresh,
         JournalReplays', RowWithinJournal', RowMatchesJournal,
         ~(tx.view.seq < row.view.seq)
  PROVE  RowMatchesJournal'
  <1>1. MovesBack /\ journal' = journal /\ row'.view = tx.view
    BY DEF Commit, Sound, TxAt
  <1>2. Cardinality(DOMAIN journal) = n
    BY Length DEF Sound, Chain
  <1>3. row.view.seq = n
    BY <1>1, <1>2 DEF RowMatchesJournal, RowReplays, MovesBack
  <1>4. tx.view.seq = n
    BY <1>1, <1>3 DEF MovesBack, PlanEvents, Sound, Chain
  <1>5. row' # None /\ row'.view.seq = n
    BY <1>1, <1>4, NoneAssumption DEF Commit, TypeOK
  <1>6. QED
    BY <1>1, <1>2, <1>5 DEF RowMatchesJournal, RowWithinJournal, JournalReplays, RowReplays

(* Whether they match depends on these two alone.                          *)
LEMMA SameMatch ==
  ASSUME UNCHANGED <<row, journal>> PROVE RowMatchesJournal' <=> RowMatchesJournal
  <1>1. PICK v, j : v = row /\ j = journal
    OBVIOUS
  <1>2. v = row' /\ j = journal'
    BY <1>1
  <1>3. /\ RowMatchesJournal <=> (v # None => RowReplays(v.view, j) /\ v.view.plan = JournalPlan(j))
        /\ RowMatchesJournal' <=> (v # None => RowReplays(v.view, j) /\ v.view.plan = JournalPlan(j))
    BY <1>1, <1>2 DEF RowMatchesJournal
  <1>4. QED
    BY <1>3

(* Nothing but COMMIT changes row or journal.                              *)
LEMMA OnlyCommitWrites ==
  ASSUME [Next]_vars, ~Commit PROVE UNCHANGED <<row, journal>>
  <1>1. ASSUME NEW c \in Clients, CreateSession(c) PROVE UNCHANGED <<row, journal>>
    BY <1>1 DEF CreateSession, Ends, Opens
  <1>2. ASSUME NEW c \in Clients, NEW key \in AppendKeys, NEW body \in Bodies,
               NEW asked \in Targets, AppendEvent(c, key, body, asked)
        PROVE  UNCHANGED <<row, journal>>
    BY <1>2 DEF AppendEvent, AppendAgain, AppendNew, Ends, Opens
  <1>3. ASSUME NEW c \in Clients, NEW p \in Plans, AttachPlan(c, p)
        PROVE  UNCHANGED <<row, journal>>
    BY <1>3 DEF AttachPlan, AttachAgain, AttachNew, Ends, Opens
  <1>4. ASSUME NEW c \in Clients, ResumeRow(c) \/ ResumeEvents(c) \/ ResumeSnapshot(c) \/ Crash(c)
        PROVE  UNCHANGED <<row, journal>>
    BY <1>4 DEF ResumeRow, ResumeEvents, ResumeSnapshot, ResumeEnds, Ends, Crash
  <1>5. WriteSnapshot \/ UNCHANGED vars => UNCHANGED <<row, journal>>
    BY DEF WriteSnapshot, vars
  <1>6. QED
    BY <1>1, <1>2, <1>3, <1>4, <1>5 DEF Next

(* However calls and crashes interleave, the row parts from the journal    *)
(* only when attach_plan is repeated for the current plan after the        *)
(* journal has moved on.                                                   *)
THEOREM PartOnlyByReattaching == Spec => PartedByReattaching
  <1> DEFINE Parted == RowMatchesJournal /\ ~RowMatchesJournal' =>
                         /\ tx # None /\ ~tx.fresh
                         /\ tx.view.seq \in PlanEvents(journal)
                         /\ tx.view.seq < row.view.seq
                         /\ tx.view.plan = row.view.plan
  <1>1. ASSUME TypeOK, SoundInv, JournalReplays', RowWithinJournal', [Next]_vars
        PROVE  Parted
    <2> SUFFICES ASSUME RowMatchesJournal, ~RowMatchesJournal'
                 PROVE  /\ tx # None /\ ~tx.fresh
                        /\ tx.view.seq \in PlanEvents(journal)
                        /\ tx.view.seq < row.view.seq
                        /\ tx.view.plan = row.view.plan
      OBVIOUS
    <2>1. PICK n \in Nat : Sound(n)
      BY <1>1 DEF SoundInv
    <2>2. ~UNCHANGED <<row, journal>>
      BY SameMatch
    <2>3. Commit
      BY <1>1, <2>2, OnlyCommitWrites
    <2>4. ~tx.fresh
      BY <1>1, <2>1, <2>3, FreshCommitMatches
    <2>5. tx.view.seq < row.view.seq
      BY <1>1, <2>1, <2>3, <2>4, RepeatedCommitMatches
    <2>6. tx # None /\ MovesBack
      BY <2>1, <2>3, <2>4 DEF Commit, Sound, TxAt
    <2>7. QED
      BY <2>4, <2>5, <2>6 DEF MovesBack
  <1>2. QED
    BY <1>1, TypeCorrect, SoundInvariant, JournalAlwaysReplays, RowStaysWithinJournal,
       PTL DEF Spec, PartedByReattaching

-----------------------------------------------------------------------------
(* Callers that do not attach late.                                        *)

(* The row, and the event an attachment found, are the journal's last.     *)
InStep ==
  /\ row # None => row.view.seq = JournalLength
  /\ tx # None => tx.view.seq = IF tx.fresh THEN JournalLength + 1 ELSE JournalLength

(* Without late attachments row and journal agree completely, which is     *)
(* what the class documentation says of every session.                     *)
THEOREM DisciplinedRowsMatch == DisciplinedSpec => []RowMatchesJournal
  <1>1. Init => InStep
    <2>1. ASSUME Init PROVE row = None /\ tx = None
      BY <2>1 DEF Init
    <2>2. QED
      BY <2>1 DEF InStep
  <1>2. [Next /\ ~ReattachesLate]_vars => [Next]_vars
    OBVIOUS
  <1>3. ASSUME TypeOK, TypeOK', SoundInv, SoundInv', InStep,
               [Next /\ ~ReattachesLate]_vars
        PROVE  InStep'
    <2>1. PICK n \in Nat : Sound(n)
      BY <1>3 DEF SoundInv
    <2>2. JournalLength = n
      BY <2>1, LengthOfJournal
    <2>3. ASSUME UNCHANGED <<row, journal>>, tx' \in {tx, None} PROVE InStep'
      BY <1>3, <2>3 DEF InStep, JournalLength
    <2>4. ASSUME NEW c, NEW event, NEW fresh \in BOOLEAN, NEW view, NEW a,
                 Opens(c, event, fresh, view, a),
                 tx' # None => view.seq = IF fresh THEN n + 1 ELSE n
          PROVE  InStep'
      <3>1. UNCHANGED <<row, journal>> /\ tx'.view = view /\ tx'.fresh = fresh
        BY <2>4 DEF Opens
      <3>2. JournalLength' = n
        BY <2>2, <3>1 DEF JournalLength
      <3>3. QED
        BY <1>3, <2>2, <2>4, <3>1, <3>2 DEF InStep
    <2>5. ASSUME NEW c \in Clients, CreateSession(c) PROVE InStep'
      <3>1. CASE row = None /\ Opens(c, FirstEvent, TRUE, FirstView, Opened)
        <4>1. n = 0 /\ FirstView.seq = n + 1
          BY <2>1, <3>1 DEF Sound, RowAt, FirstView
        <4>2. QED
          BY <2>4, <3>1, <4>1
      <3>2. CASE \E r : Ends(c, r)
        BY <2>3, <3>2 DEF Ends
      <3>3. QED
        BY <2>5, <3>1, <3>2 DEF CreateSession
    <2>6. ASSUME row # None, NEW key, NEW kind, NEW body, NEW to
          PROVE  NextEvent(key, kind, body, to).content.seq = n + 1
      BY <1>3, <2>2, <2>6 DEF InStep, NextEvent, Event
    <2>7. ASSUME NEW c \in Clients, NEW key \in AppendKeys, NEW body \in Bodies,
                 NEW asked \in Targets, AppendEvent(c, key, body, asked)
          PROVE  InStep'
      <3>1. CASE \E r : Ends(c, r)
        BY <2>3, <3>1 DEF Ends
      <3>2. CASE AppendAgain(c, key, body, asked)
        BY <3>1, <3>2 DEF AppendAgain
      <3>3. CASE row # None /\ AppendNew(c, key, body, asked)
        <4> DEFINE target == IF asked = None THEN row.view.state ELSE asked
                   event == NextEvent(key, "appended", body, target)
        <4>1. event.content.seq = n + 1
          BY <2>6, <3>3
        <4>2. row.view \in Views
          BY <1>3, <3>3 DEF TypeOK
        <4>3. \/ Ends(c, Refused)
              \/ Opens(c, event, TRUE, AppendedView(target, event),
                       Reply("event", AppendRequest(key, body, asked), event))
          BY <3>3 DEF AppendNew
        <4> HIDE DEF event, target
        <4>4. AppendedView(target, event).seq = n + 1
          BY <4>1, <4>2 DEF AppendedView, Views
        <4>5. QED
          BY <2>4, <3>1, <4>3, <4>4
      <3>4. QED
        BY <2>7, <3>1, <3>2, <3>3 DEF AppendEvent
    <2>8. ASSUME NEW c \in Clients, NEW p \in Plans, AttachPlan(c, p), ~ReattachesLate
          PROVE  InStep'
      <3>1. CASE \E r : Ends(c, r)
        BY <2>3, <3>1 DEF Ends
      <3>2. ASSUME MayAttach(p), NEW event
            PROVE  AttachedView(p, event).seq = event.content.seq
        <4>1. row.view \in Views
          BY <1>3, <3>2 DEF TypeOK, MayAttach
        <4>2. QED
          BY <4>1 DEF AttachedView, Views
      <3>3. CASE MayAttach(p) /\ AttachAgain(c, p)
        <4>1. PICK i \in JournalledUnder(p) :
                \/ Ends(c, Refused)
                \/ Opens(c, journal[i], FALSE, AttachedView(p, journal[i]),
                         Reply("event", AttachRequest(p), journal[i]))
          BY <3>3 DEF AttachAgain
        <4>2. i \in 1..n /\ journal[i].content.seq = i
          BY <2>1 DEF JournalledUnder, Sound, Chain
        <4>3. row.view.seq = n
          BY <1>3, <2>2, <3>3 DEF InStep, MayAttach
        <4>4. CASE Opens(c, journal[i], FALSE, AttachedView(p, journal[i]),
                         Reply("event", AttachRequest(p), journal[i]))
          <5>1. tx'.event = journal[i]
            BY <4>4 DEF Opens
          <5>2. tx' # None => ~(journal[i].content.seq < row.view.seq)
            BY <2>8, <5>1 DEF ReattachesLate
          <5>3. AttachedView(p, journal[i]).seq = i
            BY <3>2, <3>3, <4>2
          <5>4. tx' # None => i = n
            BY <4>2, <4>3, <5>2
          <5>5. QED
            BY <2>4, <4>4, <5>3, <5>4
        <4>5. QED
          BY <3>1, <4>1, <4>4
      <3>4. CASE MayAttach(p) /\ AttachNew(c, p)
        <4> DEFINE event == NextEvent(p, "plan_attached", p, row.view.state)
        <4>1. event.content.seq = n + 1
          BY <2>6, <3>4 DEF MayAttach
        <4>2. \/ Ends(c, Refused)
              \/ Opens(c, event, TRUE, AttachedView(p, event), Reply("event", AttachRequest(p), event))
          BY <3>4 DEF AttachNew
        <4> HIDE DEF event
        <4>3. AttachedView(p, event).seq = n + 1
          BY <3>2, <3>4, <4>1
        <4>4. QED
          BY <2>4, <3>1, <4>2, <4>3
      <3>5. QED
        BY <2>8, <3>1, <3>3, <3>4 DEF AttachPlan
    <2>9. ASSUME WriteSnapshot PROVE InStep'
      <3>1. /\ UNCHANGED <<row, journal>> /\ tx # None
            /\ tx'.fresh = tx.fresh /\ tx'.view = tx.view
        BY <2>9 DEF WriteSnapshot
      <3>2. QED
        BY <1>3, <3>1 DEF InStep, JournalLength
    <2>10. ASSUME Commit PROVE InStep'
      <3>1. tx # None /\ tx' = None /\ row'.view = tx.view
        BY <2>10 DEF Commit
      <3>2. CASE tx.fresh
        <4>1. Sound(n + 1)'
          BY <1>3, <2>1, <2>10, <3>2, CommitAddsNext
        <4>2. Cardinality(DOMAIN journal') = n + 1
          BY <4>1, Length DEF Sound, Chain
        <4>3. QED
          BY <1>3, <2>2, <3>1, <3>2, <4>2 DEF InStep, JournalLength
      <3>3. CASE ~tx.fresh
        <4>1. UNCHANGED journal
          BY <2>10, <3>3 DEF Commit
        <4>2. QED
          BY <1>3, <3>1, <3>3, <4>1 DEF InStep, JournalLength
      <3>4. QED
        BY <3>2, <3>3
    <2>11. ASSUME NEW c \in Clients,
                  ResumeRow(c) \/ ResumeEvents(c) \/ ResumeSnapshot(c)
           PROVE  InStep'
      BY <2>3, <2>11 DEF ResumeRow, ResumeEvents, ResumeSnapshot, ResumeEnds, Ends
    <2>12. ASSUME NEW c \in Clients, Crash(c) PROVE InStep'
      BY <2>3, <2>12 DEF Crash
    <2>13. CASE UNCHANGED vars
      BY <2>3, <2>13 DEF vars
    <2>14. QED
      BY <1>3, <2>5, <2>7, <2>8, <2>9, <2>10, <2>11, <2>12, <2>13 DEF Next
  <1>4. SoundInv /\ InStep /\ JournalReplays /\ RowWithinJournal => RowMatchesJournal
    <2> SUFFICES ASSUME NEW n \in Nat, Sound(n), InStep, JournalReplays,
                        RowWithinJournal, row # None
                 PROVE  RowReplays(row.view, journal) /\ row.view.plan = JournalPlan(journal)
      BY DEF SoundInv, RowMatchesJournal
    <2>1. row.view.seq = JournalLength
      BY DEF InStep
    <2>2. QED
      BY <2>1 DEF RowWithinJournal, JournalReplays, RowReplays, JournalLength
  <1>5. DisciplinedSpec => Spec
    BY <1>2, PTL DEF DisciplinedSpec, Spec
  <1>6. QED
    BY <1>1, <1>3, <1>4, <1>5, TypeCorrect, SoundInvariant, JournalAlwaysReplays,
       RowStaysWithinJournal, PTL DEF DisciplinedSpec

===============================================================================
