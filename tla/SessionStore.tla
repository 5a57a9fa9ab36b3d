---------------------------- MODULE SessionStore ----------------------------
(***************************************************************************)
(* SessionStore of session_store.py: one audit session kept as a row, a    *)
(* hash-chained journal of events and immutable snapshots in a content-    *)
(* addressed store (CAS), used by several concurrent callers that may      *)
(* crash between any two steps.                                            *)
(*                                                                         *)
(* BEGIN IMMEDIATE admits one write transaction at a time, so everything a *)
(* call reads and computes inside it is one step; the CAS file is renamed  *)
(* into place before COMMIT and survives a rollback, so it is a step of    *)
(* its own.  resume() reads the row, the events and the row again in three *)
(* separate statements.                                                    *)
(*                                                                         *)
(* A hash is modelled by what it covers: the hash of an event is the       *)
(* sequence of the contents of all events up to it.  A CAS id is the       *)
(* snapshot it is the digest of.  Timestamps and actors are left out.      *)
(***************************************************************************)
EXTENDS Integers, Sequences, FiniteSets, Lifecycle

CONSTANTS
  Clients,     \* threads or processes that call the store
  AppendKeys,  \* idempotency keys the callers of append_event choose
  Bodies,      \* event_type and data of those calls
  Targets,     \* to_state of those calls: lifecycle states, or None to stay
  Plans,       \* activation plans; a plan stands for its plan_id and digest
  Revision,    \* Revision[p]: the plan_revision of p
  BoundPlans,  \* the plans whose session_root is the session's
  MaxEvents,   \* bound on the journal; no call of the model goes beyond it
  MaxOrphans,  \* bound on CAS files left by calls that died before COMMIT
  None         \* "no value"

CreatedKey == "session-created"

(* attach_plan derives its key from the plan, so a plan stands for its key. *)
JournalKeys == AppendKeys \cup Plans \cup {CreatedKey}

ASSUME ConstantsAssumption ==
  /\ Revision \in [Plans -> Nat]
  /\ BoundPlans \subseteq Plans
  /\ MaxEvents \in Nat
  /\ MaxOrphans \in Nat
  /\ Targets \subseteq LifecycleStates \cup {None}
  /\ None \notin Plans
  /\ CreatedKey \notin Plans
  /\ None \notin Clients

-----------------------------------------------------------------------------
(* Events, hashes and the session's mutable columns.                       *)

Contents == [seq: Nat, key: JournalKeys,
             kind: {"session_created", "plan_attached", "appended"},
             body: Bodies \cup Plans \cup {None},
             from: LifecycleStates, to: LifecycleStates]

Hashes == Seq(Contents)

ZeroHash == << >>

Events == [content: Contents, prev: Hashes]

Hash(event) == Append(event.prev, event.content)

Event(seq, key, kind, body, from, to, prev) ==
  [content |-> [seq |-> seq, key |-> key, kind |-> kind, body |-> body,
                from |-> from, to |-> to],
   prev |-> prev]

(* The columns of a session row that change, which are also what the       *)
(* audit_session snapshot records.                                         *)
Views == [state: LifecycleStates, plan: Plans \cup {None},
          revision: Int, seq: Nat, last: Hashes]

(* None is neither a row nor an event.                                     *)
ASSUME NoneAssumption == None \notin [view: Views, snapshot: Views] \cup Events

-----------------------------------------------------------------------------
VARIABLES
  row,       \* the sessions row: its columns and snapshot_id, or None
  journal,   \* the events table: sequence number -> event
  objects,   \* ids in the objects table
  casFiles,  \* CAS files in place on disk
  tx,        \* the open write transaction, or None
  seen,      \* seen[c]: what an unfinished resume() of c has read, or None
  reply      \* reply[c]: how the latest call of c ended

vars == <<row, journal, objects, casFiles, tx, seen, reply>>

(* What a call asked for; the state it is to lead to is None to stay.      *)
Request(key, kind, body, to) == [key |-> key, kind |-> kind, body |-> body, to |-> to]

Reply(outcome, asked, event) ==
  [outcome |-> outcome, asked |-> asked, event |-> event, resumed |-> None]

(* Nothing was returned yet, or the call raised SessionStoreError.         *)
NoReply == Reply("none", None, None)
Refused == NoReply
Opened  == Reply("opened", None, None)

Answer(c, r) == reply' = [reply EXCEPT ![c] = r]

Init == /\ row = None
        /\ journal = << >>
        /\ objects = {}
        /\ casFiles = {}
        /\ tx = None
        /\ seen = [c \in Clients |-> None]
        /\ reply = [c \in Clients |-> NoReply]

-----------------------------------------------------------------------------
(* Replay: the checks _assert_replay_tx makes of the journal alone.        *)

HashBefore(j, i) == IF i = 1 THEN ZeroHash ELSE Hash(j[i - 1])

StateBefore(j, i) == IF i = 1 THEN InitialState ELSE j[i - 1].content.to

Replays(j) ==
  LET n == Cardinality(DOMAIN j) IN
  /\ n > 0
  /\ DOMAIN j = 1..n
  /\ \A i \in 1..n :
       /\ j[i].content.seq = i
       /\ j[i].prev = HashBefore(j, i)
       /\ j[i].content.from = StateBefore(j, i)
       /\ MayMove(j[i].content.from, j[i].content.to)

(* ... and of the row against it.                                          *)
RowReplays(view, j) ==
  /\ Replays(j)
  /\ view.seq = Cardinality(DOMAIN j)
  /\ view.state = j[view.seq].content.to
  /\ view.last = Hash(j[view.seq])

-----------------------------------------------------------------------------
(* Write transactions.                                                     *)

Writing(c) == tx # None /\ tx.client = c

(* A caller with nothing under way obtains the write lock.                 *)
Begins(c) == /\ tx = None
             /\ seen[c] = None

(* The call raises, or answers from what is stored: nothing is written.    *)
Ends(c, r) == /\ Answer(c, r)
              /\ UNCHANGED <<row, journal, objects, casFiles, tx, seen>>

(* Mutant: the caller is answered before COMMIT.                          *)
OpensAnswering(c, event, fresh, view, answer) ==
  /\ tx' = [client |-> c, event |-> event, fresh |-> fresh, view |-> view,
            stored |-> FALSE, answer |-> answer]
  /\ Answer(c, answer)
  /\ UNCHANGED <<row, journal, objects, casFiles, seen>>

(* The call goes on to write: the event, unless it is already journalled,  *)
(* and the row's new columns.                                              *)
Opens(c, event, fresh, view, answer) ==
  /\ tx' = [client |-> c, event |-> event, fresh |-> fresh, view |-> view,
            stored |-> FALSE, answer |-> answer]
  /\ Answer(c, NoReply)
  /\ UNCHANGED <<row, journal, objects, casFiles, seen>>

JournalledUnder(key) == {i \in DOMAIN journal : journal[i].content.key = key}

(* The events table has PRIMARY KEY(session_id, sequence) and              *)
(* UNIQUE(session_id, idempotency_key).                                    *)
Clashes(event) ==
  \E i \in DOMAIN journal : i = event.content.seq \/ journal[i].content.key = event.content.key

(* Mutant: a new event does not name its predecessor.                     *)
NextEventUnchained(key, kind, body, to) ==
  Event(row.view.seq + 1, key, kind, body, row.view.state, to, ZeroHash)

NextEvent(key, kind, body, to) ==
  Event(row.view.seq + 1, key, kind, body, row.view.state, to, row.view.last)

FirstEvent == Event(1, CreatedKey, "session_created", None,
                    InitialState, InitialState, ZeroHash)

FirstView == [state |-> InitialState, plan |-> None, revision |-> -1,
              seq |-> 1, last |-> Hash(FirstEvent)]

(* create_session: the id is derived from the arguments, so a second call  *)
(* finds the session, replays it and returns the same id.                  *)
CreateSession(c) ==
  /\ Begins(c)
  /\ \/ /\ row = None
        /\ Opens(c, FirstEvent, TRUE, FirstView, Opened)
     \/ /\ row # None
        /\ Ends(c, IF RowReplays(row.view, journal) THEN Opened ELSE Refused)

AppendRequest(key, body, to) == Request(key, "appended", body, to)

(* Mutant: a stored event is returned whatever the request says.           *)
AppendAgainUnchecked(c, key, body, asked) ==
  \E i \in JournalledUnder(key) :
    Ends(c, Reply("event", AppendRequest(key, body, asked), journal[i]))

(* append_event, when the key is already journalled: the stored event is   *)
(* rebuilt from the request's type and data and from its OWN states.       *)
AppendAgain(c, key, body, asked) ==
  \E i \in JournalledUnder(key) :
    LET event == journal[i]
        same  == event.content.kind = "appended" /\ event.content.body = body
    IN Ends(c, IF same THEN Reply("event", AppendRequest(key, body, asked), event)
                       ELSE Refused)

(* Mutant: the row keeps its old state.                                   *)
AppendedViewOldState(target, event) ==
  [row.view EXCEPT !.seq = event.content.seq, !.last = Hash(event)]

AppendedView(target, event) ==
  [row.view EXCEPT !.state = target, !.seq = event.content.seq, !.last = Hash(event)]

(* append_event with a new key.                                            *)
AppendNew(c, key, body, asked) ==
  LET target == IF asked = None THEN row.view.state ELSE asked
      event  == NextEvent(key, "appended", body, target)
  IN /\ JournalledUnder(key) = {}
     /\ \/ /\ ~MayMove(row.view.state, target) \/ Clashes(event)
           /\ Ends(c, Refused)
        \/ /\ MayMove(row.view.state, target)
           /\ ~Clashes(event)
           /\ event.content.seq <= MaxEvents
           /\ Opens(c, event, TRUE, AppendedView(target, event),
                    Reply("event", AppendRequest(key, body, asked), event))

AppendEvent(c, key, body, asked) ==
  /\ Begins(c)
  /\ \/ row = None /\ Ends(c, Refused)
     \/ row # None /\ AppendAgain(c, key, body, asked)
     \/ row # None /\ AppendNew(c, key, body, asked)

(* Mutant: attach_plan does not compare revisions.                        *)
MayAttachAny(p) == row # None /\ p \in BoundPlans

(* attach_plan's refusals: another session's plan, an older revision, or a *)
(* second plan of the current revision.                                    *)
MayAttach(p) ==
  /\ row # None
  /\ p \in BoundPlans
  /\ \/ Revision[p] > row.view.revision
     \/ Revision[p] = row.view.revision /\ p = row.view.plan

(* Mutants: the row keeps its old hash, its old plan.                      *)
AttachedViewOldHash(p, event) ==
  [row.view EXCEPT !.plan = p, !.revision = Revision[p], !.seq = event.content.seq]

AttachedViewOldPlan(p, event) ==
  [row.view EXCEPT !.revision = Revision[p], !.seq = event.content.seq, !.last = Hash(event)]

AttachedView(p, event) ==
  [row.view EXCEPT !.plan = p, !.revision = Revision[p],
                   !.seq = event.content.seq, !.last = Hash(event)]

AttachRequest(p) == Request(p, "plan_attached", p, None)

(* A plan already journalled is attached again by its old event, whose     *)
(* sequence and hash become the row's.                                     *)
AttachAgain(c, p) ==
  \E i \in JournalledUnder(p) :
    LET event == journal[i] IN
    \/ /\ event.content.kind = "plan_attached"
       /\ event.content.body = p
       /\ Opens(c, event, FALSE, AttachedView(p, event), Reply("event", AttachRequest(p), event))
    \/ /\ event.content.kind # "plan_attached" \/ event.content.body # p
       /\ Ends(c, Refused)

AttachNew(c, p) ==
  LET event == NextEvent(p, "plan_attached", p, row.view.state)
  IN /\ JournalledUnder(p) = {}
     /\ \/ /\ Clashes(event)
           /\ Ends(c, Refused)
        \/ /\ ~Clashes(event)
           /\ event.content.seq <= MaxEvents
           /\ Opens(c, event, TRUE, AttachedView(p, event), Reply("event", AttachRequest(p), event))

AttachPlan(c, p) ==
  /\ Begins(c)
  /\ \/ ~MayAttach(p) /\ Ends(c, Refused)
     \/ MayAttach(p) /\ AttachAgain(c, p)
     \/ MayAttach(p) /\ AttachNew(c, p)

(* _write_immutable: temporary file, fsync, rename.                        *)
WriteSnapshot ==
  /\ tx # None
  /\ ~tx.stored
  /\ casFiles' = casFiles \cup {tx.view}
  /\ tx' = [tx EXCEPT !.stored = TRUE]
  /\ UNCHANGED <<row, journal, objects, seen, reply>>

InsertEvent(event) ==
  [i \in DOMAIN journal \cup {event.content.seq} |->
     IF i = event.content.seq THEN event ELSE journal[i]]

(* Mutant: COMMIT does not wait for the CAS file.                         *)
CommitBeforeRename ==
  /\ tx # None
  /\ journal' = IF tx.fresh THEN InsertEvent(tx.event) ELSE journal
  /\ objects' = objects \cup {tx.view}
  /\ row' = [view |-> tx.view, snapshot |-> tx.view]
  /\ Answer(tx.client, tx.answer)
  /\ tx' = None
  /\ UNCHANGED <<casFiles, seen>>

(* COMMIT makes the event, the object row and the session row visible at   *)
(* once; the caller is answered.                                           *)
Commit ==
  /\ tx # None
  /\ tx.stored
  /\ journal' = IF tx.fresh THEN InsertEvent(tx.event) ELSE journal
  /\ objects' = objects \cup {tx.view}
  /\ row' = [view |-> tx.view, snapshot |-> tx.view]
  /\ Answer(tx.client, tx.answer)
  /\ tx' = None
  /\ UNCHANGED <<casFiles, seen>>

-----------------------------------------------------------------------------
(* resume(): three reads, none of them under a lock.                       *)

ResumeRow(c) ==
  /\ seen[c] = None
  /\ ~Writing(c)
  /\ \/ /\ row = None
        /\ Ends(c, Refused)
     \/ /\ row # None
        /\ seen' = [seen EXCEPT ![c] = [view |-> row.view, events |-> None]]
        /\ Answer(c, NoReply)
        /\ UNCHANGED <<row, journal, objects, casFiles, tx>>

ResumeEnds(c, r) ==
  /\ seen' = [seen EXCEPT ![c] = None]
  /\ Answer(c, r)
  /\ UNCHANGED <<row, journal, objects, casFiles, tx>>

Tampered == Reply("tampered", None, None)

ResumeEvents(c) ==
  /\ seen[c] # None
  /\ seen[c].events = None
  /\ \/ /\ RowReplays(seen[c].view, journal)
        /\ seen' = [seen EXCEPT ![c].events = journal]
        /\ UNCHANGED <<row, journal, objects, casFiles, tx, reply>>
     \/ /\ ~RowReplays(seen[c].view, journal)
        /\ ResumeEnds(c, Tampered)

(* The snapshot id is read from the row as it is now; the object it names  *)
(* must equal what the first read replayed to.  The caller may also name   *)
(* the plan it expects.                                                    *)
ResumeSnapshot(c) ==
  /\ seen[c] # None
  /\ seen[c].events # None
  /\ \/ /\ row.snapshot \notin objects \cap casFiles \/ row.snapshot # seen[c].view
        /\ ResumeEnds(c, Tampered)
     \/ /\ row.snapshot \in objects \cap casFiles
        /\ row.snapshot = seen[c].view
        /\ \E expected \in Plans \cup {None} :
             ResumeEnds(c, IF expected \in {None, seen[c].view.plan}
                           THEN [Reply("healthy", None, None) EXCEPT !.resumed = seen[c]]
                           ELSE Refused)

-----------------------------------------------------------------------------
(* A caller dies: its transaction is rolled back, a CAS file it renamed    *)
(* stays, and whatever it was told is forgotten.                           *)
Crash(c) ==
  /\ \/ Writing(c)
     \/ seen[c] # None
     \/ reply[c] # NoReply
  /\ Writing(c) /\ tx.stored => Cardinality(casFiles \ objects) <= MaxOrphans
  /\ tx' = IF Writing(c) THEN None ELSE tx
  /\ seen' = [seen EXCEPT ![c] = None]
  /\ Answer(c, NoReply)
  /\ UNCHANGED <<row, journal, objects, casFiles>>

Next ==
  \/ \E c \in Clients :
       \/ CreateSession(c)
       \/ \E key \in AppendKeys, body \in Bodies, asked \in Targets :
            AppendEvent(c, key, body, asked)
       \/ \E p \in Plans : AttachPlan(c, p)
       \/ ResumeRow(c)
       \/ ResumeEvents(c)
       \/ ResumeSnapshot(c)
       \/ Crash(c)
  \/ WriteSnapshot
  \/ Commit

Spec == Init /\ [][Next]_vars

(* A caller attaches the current plan again after the journal has moved    *)
(* past its attachment.                                                    *)
ReattachesLate ==
  \E c \in Clients, p \in Plans :
    AttachPlan(c, p) /\ tx' # None /\ tx'.event.content.seq < row.view.seq

(* The store as used by callers that do not do that.                       *)
DisciplinedSpec == Init /\ [][Next /\ ~ReattachesLate]_vars

-----------------------------------------------------------------------------
(* Properties.                                                             *)

Outcomes == {"none", "opened", "event", "healthy", "tampered"}

(* Every variable has the shape its comment states.                        *)
TypeOK ==
  /\ row = None \/ (row.view \in Views /\ row.snapshot \in Views)
  /\ \A i \in DOMAIN journal : i \in Nat /\ journal[i] \in Events
  /\ objects \subseteq Views
  /\ casFiles \subseteq Views
  /\ tx = None \/ (/\ tx.client \in Clients
                   /\ tx.event \in Events
                   /\ tx.view \in Views
                   /\ tx.answer.outcome \in Outcomes)
  /\ DOMAIN seen = Clients
  /\ \A c \in Clients : seen[c] = None \/ seen[c].view \in Views
  /\ DOMAIN reply = Clients
  /\ \A c \in Clients : reply[c].outcome \in Outcomes

(* The journal always replays: contiguous from 1, hash-chained, and a legal *)
(* lifecycle walk, however calls and crashes interleave.                   *)
JournalReplays == row # None => Replays(journal)

PlanEvents(j) == {i \in DOMAIN j : j[i].content.kind = "plan_attached"}

(* The plan a journal says is current.                                     *)
JournalPlan(j) ==
  IF PlanEvents(j) = {} THEN None
  ELSE j[CHOOSE i \in PlanEvents(j) : \A k \in PlanEvents(j) : k <= i].content.body

(* The row never runs ahead of the journal and never disagrees with it on  *)
(* the lifecycle state or the current plan; it lags only at the attachment *)
(* of its current plan.                                                    *)
RowWithinJournal ==
  row # None =>
    LET n == Cardinality(DOMAIN journal) IN
    /\ row.view.seq \in 1..n
    /\ row.view.last = Hash(journal[row.view.seq])
    /\ row.view.state = journal[n].content.to
    /\ row.view.plan = JournalPlan(journal)
    /\ row.view.seq < n => row.view.seq \in PlanEvents(journal)

(* The snapshot the row names is indexed, on disk, and is the row itself:  *)
(* a crash between the rename and the COMMIT never leaves a row without it. *)
SnapshotStored ==
  /\ objects \subseteq casFiles
  /\ row # None => row.snapshot \in objects /\ row.snapshot = row.view

(* A call is answered by the event of its own key, type and data, and that *)
(* event is the only one the journal holds under the key: whatever was     *)
(* answered survives every crash, and a repeated call gets what was first  *)
(* recorded for it or is refused.                                          *)
AnswersJournalled ==
  \A c \in Clients :
    reply[c].outcome = "event" =>
      LET asked == reply[c].asked
          event == reply[c].event
      IN /\ event.content.kind = asked.kind
         /\ event.content.body = asked.body
         /\ \E i \in DOMAIN journal :
              /\ journal[i] = event
              /\ \A k \in DOMAIN journal : journal[k].content.key = asked.key <=> k = i

(* A resume that succeeds returns one consistent moment of the session,    *)
(* plan included, although it was put together from three separate reads.  *)
ResumeConsistent ==
  \A c \in Clients :
    reply[c].outcome = "healthy" =>
      LET got == reply[c].resumed IN
      /\ RowReplays(got.view, got.events)
      /\ got.view.plan = JournalPlan(got.events)

(* The attached plan is never replaced by an older one, nor by another of  *)
(* the same revision.                                                      *)
PlanMovesForward ==
  [][row # None /\ row' # None /\ row'.view.plan # row.view.plan =>
       row'.view.revision > row.view.revision]_vars

(* Row and journal agree completely: what the class documentation calls    *)
(* journal events committed atomically with the session snapshot.          *)
RowMatchesJournal ==
  row # None => /\ RowReplays(row.view, journal)
                /\ row.view.plan = JournalPlan(journal)

(* They part in one way only: the current plan is attached again after the *)
(* journal has moved past its attachment.  No append, no first attachment, *)
(* no crash and no race of several callers parts them.                     *)
PartedByReattaching ==
  [][RowMatchesJournal /\ ~RowMatchesJournal' =>
       /\ tx # None /\ ~tx.fresh
       /\ tx.view.seq \in PlanEvents(journal)
       /\ tx.view.seq < row.view.seq
       /\ tx.view.plan = row.view.plan]_vars

(* The state an append asked for is the one its answer records.            *)
AnswerAsAsked ==
  \A c \in Clients :
    reply[c].outcome = "event" /\ reply[c].asked.to # None =>
      reply[c].event.content.to = reply[c].asked.to

(* Nobody tampers with the store in this model, so no resume reports it.   *)
NoFalseAlarm == \A c \in Clients : reply[c].outcome # "tampered"

-----------------------------------------------------------------------------
(* The store implements the journal its callers are promised.              *)

Entry(event) == [key |-> event.content.key, kind |-> event.content.kind,
                 body |-> event.content.body,
                 from |-> event.content.from, to |-> event.content.to]

Promise == INSTANCE AuditJournal WITH
  log  <- [i \in 1..Cardinality(DOMAIN journal) |-> Entry(journal[i])],
  told <- [c \in Clients |-> IF reply[c].event = None THEN None
                             ELSE Entry(reply[c].event)]

JournalPromise == Promise!Spec

=============================================================================
