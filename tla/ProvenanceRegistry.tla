------------------------ MODULE ProvenanceRegistry -------------------------
(***************************************************************************)
(* ProvenanceRegistry (provenance.py): sources, validation receipts and    *)
(* claims under content-addressed ids, with a journal of their insertion.  *)
(* Every caller fills a registry of its own in memory and saves it to a    *)
(* file all callers share, under a file lock and against the root hash it  *)
(* expects the file to have.                                               *)
(*                                                                         *)
(* Calls that raise and change nothing are not steps.  A record stands for *)
(* its whole content; its id covers only part of it, so that different     *)
(* records may have one id.  The root hash covers the records and not the  *)
(* journal: it is modelled by the records.  The hash chain of the journal  *)
(* is the journal itself, since nobody edits the file by hand here.        *)
(***************************************************************************)
EXTENDS Integers, Sequences, FiniteSets

CONSTANTS
  Callers,     \* processes or threads, each with one registry
  Records,     \* records whose own fields are in order
  Id,          \* Id[r]: the content-addressed id of r
  Kind,        \* Kind[id]: 1 source, 2 validation receipt, 3 claim
  Rank,        \* Rank[id]: the place of id in the order of its kind
  Refs,        \* Refs[r]: the ids r names, other than by supersedes
  Supersedes,  \* Supersedes[r]: the claim r supersedes, or None
  Stamps,      \* actor and time the callers give: "ok", "blank" for an empty
               \* actor, "undated" for a time that is not one
  None

Ids == {Id[r] : r \in Records}

ASSUME ConstantsAssumption ==
  /\ Kind \in [Ids -> 1..3]
  /\ Rank \in [Ids -> Nat]
  /\ Refs \in [Records -> SUBSET Ids]
  /\ Supersedes \in [Records -> Ids \cup {None}]
  /\ Stamps \subseteq {"ok", "blank", "undated"}
  /\ None \notin Ids
  /\ None \notin Callers

-----------------------------------------------------------------------------
(* Registries.  records is a function on the ids held.                     *)

RecordSets == UNION {[held -> Records] : held \in SUBSET Ids}

Journals == Seq([id: Ids, stamp: Stamps])

Registries == [records: RecordSets, journal: Journals]

(* None is neither a set of records nor a registry.                        *)
ASSUME NoneAssumption == None \notin RecordSets /\ None \notin Registries

Registry(records, journal) == [records |-> records, journal |-> journal]

Empty == Registry([id \in {} |-> None], << >>)

Holds(reg, id) == id \in DOMAIN reg.records

VARIABLES
  mem,   \* mem[c]: the registry of c
  root,  \* root[c]: the root hash c last loaded or saved, or None
  file,  \* the registry document on disk, or None
  lock   \* who is inside save(), or None

vars == <<mem, root, file, lock>>

Init == /\ mem = [c \in Callers |-> Empty]
        /\ root = [c \in Callers |-> None]
        /\ file = None
        /\ lock = None

-----------------------------------------------------------------------------
(* Insertion.                                                              *)

Named(r) == Refs[r] \cup (IF Supersedes[r] = None THEN {} ELSE {Supersedes[r]})

(* Mutant: references need not resolve.                                    *)
MayAddDangling(reg, r) == Holds(reg, Id[r]) => reg.records[Id[r]] = r

(* Everything a record names is held, and no other record has its id.      *)
MayAdd(reg, r) ==
  /\ \A id \in Named(r) : Holds(reg, id)
  /\ Holds(reg, Id[r]) => reg.records[Id[r]] = r

Inserted(records, r) ==
  [id \in DOMAIN records \cup {Id[r]} |-> IF id = Id[r] THEN r ELSE records[id]]

(* add_source, add_validation_receipt, add_claim with a new record: it is  *)
(* inserted, then journalled, and an empty actor is refused only there.    *)
Add(c, r, stamp) ==
  /\ lock # c
  /\ MayAdd(mem[c], r)
  /\ ~Holds(mem[c], Id[r])
  /\ mem' = [mem EXCEPT ![c] =
       Registry(Inserted(@.records, r),
                IF stamp = "blank" THEN @.journal
                ELSE Append(@.journal, [id |-> Id[r], stamp |-> stamp]))]
  /\ UNCHANGED <<root, file, lock>>

-----------------------------------------------------------------------------
(* Reading a document back.                                                *)

(* Sources are added first, then receipts, then claims, each by its id.    *)
Precedes(a, b) == Kind[a] < Kind[b] \/ (Kind[a] = Kind[b] /\ Rank[a] < Rank[b])

Resolves(document) ==
  \A id \in DOMAIN document.records :
    \A named \in Named(document.records[id]) :
      Holds(document, named) /\ Precedes(named, id)

(* _validate_journal: sound events, exactly one for each record.           *)
JournalSound(document) ==
  LET events == DOMAIN document.journal IN
  /\ \A i \in events : document.journal[i].stamp = "ok"
  /\ \A i, k \in events : document.journal[i].id = document.journal[k].id => i = k
  /\ {document.journal[i].id : i \in events} = DOMAIN document.records

Loadable(document) == Resolves(document) /\ JournalSound(document)

(* ProvenanceRegistry.load makes a new registry.  The caller goes on with  *)
(* it, or only takes its root hash, to save the registry it has.           *)
Load(c) ==
  /\ lock # c
  /\ file # None
  /\ Loadable(file)
  /\ mem' \in {mem, [mem EXCEPT ![c] = file]}
  /\ root' = [root EXCEPT ![c] = file.records]
  /\ UNCHANGED <<file, lock>>

-----------------------------------------------------------------------------
(* save().                                                                 *)

(* _assert_extension: nothing removed or changed, the journal continued.   *)
Extends(old, new) ==
  /\ \A id \in DOMAIN old.records : Holds(new, id) /\ new.records[id] = old.records[id]
  /\ Len(old.journal) <= Len(new.journal)
  /\ \A i \in 1..Len(old.journal) : new.journal[i] = old.journal[i]

(* Mutants: an existing file is not looked at; the new document is not     *)
(* compared with the old one.                                              *)
MaySaveBlindly(c, expected) == file = None => expected = None

MaySaveAnything(c, expected) ==
  IF file = None THEN expected = None
  ELSE Loadable(file) /\ expected = file.records

(* An existing file is loaded, must have the root hash the caller expects  *)
(* and be extended by the new document; a new one has no expected root.    *)
MaySave(c, expected) ==
  IF file = None THEN expected = None
  ELSE /\ Loadable(file)
       /\ expected = file.records
       /\ Extends(file, mem[c])

(* The lock is obtained and the file examined under it.                    *)
SaveBegin(c) ==
  /\ lock = None
  /\ \E expected \in {root[c], None} : MaySave(c, expected)
  /\ lock' = c
  /\ UNCHANGED <<mem, root, file>>

(* The temporary file is written and renamed onto the target.              *)
SaveReplace(c) ==
  /\ lock = c
  /\ file' = mem[c]
  /\ root' = [root EXCEPT ![c] = mem[c].records]
  /\ lock' = None
  /\ UNCHANGED mem

(* Writing fails before the rename, or the directory cannot be synced      *)
(* after it: save() raises either way.                                     *)
SaveFails(c) ==
  /\ lock = c
  /\ file' \in {file, mem[c]}
  /\ lock' = None
  /\ UNCHANGED <<mem, root>>

(* The process dies: its registry and its lock are gone, a half-written    *)
(* temporary file is never looked at.  Or the caller drops its registry.   *)
Crash(c) ==
  /\ mem' = [mem EXCEPT ![c] = Empty]
  /\ root' = [root EXCEPT ![c] = None]
  /\ lock' = IF lock = c THEN None ELSE lock
  /\ UNCHANGED file

Next ==
  \E c \in Callers :
    \/ \E r \in Records, stamp \in Stamps : Add(c, r, stamp)
    \/ Load(c)
    \/ SaveBegin(c)
    \/ SaveReplace(c)
    \/ SaveFails(c)
    \/ Crash(c)

Spec == Init /\ [][Next]_vars

-----------------------------------------------------------------------------
(* Properties.                                                             *)

RegistryOK(reg) ==
  /\ reg \in Registries
  /\ \A id \in DOMAIN reg.records : Id[reg.records[id]] = id

(* Every variable has the shape its comment states, and every record is    *)
(* filed under its own id.                                                 *)
TypeOK ==
  /\ mem \in [Callers -> Registries]
  /\ \A c \in Callers : RegistryOK(mem[c])
  /\ root \in [Callers -> RecordSets \cup {None}]
  /\ file = None \/ RegistryOK(file)
  /\ lock \in Callers \cup {None}

(* No registry, in memory or on disk, holds a record that names one it     *)
(* does not hold.                                                          *)
ReferencesResolve ==
  \A reg \in {mem[c] : c \in Callers} \cup ({file} \ {None}) :
    \A id \in DOMAIN reg.records : \A named \in Named(reg.records[id]) : Holds(reg, named)

(* What a caller loaded or saved is never lost: the file still holds every *)
(* record of it, unchanged, whatever other callers saved since.            *)
NothingLost ==
  \A c \in Callers : root[c] # None =>
    /\ file # None
    /\ \A id \in DOMAIN root[c] : Holds(file, id) /\ file.records[id] = root[c][id]

(* The file only grows: no save removes or changes a record or rewrites    *)
(* the journal's past, and none is lost in a crash.                        *)
FileGrows == [][file # None => file' # None /\ Extends(file, file')]_vars

(* Whoever replaces the file had seen exactly the records it replaces: no  *)
(* save is made on a stale view.                                           *)
SavesUpToDate ==
  [][file # None /\ file' # file => \E c \in Callers : root[c] = file.records]_vars

(* No record is journalled twice.                                          *)
JournalledOnce ==
  \A c \in Callers : \A i, k \in DOMAIN mem[c].journal :
    mem[c].journal[i].id = mem[c].journal[k].id => i = k

(* A file that save() wrote can be loaded, and so updated, again.          *)
FileLoadable == file # None => Loadable(file)

=============================================================================
