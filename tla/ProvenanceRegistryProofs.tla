---------------------- MODULE ProvenanceRegistryProofs ----------------------
(***************************************************************************)
(* Proofs about ProvenanceRegistry for any number of callers and records,  *)
(* any references among them and any failures of save().                   *)
(***************************************************************************)
EXTENDS ProvenanceRegistry, TLAPS

-----------------------------------------------------------------------------
(* Registries.                                                             *)

LEMMA EmptyType == RegistryOK(Empty) /\ DOMAIN Empty.records = {} /\ Empty.journal = << >>
  <1>1. Empty.records \in [{} -> Records] /\ DOMAIN Empty.records = {}
    BY DEF Empty, Registry
  <1>2. Empty.records \in RecordSets
    BY <1>1 DEF RecordSets
  <1>3. QED
    BY <1>1, <1>2 DEF Empty, Registry, RegistryOK, Registries, Journals

LEMMA RegistryType ==
  ASSUME NEW reg, RegistryOK(reg)
  PROVE  /\ DOMAIN reg.records \subseteq Ids
         /\ reg.records \in [DOMAIN reg.records -> Records]
         /\ reg.journal \in Journals
         /\ reg # None
         /\ reg.records \in RecordSets /\ reg.records # None
  <1>1. reg.records \in RecordSets /\ reg.journal \in Journals
    BY DEF RegistryOK, Registries
  <1>2. PICK held \in SUBSET Ids : reg.records \in [held -> Records]
    BY <1>1 DEF RecordSets
  <1>3. QED
    BY <1>1, <1>2, NoneAssumption DEF RegistryOK

LEMMA AppendType ==
  ASSUME NEW journal \in Journals, NEW event \in [id: Ids, stamp: Stamps]
  PROVE  /\ Append(journal, event) \in Journals
         /\ Len(Append(journal, event)) = Len(journal) + 1
         /\ \A i \in 1..Len(journal) : Append(journal, event)[i] = journal[i]
         /\ Append(journal, event)[Len(journal) + 1] = event
         /\ DOMAIN journal = 1..Len(journal) /\ Len(journal) \in Nat
         /\ \A i \in DOMAIN journal : journal[i] \in [id: Ids, stamp: Stamps]
  <1> DEFINE events == [id: Ids, stamp: Stamps]
  <1>1. journal \in Seq(events) /\ event \in events
    BY DEF Journals
  <1> HIDE DEF events
  <1>2. /\ Append(journal, event) \in Seq(events)
        /\ Len(Append(journal, event)) = Len(journal) + 1
        /\ \A i \in 1..Len(journal) : Append(journal, event)[i] = journal[i]
        /\ Append(journal, event)[Len(journal) + 1] = event
        /\ DOMAIN journal = 1..Len(journal) /\ Len(journal) \in Nat
        /\ \A i \in DOMAIN journal : journal[i] \in events
    BY <1>1
  <1>3. QED
    BY <1>2 DEF Journals, events

(* What is inserted is held under its own id, and all else as it was.      *)
LEMMA InsertedType ==
  ASSUME NEW reg, RegistryOK(reg), NEW r \in Records
  PROVE  /\ Inserted(reg.records, r) \in RecordSets
         /\ DOMAIN Inserted(reg.records, r) = DOMAIN reg.records \cup {Id[r]}
         /\ \A id \in DOMAIN Inserted(reg.records, r) : Id[Inserted(reg.records, r)[id]] = id
         /\ Inserted(reg.records, r)[Id[r]] = r
         /\ \A id \in DOMAIN reg.records :
              id # Id[r] => Inserted(reg.records, r)[id] = reg.records[id]
  <1> DEFINE records == Inserted(reg.records, r)
             held == DOMAIN reg.records \cup {Id[r]}
  <1>1. held \in SUBSET Ids
    BY RegistryType DEF Ids
  <1>2. records \in [held -> Records]
    BY RegistryType DEF Inserted
  <1>3. records \in RecordSets
    BY <1>1, <1>2 DEF RecordSets
  <1>4. QED
    BY <1>2, <1>3 DEF Inserted, RegistryOK

(* The registry a caller has after adding a record it did not hold.        *)
LEMMA AddedType ==
  ASSUME TypeOK, NEW c \in Callers, NEW r \in Records, NEW stamp \in Stamps,
         Add(c, r, stamp)
  PROVE  /\ RegistryOK(mem'[c]) /\ mem'[c] \in Registries
         /\ \A d \in Callers : d # c => mem'[d] = mem[d]
         /\ mem' \in [Callers -> Registries]
         /\ mem'[c].records = Inserted(mem[c].records, r)
         /\ mem'[c].journal =
              IF stamp = "blank" THEN mem[c].journal
              ELSE Append(mem[c].journal, [id |-> Id[r], stamp |-> stamp])
  <1> DEFINE records == Inserted(mem[c].records, r)
             journal == IF stamp = "blank" THEN mem[c].journal
                        ELSE Append(mem[c].journal, [id |-> Id[r], stamp |-> stamp])
  <1>1. RegistryOK(mem[c]) /\ mem[c].journal \in Journals
    BY RegistryType DEF TypeOK
  <1>2. records \in RecordSets /\ \A id \in DOMAIN records : Id[records[id]] = id
    BY <1>1, InsertedType
  <1>3. [id |-> Id[r], stamp |-> stamp] \in [id: Ids, stamp: Stamps]
    BY DEF Ids
  <1>4. journal \in Journals
    BY <1>1, <1>3, AppendType
  <1>5. mem' = [mem EXCEPT ![c] = [records |-> records, journal |-> journal]]
    BY DEF Add, Registry
  <1> HIDE DEF records, journal
  <1>6. [records |-> records, journal |-> journal] \in Registries
    BY <1>2, <1>4 DEF Registries
  <1>7. mem'[c] = [records |-> records, journal |-> journal]
    BY <1>5 DEF TypeOK
  <1>8. RegistryOK(mem'[c])
    BY <1>2, <1>6, <1>7 DEF RegistryOK
  <1>9. QED
    BY <1>5, <1>6, <1>7, <1>8 DEF TypeOK, records, journal

LEMMA AddedRecords ==
  ASSUME TypeOK, NEW c \in Callers, NEW r \in Records, NEW stamp \in Stamps,
         Add(c, r, stamp)
  PROVE  /\ DOMAIN mem'[c].records = DOMAIN mem[c].records \cup {Id[r]}
         /\ mem'[c].records[Id[r]] = r
         /\ \A id \in DOMAIN mem[c].records :
              id # Id[r] => mem'[c].records[id] = mem[c].records[id]
  <1>1. RegistryOK(mem[c]) /\ mem'[c].records = Inserted(mem[c].records, r)
    BY AddedType DEF TypeOK
  <1>2. QED
    BY <1>1, InsertedType

-----------------------------------------------------------------------------
(* Types.                                                                  *)

LEMMA TypeStep == TypeOK /\ [Next]_vars => TypeOK'
  <1> SUFFICES ASSUME TypeOK, [Next]_vars PROVE TypeOK'
    OBVIOUS
  <1>1. ASSUME NEW c \in Callers, NEW r \in Records, NEW stamp \in Stamps, Add(c, r, stamp)
        PROVE  TypeOK'
    <2>1. \A d \in Callers : RegistryOK(mem'[d])
      BY <1>1, AddedType DEF TypeOK
    <2>2. mem' \in [Callers -> Registries]
      BY <1>1, AddedType
    <2>3. QED
      BY <1>1, <2>1, <2>2 DEF Add, TypeOK, RegistryOK
  <1>2. ASSUME NEW c \in Callers, Load(c) PROVE TypeOK'
    <2>1. RegistryOK(file) /\ file.records \in RecordSets /\ file \in Registries
      BY <1>2, RegistryType DEF Load, TypeOK, RegistryOK
    <2>2. QED
      BY <1>2, <2>1 DEF Load, TypeOK, RegistryOK
  <1>3. ASSUME NEW c \in Callers, SaveBegin(c) PROVE TypeOK'
    BY <1>3 DEF SaveBegin, TypeOK, RegistryOK
  <1>4. ASSUME NEW c \in Callers, SaveReplace(c) PROVE TypeOK'
    <2>1. RegistryOK(mem[c]) /\ mem[c].records \in RecordSets
      BY RegistryType DEF TypeOK
    <2>2. QED
      BY <1>4, <2>1 DEF SaveReplace, TypeOK, RegistryOK
  <1>5. ASSUME NEW c \in Callers, SaveFails(c) PROVE TypeOK'
    BY <1>5 DEF SaveFails, TypeOK, RegistryOK
  <1>6. ASSUME NEW c \in Callers, Crash(c) PROVE TypeOK'
    <2>1. RegistryOK(Empty) /\ Empty \in Registries
      BY EmptyType DEF RegistryOK
    <2>2. QED
      BY <1>6, <2>1 DEF Crash, TypeOK, RegistryOK
  <1>7. CASE UNCHANGED vars
    BY <1>7 DEF vars, TypeOK, RegistryOK
  <1>8. QED
    BY <1>1, <1>2, <1>3, <1>4, <1>5, <1>6, <1>7 DEF Next

(* Whatever is added, loaded or saved, and wherever callers crash, every   *)
(* registry stays one whose records are filed under their own ids.         *)
THEOREM TypeCorrect == Spec => []TypeOK
  <1>1. Init => TypeOK
    BY EmptyType DEF Init, TypeOK, RegistryOK
  <1>2. QED
    BY <1>1, TypeStep, PTL DEF Spec

-----------------------------------------------------------------------------
(* The file.  Between SaveBegin and the end of save() nobody else replaces *)
(* the file, so what was compared under the lock still holds when it is    *)
(* replaced: without this the properties below are not inductive.          *)

SaverInv ==
  \A c \in Callers : lock = c /\ file # None =>
    root[c] = file.records /\ Extends(file, mem[c])

FileInv == TypeOK /\ SaverInv /\ NothingLost

(* One registry keeps every record of another, or of a set of records.     *)
Keeps(records, reg) ==
  \A id \in DOMAIN records : Holds(reg, id) /\ reg.records[id] = records[id]

LEMMA ExtendsItself == ASSUME NEW reg, RegistryOK(reg) PROVE Extends(reg, reg)
  <1>1. Len(reg.journal) \in Nat
    BY RegistryType DEF Journals
  <1>2. QED
    BY <1>1 DEF Extends, Holds

(* Every step leaves the file alone or replaces it, under the lock, by a   *)
(* registry that extends it.                                               *)
LEMMA FileStep ==
  ASSUME TypeOK, SaverInv, [Next]_vars
  PROVE  \/ file' = file
         \/ \E c \in Callers : /\ lock = c
                               /\ file' = mem[c] /\ file' # None
                               /\ file # None => /\ root[c] = file.records
                                                 /\ Extends(file, file')
  <1>1. ASSUME NEW c \in Callers, lock = c, file' = mem[c]
        PROVE  /\ file' # None
               /\ file # None => root[c] = file.records /\ Extends(file, file')
    BY <1>1, RegistryType DEF SaverInv, TypeOK
  <1>2. ASSUME NEW c \in Callers, SaveReplace(c) \/ SaveFails(c)
        PROVE  file' = file \/ (lock = c /\ file' = mem[c])
    BY <1>2 DEF SaveReplace, SaveFails
  <1>3. CASE \E c \in Callers : SaveReplace(c) \/ SaveFails(c)
    BY <1>1, <1>2, <1>3
  <1>4. CASE ~\E c \in Callers : SaveReplace(c) \/ SaveFails(c)
    BY <1>4 DEF Next, vars, Add, Load, SaveBegin, Crash
  <1>5. QED
    BY <1>3, <1>4

LEMMA SaverStep == ASSUME TypeOK, SaverInv, [Next]_vars PROVE SaverInv'
  <1> USE DEF SaverInv
  <1>1. ASSUME NEW c \in Callers, NEW r \in Records, NEW stamp \in Stamps, Add(c, r, stamp)
        PROVE  SaverInv'
    <2>1. \A d \in Callers : lock = d => mem'[d] = mem[d]
      BY <1>1 DEF Add, TypeOK
    <2>2. QED
      BY <1>1, <2>1 DEF Add, Extends, Holds
  <1>2. ASSUME NEW c \in Callers, Load(c) PROVE SaverInv'
    <2>1. \A d \in Callers : lock = d => mem'[d] = mem[d] /\ root'[d] = root[d]
      BY <1>2 DEF Load, TypeOK
    <2>2. QED
      BY <1>2, <2>1 DEF Load, Extends, Holds
  <1>3. ASSUME NEW c \in Callers, SaveBegin(c) PROVE SaverInv'
    <2>1. file # None => root[c] = file.records /\ Extends(file, mem[c])
      BY <1>3, RegistryType DEF SaveBegin, MaySave, TypeOK
    <2>2. QED
      BY <1>3, <2>1 DEF SaveBegin, Extends, Holds
  <1>4. ASSUME NEW c \in Callers, SaveReplace(c) PROVE SaverInv'
    BY <1>4, ConstantsAssumption DEF SaveReplace
  <1>5. ASSUME NEW c \in Callers, SaveFails(c) PROVE SaverInv'
    BY <1>5, ConstantsAssumption DEF SaveFails
  <1>6. ASSUME NEW c \in Callers, Crash(c) PROVE SaverInv'
    <2>1. \A d \in Callers : lock' = d => lock = d /\ mem'[d] = mem[d] /\ root'[d] = root[d]
      BY <1>6, ConstantsAssumption DEF Crash, TypeOK
    <2>2. QED
      BY <1>6, <2>1 DEF Crash, Extends, Holds
  <1>7. CASE UNCHANGED vars
    BY <1>7 DEF vars, Extends, Holds
  <1>8. QED
    BY <1>1, <1>2, <1>3, <1>4, <1>5, <1>6, <1>7 DEF Next

LEMMA NothingLostStep ==
  ASSUME TypeOK, SaverInv, NothingLost, [Next]_vars PROVE NothingLost'
  <1>1. ASSUME NEW c \in Callers, root[c] # None
        PROVE  file' # None /\ Keeps(root[c], file')
    <2>1. file # None /\ Keeps(root[c], file)
      BY <1>1 DEF NothingLost, Keeps
    <2>2. CASE file' = file
      BY <2>1, <2>2 DEF Keeps, Holds
    <2>3. CASE file' # None /\ Extends(file, file')
      BY <2>1, <2>3 DEF Extends, Keeps, Holds
    <2>4. QED
      BY <2>1, <2>2, <2>3, FileStep
  <1>2. ASSUME NEW c \in Callers
        PROVE  \/ root'[c] \in {root[c], None}
               \/ file' # None /\ root'[c] = file'.records
    BY <1>2, RegistryType DEF Next, vars, Add, Load, SaveBegin, SaveReplace, SaveFails, Crash, TypeOK
  <1>3. ASSUME NEW c \in Callers, root'[c] # None
        PROVE  file' # None /\ Keeps(root'[c], file')
    BY <1>1, <1>2, <1>3 DEF Keeps, Holds
  <1>4. QED
    BY <1>3 DEF NothingLost, Keeps, Holds

LEMMA FileInvariant == Spec => []FileInv
  <1>1. Init => FileInv
    BY EmptyType, ConstantsAssumption DEF Init, FileInv, TypeOK, RegistryOK, SaverInv, NothingLost
  <1>2. FileInv /\ [Next]_vars => FileInv'
    BY TypeStep, SaverStep, NothingLostStep DEF FileInv
  <1>3. QED
    BY <1>1, <1>2, PTL DEF Spec

(* No caller's loaded or saved records are ever lost from the file, however *)
(* many callers save, fail and die.                                        *)
THEOREM NothingEverLost == Spec => []NothingLost
  BY FileInvariant, PTL DEF FileInv

(* The file only grows.                                                    *)
THEOREM FileOnlyGrows == Spec => FileGrows
  <1>1. FileInv /\ [Next]_vars => [file # None => file' # None /\ Extends(file, file')]_vars
    <2> SUFFICES ASSUME FileInv, [Next]_vars, file # None
                 PROVE  file' # None /\ Extends(file, file')
      OBVIOUS
    <2>1. Extends(file, file)
      BY ExtendsItself DEF FileInv, TypeOK
    <2>2. CASE file' = file
      BY <2>1, <2>2 DEF Extends, Holds
    <2>3. CASE file' # file
      BY <2>3, FileStep DEF FileInv
    <2>4. QED
      BY <2>2, <2>3
  <1>2. QED
    BY <1>1, FileInvariant, PTL DEF Spec, FileGrows

(* Only callers that knew the file's records replace it.                   *)
THEOREM SavesAlwaysUpToDate == Spec => SavesUpToDate
  <1>1. FileInv /\ [Next]_vars =>
          [file # None /\ file' # file => \E c \in Callers : root[c] = file.records]_vars
    BY FileStep DEF FileInv
  <1>2. QED
    BY <1>1, FileInvariant, PTL DEF Spec, SavesUpToDate

-----------------------------------------------------------------------------
(* One registry at a time.                                                 *)

Closed(reg) ==
  \A id \in DOMAIN reg.records : \A named \in Named(reg.records[id]) : Holds(reg, named)

(* Every registry after a step, in memory or on disk, is one there was     *)
(* before it, an empty one, or one with one record more.                   *)
LEMMA RegistriesStep ==
  ASSUME TypeOK, [Next]_vars
  PROVE  /\ file' = file \/ \E c \in Callers : file' = mem[c]
         /\ \A c \in Callers :
              \/ mem'[c] = mem[c]
              \/ mem'[c] = Empty
              \/ file # None /\ JournalSound(file) /\ mem'[c] = file
              \/ \E r \in Records, stamp \in Stamps : Add(c, r, stamp)
  <1>1. ASSUME NEW c \in Callers, NEW r \in Records, NEW stamp \in Stamps, Add(c, r, stamp)
        PROVE  file' = file /\ \A d \in Callers : d # c => mem'[d] = mem[d]
    BY <1>1, AddedType DEF Add
  <1>2. ASSUME NEW c \in Callers, Load(c)
        PROVE  /\ file' = file
               /\ \A d \in Callers : d # c => mem'[d] = mem[d]
               /\ file # None /\ JournalSound(file) /\ mem'[c] \in {mem[c], file}
    BY <1>2 DEF Load, Loadable, TypeOK
  <1>3. ASSUME NEW c \in Callers, SaveBegin(c)
        PROVE  file' = file /\ mem' = mem
    BY <1>3 DEF SaveBegin
  <1>4. ASSUME NEW c \in Callers, SaveReplace(c) \/ SaveFails(c)
        PROVE  file' \in {file, mem[c]} /\ mem' = mem
    BY <1>4 DEF SaveReplace, SaveFails
  <1>5. ASSUME NEW c \in Callers, Crash(c)
        PROVE  /\ file' = file
               /\ \A d \in Callers : d # c => mem'[d] = mem[d]
               /\ mem'[c] = Empty
    BY <1>5 DEF Crash, TypeOK
  <1>6. CASE UNCHANGED vars
    BY <1>6 DEF vars
  <1>7. QED
    BY <1>1, <1>2, <1>3, <1>4, <1>5, <1>6 DEF Next

LEMMA AddedClosed ==
  ASSUME TypeOK, NEW c \in Callers, NEW r \in Records, NEW stamp \in Stamps,
         Add(c, r, stamp), Closed(mem[c])
  PROVE  Closed(mem'[c])
  <1>1. /\ DOMAIN mem'[c].records = DOMAIN mem[c].records \cup {Id[r]}
        /\ mem'[c].records[Id[r]] = r
        /\ \A id \in DOMAIN mem[c].records :
             id # Id[r] => mem'[c].records[id] = mem[c].records[id]
    BY AddedRecords
  <1>2. \A id \in Named(r) : Holds(mem[c], id)
    BY DEF Add, MayAdd
  <1>3. QED
    BY <1>1, <1>2 DEF Closed, Holds

ClosedInv == /\ \A c \in Callers : Closed(mem[c])
             /\ file # None => Closed(file)

LEMMA ClosedStep == ASSUME TypeOK, ClosedInv, [Next]_vars PROVE ClosedInv'
  <1>1. Closed(Empty)
    BY EmptyType DEF Closed
  <1>2. ASSUME NEW c \in Callers PROVE Closed(mem'[c])
    <2>1. CASE mem'[c] \in {mem[c], Empty}
      BY <1>1, <2>1 DEF ClosedInv
    <2>2. CASE file # None /\ mem'[c] = file
      BY <2>2 DEF ClosedInv
    <2>3. CASE \E r \in Records, stamp \in Stamps : Add(c, r, stamp)
      BY <2>3, AddedClosed DEF ClosedInv
    <2>4. QED
      BY <2>1, <2>2, <2>3, RegistriesStep
  <1>3. file' # None => Closed(file')
    BY RegistriesStep DEF ClosedInv
  <1>4. QED
    BY <1>2, <1>3 DEF ClosedInv, Closed, Holds

(* No registry ever names a record it does not hold.                       *)
THEOREM ReferencesAlwaysResolve == Spec => []ReferencesResolve
  <1>1. Init => ClosedInv
    BY EmptyType DEF Init, ClosedInv, Closed
  <1>2. TypeOK /\ ClosedInv /\ [Next]_vars => ClosedInv'
    BY ClosedStep
  <1>3. ClosedInv => ReferencesResolve
    BY DEF ClosedInv, Closed, ReferencesResolve
  <1>4. QED
    BY <1>1, <1>2, <1>3, TypeCorrect, PTL DEF Spec

-----------------------------------------------------------------------------
(* The journal of a registry names records it holds, each once.            *)

Once(reg) ==
  /\ \A i \in DOMAIN reg.journal : Holds(reg, reg.journal[i].id)
  /\ \A i, k \in DOMAIN reg.journal : reg.journal[i].id = reg.journal[k].id => i = k

OnceInv == \A c \in Callers : Once(mem[c])

LEMMA AddedOnce ==
  ASSUME TypeOK, NEW c \in Callers, NEW r \in Records, NEW stamp \in Stamps,
         Add(c, r, stamp), Once(mem[c])
  PROVE  Once(mem'[c])
  <1> DEFINE event == [id |-> Id[r], stamp |-> stamp]
             before == mem[c].journal
             after == mem'[c].journal
  <1>1. /\ DOMAIN mem'[c].records = DOMAIN mem[c].records \cup {Id[r]}
        /\ ~Holds(mem[c], Id[r])
    BY AddedRecords DEF Add
  <1>2. after = IF stamp = "blank" THEN before ELSE Append(before, event)
    BY AddedType
  <1>3. before \in Journals /\ event \in [id: Ids, stamp: Stamps]
    BY RegistryType DEF TypeOK, Ids
  <1>4. CASE after = before
    BY <1>1, <1>4 DEF Once, Holds
  <1>5. CASE after = Append(before, event)
    <2>1. /\ DOMAIN after = 1..(Len(before) + 1)
          /\ DOMAIN before = 1..Len(before) /\ Len(before) \in Nat
          /\ \A i \in DOMAIN before : after[i] = before[i]
          /\ after[Len(before) + 1].id = Id[r]
      <3>1. after \in Journals /\ Len(after) = Len(before) + 1
        BY <1>3, <1>5, AppendType
      <3>2. DOMAIN after = 1..Len(after)
        BY <3>1, <1>3, AppendType
      <3>3. /\ DOMAIN before = 1..Len(before) /\ Len(before) \in Nat
            /\ \A i \in 1..Len(before) : Append(before, event)[i] = before[i]
            /\ Append(before, event)[Len(before) + 1] = event
        BY <1>3, AppendType
      <3>4. event.id = Id[r]
        OBVIOUS
      <3> HIDE DEF event, before, after
      <3>5. QED
        BY <1>5, <3>1, <3>2, <3>3, <3>4
    <2> HIDE DEF event, before, after
    <2>2. \A i \in DOMAIN before : Holds(mem[c], before[i].id)
      BY DEF Once, before
    <2>3. \A i, k \in DOMAIN before : before[i].id = before[k].id => i = k
      BY DEF Once, before
    <2>4. \A i \in DOMAIN after : Holds(mem'[c], after[i].id)
      BY <1>1, <2>1, <2>2 DEF Holds
    <2>5. \A i, k \in DOMAIN after : after[i].id = after[k].id => i = k
      BY <1>1, <2>1, <2>2, <2>3
    <2>6. QED
      BY <2>4, <2>5 DEF Once, after
  <1>6. QED
    BY <1>2, <1>4, <1>5

LEMMA OnceStep == ASSUME TypeOK, OnceInv, [Next]_vars PROVE OnceInv'
  <1>1. Once(Empty)
    BY EmptyType DEF Once
  <1>2. ASSUME file # None, JournalSound(file) PROVE Once(file)
    BY <1>2 DEF JournalSound, Once, Holds
  <1>3. ASSUME NEW c \in Callers PROVE Once(mem'[c])
    <2>1. CASE mem'[c] \in {mem[c], Empty}
      BY <1>1, <2>1 DEF OnceInv
    <2>2. CASE file # None /\ JournalSound(file) /\ mem'[c] = file
      BY <1>2, <2>2
    <2>3. CASE \E r \in Records, stamp \in Stamps : Add(c, r, stamp)
      BY <2>3, AddedOnce DEF OnceInv
    <2>4. QED
      BY <2>1, <2>2, <2>3, RegistriesStep
  <1>4. QED
    BY <1>3 DEF OnceInv, Once, Holds

(* No record is ever journalled twice, in whatever order registries are    *)
(* loaded, extended and saved.                                             *)
THEOREM AlwaysJournalledOnce == Spec => []JournalledOnce
  <1>1. Init => OnceInv
    BY EmptyType DEF Init, OnceInv, Once
  <1>2. TypeOK /\ OnceInv /\ [Next]_vars => OnceInv'
    BY OnceStep
  <1>3. OnceInv => JournalledOnce
    BY DEF OnceInv, Once, JournalledOnce
  <1>4. QED
    BY <1>1, <1>2, <1>3, TypeCorrect, PTL DEF Spec

-----------------------------------------------------------------------------
(* When files can be read back.                                            *)

Stamped(reg) == \A i \in DOMAIN reg.journal : reg.journal[i].stamp = "ok"

Covered(reg) == DOMAIN reg.records \subseteq {reg.journal[i].id : i \in DOMAIN reg.journal}

Readable(reg) == Closed(reg) /\ Once(reg) /\ Stamped(reg) /\ Covered(reg)

ReadableInv == /\ \A c \in Callers : Readable(mem[c])
               /\ file # None => Readable(file)

LEMMA AddedReadable ==
  ASSUME TypeOK, Stamps = {"ok"}, NEW c \in Callers, NEW r \in Records,
         NEW stamp \in Stamps, Add(c, r, stamp), Readable(mem[c])
  PROVE  Readable(mem'[c])
  <1> DEFINE event == [id |-> Id[r], stamp |-> stamp]
             before == mem[c].journal
             after == mem'[c].journal
  <1>1. Closed(mem'[c]) /\ Once(mem'[c])
    BY AddedClosed, AddedOnce DEF Readable
  <1>2. DOMAIN mem'[c].records = DOMAIN mem[c].records \cup {Id[r]}
    BY AddedRecords
  <1>3. after = Append(before, event)
    BY AddedType
  <1>4. before \in Journals /\ event \in [id: Ids, stamp: Stamps]
    BY RegistryType DEF TypeOK, Ids
  <1>5. after \in Journals /\ Len(after) = Len(before) + 1
    BY <1>3, <1>4, AppendType
  <1>6. DOMAIN after = 1..Len(after)
    BY <1>4, <1>5, AppendType
  <1>7. /\ DOMAIN before = 1..Len(before) /\ Len(before) \in Nat
        /\ \A i \in 1..Len(before) : Append(before, event)[i] = before[i]
        /\ Append(before, event)[Len(before) + 1] = event
    BY <1>4, AppendType
  <1>8. event.id = Id[r] /\ event.stamp = "ok"
    OBVIOUS
  <1>9. Stamped(mem[c]) /\ Covered(mem[c])
    BY DEF Readable
  <1>10. \A i \in DOMAIN before : before[i].stamp = "ok"
    BY <1>9 DEF Stamped
  <1>11. \A id \in DOMAIN mem[c].records : \E i \in DOMAIN before : before[i].id = id
    BY <1>9 DEF Covered
  <1> HIDE DEF event, before, after
  <1>12. \A i \in DOMAIN after : after[i].stamp = "ok"
    BY <1>3, <1>5, <1>6, <1>7, <1>8, <1>10
  <1>13. \A id \in DOMAIN mem'[c].records : \E i \in DOMAIN after : after[i].id = id
    BY <1>2, <1>3, <1>5, <1>6, <1>7, <1>8, <1>11
  <1>14. Stamped(mem'[c]) /\ Covered(mem'[c])
    BY <1>12, <1>13 DEF Stamped, Covered, after
  <1>15. QED
    BY <1>1, <1>14 DEF Readable

LEMMA ReadableStep ==
  ASSUME TypeOK, Stamps = {"ok"}, ReadableInv, [Next]_vars PROVE ReadableInv'
  <1>1. Readable(Empty)
    BY EmptyType DEF Readable, Closed, Once, Stamped, Covered
  <1>2. ASSUME NEW c \in Callers PROVE Readable(mem'[c])
    <2>1. CASE mem'[c] \in {mem[c], Empty}
      BY <1>1, <2>1 DEF ReadableInv
    <2>2. CASE file # None /\ mem'[c] = file
      BY <2>2 DEF ReadableInv
    <2>3. CASE \E r \in Records, stamp \in Stamps : Add(c, r, stamp)
      BY <2>3, AddedReadable DEF ReadableInv
    <2>4. QED
      BY <2>1, <2>2, <2>3, RegistriesStep
  <1>3. file' # None => Readable(file')
    BY RegistriesStep DEF ReadableInv
  <1>4. QED
    BY <1>2, <1>3 DEF ReadableInv, Readable, Closed, Once, Stamped, Covered, Holds

(* Files can always be loaded again provided that no actor is empty and no *)
(* time malformed, and that every record follows the records it names in   *)
(* the order of the document.  Content-addressed claim ids give no such    *)
(* order to claims that name claims.                                       *)
THEOREM LoadableIfOrdered ==
  ASSUME Stamps = {"ok"},
         \A r \in Records : \A id \in Named(r) : Precedes(id, Id[r])
  PROVE  Spec => []FileLoadable
  <1>1. Init => ReadableInv
    BY EmptyType DEF Init, ReadableInv, Readable, Closed, Once, Stamped, Covered
  <1>2. TypeOK /\ ReadableInv /\ [Next]_vars => ReadableInv'
    BY ReadableStep
  <1>3. ASSUME TypeOK, ReadableInv, file # None PROVE Loadable(file)
    <2>1. RegistryOK(file) /\ Readable(file)
      BY <1>3 DEF TypeOK, ReadableInv
    <2>2. \A id \in DOMAIN file.records :
            file.records[id] \in Records /\ Id[file.records[id]] = id
      BY <2>1, RegistryType DEF RegistryOK
    <2>3. Resolves(file)
      BY <2>1, <2>2 DEF Readable, Closed, Resolves
    <2>4. JournalSound(file)
      BY <2>1 DEF Readable, Once, Stamped, Covered, JournalSound, Holds
    <2>5. QED
      BY <2>3, <2>4 DEF Loadable
  <1>4. TypeOK /\ ReadableInv => FileLoadable
    BY <1>3 DEF FileLoadable
  <1>5. QED
    BY <1>1, <1>2, <1>4, TypeCorrect, PTL DEF Spec
=============================================================================
