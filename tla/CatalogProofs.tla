--------------------------- MODULE CatalogProofs ----------------------------
(* Theorems about CatalogStore, for any catalog, any number of changes and  *)
(* any number of faults, where admin requests do not overlap.              *)
EXTENDS CatalogStore, TLAPS

\* One admin request at a time.
OneAdmin == \A a, b \in Admins : a = b

\* A request under way keeps the process up, and saves what is in memory.
RequestsCurrent ==
    \A a \in Admins :
        /\ pc[a] # "idle" => running
        /\ Saving(a) \/ Writing(a) => clone[a] = byHash
        /\ pc[a] = "confirm" => stored = byHash /\ file = "whole"

\* Only a write of the JSON store leaves a file that cannot be read.
FileBroken ==
    /\ backend = "sql" => file = "whole"
    /\ \A a \in Admins : Writing(a) => file = "empty"

\* What was confirmed is in memory while the process is up.
ConfirmedInMemory ==
    running => \A h \in Hashes : promise[h] # Open => byHash[h] = promise[h]

StoreInv == TypeOK /\ RequestsCurrent /\ FileBroken /\ ConfirmedInMemory /\ ConfirmedIsStored

LEMMA InitStore == Init => StoreInv
<1> SUFFICES ASSUME Init PROVE StoreInv
  OBVIOUS
<1>1. TypeOK
  <2>1. Empty \in Catalogs
    BY DEF Empty, Catalogs
  <2>2. (CHOOSE h \in Hashes : TRUE) \in Hashes /\ (CHOOSE a \in Admins : TRUE) \in Admins
    BY NonemptyAssumption
  <2>3. 0 \in 0..MaxChanges /\ 0 \in 0..MaxFaults
    BY BoundAssumption
  <2> QED BY <2>1, <2>2, <2>3, BackendAssumption DEF Init, TypeOK
<1> QED
  BY <1>1 DEF Init, StoreInv, RequestsCurrent, FileBroken, ConfirmedInMemory,
              ConfirmedIsStored, Saving, Writing

LEMMA NextTypes == TypeOK /\ [Next]_vars => TypeOK'
<1> SUFFICES ASSUME TypeOK, [Next]_vars PROVE TypeOK'
  OBVIOUS
<1> USE DEF TypeOK, store, history
<1>1. ASSUME NEW a \in Admins, NEW h \in Hashes, NEW v \in Records \cup {NoRecord},
             Change(a, h, v)
      PROVE  TypeOK'
  <2>1. changes' \in 0..MaxChanges
    BY <1>1, BoundAssumption DEF Change
  <2>2. byHash' \in Catalogs
    BY <1>1 DEF Change, Catalogs
  <2> QED BY <1>1, <2>1, <2>2 DEF Change
<1>2. ASSUME NEW a \in Admins, Upsert(a) \/ Delete(a) PROVE TypeOK'
  <2>1. \E h \in Hashes, v \in Records \cup {NoRecord} : Change(a, h, v)
    BY <1>2 DEF Upsert, Delete
  <2> QED BY <1>1, <2>1
<1>3. ASSUME NEW a \in Admins, CloneFiles(a) \/ Persist(a) PROVE TypeOK'
  BY <1>3 DEF CloneFiles, Persist
<1>4. ASSUME NEW a \in Admins, SaveSQL(a) \/ Truncate(a) PROVE TypeOK'
  BY <1>4 DEF SaveSQL, Truncate
<1>5. ASSUME NEW a \in Admins, WriteFile(a) PROVE TypeOK'
  BY <1>5 DEF WriteFile
<1>6. ASSUME NEW a \in Admins, SaveFails(a) PROVE TypeOK'
  <2>1. faults' \in 0..MaxFaults
    BY <1>6, BoundAssumption DEF SaveFails
  <2> QED BY <1>6, <2>1 DEF SaveFails
<1>7. ASSUME NEW a \in Admins, Confirm(a) PROVE TypeOK'
  <2>1. byHash[subject[a]] \in Records \cup {NoRecord}
    BY DEF Catalogs
  <2> QED BY <1>7, <2>1 DEF Confirm
<1>8. CASE Crash
  <2>1. faults' \in 0..MaxFaults
    BY <1>8, BoundAssumption DEF Crash
  <2>2. Empty \in Catalogs
    BY DEF Empty, Catalogs
  <2> QED BY <1>8, <2>1, <2>2 DEF Crash
<1>9. CASE Restart
  BY <1>9 DEF Restart
<1>10. CASE UNCHANGED vars
  BY <1>10 DEF vars
<1> QED BY <1>2, <1>3, <1>4, <1>5, <1>6, <1>7, <1>8, <1>9, <1>10 DEF Next

LEMMA NextStore == ASSUME OneAdmin PROVE StoreInv /\ [Next]_vars => StoreInv'
<1> DEFINE Rest == RequestsCurrent /\ FileBroken /\ ConfirmedInMemory /\ ConfirmedIsStored
<1> SUFFICES ASSUME StoreInv, [Next]_vars PROVE Rest'
  BY NextTypes DEF StoreInv
<1> USE DEF StoreInv, TypeOK, RequestsCurrent, FileBroken, ConfirmedInMemory,
            ConfirmedIsStored, Saving, Writing, OneAdmin, store, history
<1>1. ASSUME NEW a \in Admins, NEW h \in Hashes, NEW v \in Records \cup {NoRecord},
             Change(a, h, v)
      PROVE  Rest'
  BY <1>1 DEF Change, Catalogs
<1>2. ASSUME NEW a \in Admins, Upsert(a) \/ Delete(a) PROVE Rest'
  <2>1. \E h \in Hashes, v \in Records \cup {NoRecord} : Change(a, h, v)
    BY <1>2 DEF Upsert, Delete
  <2> QED BY <1>1, <2>1
<1>3. ASSUME NEW a \in Admins, CloneFiles(a) \/ Persist(a) PROVE Rest'
  BY <1>3 DEF CloneFiles, Persist
<1>4. ASSUME NEW a \in Admins, SaveSQL(a) PROVE Rest'
  BY <1>4 DEF SaveSQL
<1>5. ASSUME NEW a \in Admins, Truncate(a) PROVE Rest'
  BY <1>5 DEF Truncate
<1>6. ASSUME NEW a \in Admins, WriteFile(a) PROVE Rest'
  <2>1. file' = "whole" /\ stored' = byHash /\ running
    BY <1>6 DEF WriteFile
  <2> QED BY <1>6, <2>1 DEF WriteFile
<1>7. ASSUME NEW a \in Admins, SaveFails(a) PROVE Rest'
  BY <1>7 DEF SaveFails
<1>8. ASSUME NEW a \in Admins, Confirm(a) PROVE Rest'
  BY <1>8 DEF Confirm
<1>9. CASE Crash
  BY <1>9 DEF Crash
<1>10. CASE Restart
  BY <1>10 DEF Restart
<1>11. CASE UNCHANGED vars
  BY <1>11 DEF vars
<1> QED BY <1>2, <1>3, <1>4, <1>5, <1>6, <1>7, <1>8, <1>9, <1>10, <1>11 DEF Next

\* When admin requests do not overlap, what a successful answer confirmed is in
\* the store, through any number of failed saves and crashes (UpsertFile,
\* DeleteFile, Catalog.Save).
THEOREM ConfirmedStaysStored == ASSUME OneAdmin PROVE Spec => []ConfirmedIsStored
<1>1. Spec => []StoreInv
  BY InitStore, NextStore, PTL DEF Spec
<1>2. StoreInv => ConfirmedIsStored
  BY DEF StoreInv
<1> QED BY <1>1, <1>2, PTL

\* ... and a restart brings it back (LoadCatalogFromConfig).
THEOREM RestartBringsBack == ASSUME OneAdmin PROVE Spec => RestartRestores
<1> DEFINE Restores ==
        ~running /\ running' =>
            \A h \in Hashes : promise[h] # Open => byHash'[h] = promise[h]
<1>1. ConfirmedIsStored /\ [Next]_vars => [Restores]_vars
  <2> SUFFICES ASSUME ConfirmedIsStored, [Next]_vars PROVE [Restores]_vars
    OBVIOUS
  <2>1. CASE Restart
    BY <2>1 DEF Restart, ConfirmedIsStored
  <2>2. CASE Crash
    BY <2>2 DEF Crash
  <2>3. ASSUME NEW a \in Admins,
               \/ Upsert(a) \/ Delete(a) \/ CloneFiles(a) \/ Persist(a) \/ SaveSQL(a)
               \/ Truncate(a) \/ WriteFile(a) \/ SaveFails(a) \/ Confirm(a)
        PROVE  UNCHANGED running
    BY <2>3 DEF Upsert, Delete, Change, CloneFiles, Persist, SaveSQL, Truncate,
                WriteFile, SaveFails, Confirm
  <2> QED BY <2>1, <2>2, <2>3 DEF Next
<1>2. Spec => [][Restores]_vars
  BY <1>1, ConfirmedStaysStored, PTL DEF Spec
<1> QED BY <1>2 DEF RestartRestores

\* When admin requests do not overlap, a request that is answered with success
\* leaves a store that can be read and holds the whole catalog, however many saves
\* before it broke off (Catalog.Save, os.WriteFile).
THEOREM SuccessAlwaysRepairs == ASSUME OneAdmin PROVE Spec => []SuccessRepairs
<1>1. Spec => []StoreInv
  BY InitStore, NextStore, PTL DEF Spec
<1>2. StoreInv => SuccessRepairs
  BY DEF StoreInv, RequestsCurrent, SuccessRepairs
<1> QED BY <1>1, <1>2, PTL
=============================================================================
