---------------------------- MODULE CatalogStore ----------------------------
(***************************************************************************)
(* The static catalog and its persistence (ed2ksrv/catalog.go, storage.go, *)
(* db_store.go, and UpsertFile, DeleteFile, PersistCatalog of server.go).  *)
(*                                                                         *)
(* The catalog in memory is guarded by Catalog.mu, the store by nothing:   *)
(* every change clones the whole catalog and hands the clone to the store  *)
(* after the lock is released.  The JSON store truncates its file and then *)
(* writes it; the SQL stores replace the table in one transaction.         *)
(***************************************************************************)
EXTENDS Integers

CONSTANTS
    Admins,      \* goroutines that serve admin HTTP requests
    Hashes,      \* the hashes of the files in the catalog
    Records,     \* the contents a record may have
    NoRecord,    \* the catalog has no record for this hash
    Open,        \* no acknowledged value (a history value)
    Backends,    \* the storage backends configured, of {"json", "sql"}
    MaxChanges,  \* bound: changes of the catalog in a behaviour
    MaxFaults    \* bound: crashes and failed saves in a behaviour

ASSUME NonemptyAssumption == Admins # {} /\ Hashes # {}
ASSUME RecordAssumption == NoRecord \notin Records /\ Open \notin Records \cup {NoRecord}
ASSUME BackendAssumption == Backends \subseteq {"json", "sql"}
ASSUME BoundAssumption == MaxChanges \in Nat /\ MaxFaults \in Nat

VARIABLES
    backend,   \* Config.StorageBackend
    running,   \* is the server process up?
    byHash,    \* Catalog.byHash and Catalog.files
    stored,    \* what the file or table holds
    file,      \* is the JSON file whole, empty (truncated) or garbled?
    pc,        \* where the goroutine of a request is
    subject,   \* local: the hash the request changes
    clone,     \* local: the clone of the catalog being saved
    promise,   \* history: hash -> the value a successful answer confirmed, Open
               \* since the last change that is not (yet) confirmed
    author,    \* history: hash -> who changed it last in memory
    changes,   \* counts changes against MaxChanges
    faults     \* counts faults against MaxFaults

store == <<stored, file>>
history == <<promise, author>>
vars == <<backend, running, byHash, store, pc, subject, clone, history,
          changes, faults>>

Catalogs == [Hashes -> Records \cup {NoRecord}]
Empty == [h \in Hashes |-> NoRecord]

Init ==
    /\ backend \in Backends
    /\ running = TRUE
    /\ byHash = Empty
    /\ stored = Empty
    /\ file = "whole"
    /\ pc = [a \in Admins |-> "idle"]
    /\ subject = [a \in Admins |-> CHOOSE h \in Hashes : TRUE]
    /\ clone = [a \in Admins |-> Empty]
    /\ promise = [h \in Hashes |-> Open]
    /\ author = [h \in Hashes |-> CHOOSE a \in Admins : TRUE]
    /\ changes = 0
    /\ faults = 0

----------------------------------------------------------------------------
(* Requests.                                                               *)

\* Catalog.Upsert or Catalog.Delete under Catalog.mu, as seen by hash h.
Change(a, h, value) ==
    /\ running
    /\ pc[a] = "idle"
    /\ changes < MaxChanges
    /\ changes' = changes + 1
    /\ byHash' = [byHash EXCEPT ![h] = value]
    /\ promise' = [promise EXCEPT ![h] = Open]
    /\ author' = [author EXCEPT ![h] = a]
    /\ subject' = [subject EXCEPT ![a] = h]
    /\ pc' = [pc EXCEPT ![a] = "changed"]
    /\ UNCHANGED <<backend, running, store, clone, faults>>

\* UpsertFile: replace the record or append it.
Upsert(a) == \E h \in Hashes, r \in Records : Change(a, h, r)

\* DeleteFile: a hash that is not there is answered "not found" and nothing is
\* saved.  A batch delete is a sequence of these.
Delete(a) ==
    \E h \in Hashes :
        /\ byHash[h] # NoRecord
        /\ Change(a, h, NoRecord)

\* (A mutant: only the changed record is brought up to date in what was saved last.)
CloneFilesMutant(a) ==
    /\ pc[a] = "changed"
    /\ clone' = [clone EXCEPT ![a] = [stored EXCEPT ![subject[a]] = byHash[subject[a]]]]
    /\ pc' = [pc EXCEPT ![a] = "save"]
    /\ UNCHANGED <<backend, running, byHash, store, subject, history, changes,
                   faults>>

\* Catalog.Save, after a change: clone the files under Catalog.mu.RLock.
CloneFiles(a) ==
    /\ pc[a] = "changed"
    /\ clone' = [clone EXCEPT ![a] = byHash]
    /\ pc' = [pc EXCEPT ![a] = "save"]
    /\ UNCHANGED <<backend, running, byHash, store, subject, history, changes,
                   faults>>

\* PersistCatalog (POST /api/persist): save without a change.
Persist(a) ==
    /\ running
    /\ pc[a] = "idle"
    /\ clone' = [clone EXCEPT ![a] = byHash]
    /\ pc' = [pc EXCEPT ![a] = "flush"]
    /\ UNCHANGED <<backend, running, byHash, store, subject, history, changes,
                   faults>>

----------------------------------------------------------------------------
(* The stores.                                                             *)

Saving(a) == pc[a] \in {"save", "flush"}
Writing(a) == pc[a] \in {"saving", "flushing"}

\* sqlCatalogStore.Save: DELETE and INSERTs in one transaction.
SaveSQL(a) ==
    /\ backend = "sql"
    /\ Saving(a)
    /\ stored' = clone[a]
    /\ pc' = [pc EXCEPT ![a] = IF @ = "save" THEN "confirm" ELSE "idle"]
    /\ UNCHANGED <<backend, running, byHash, file, subject, clone, history,
                   changes, faults>>

\* jsonCatalogStore.Save: os.WriteFile opens the file with O_TRUNC ...
Truncate(a) ==
    /\ backend = "json"
    /\ Saving(a)
    /\ file' = "empty"
    /\ pc' = [pc EXCEPT ![a] = IF @ = "save" THEN "saving" ELSE "flushing"]
    /\ UNCHANGED <<backend, running, byHash, stored, subject, clone, history,
                   changes, faults>>

\* ... and writes from offset 0.  Over another writer's longer text the result
\* is garbled.
WriteFile(a) ==
    /\ Writing(a)
    /\ stored' = clone[a]
    /\ file' \in IF file = "empty" \/ (file = "whole" /\ stored = clone[a])
                 THEN {"whole"} ELSE {"whole", "garbled"}
    /\ pc' = [pc EXCEPT ![a] = IF @ = "saving" THEN "confirm" ELSE "idle"]
    /\ UNCHANGED <<backend, running, byHash, subject, clone, history, changes,
                   faults>>

\* (A mutant: the error of the store is dropped.)
SaveFailsMutant(a) ==
    /\ Saving(a) \/ Writing(a)
    /\ faults < MaxFaults
    /\ faults' = faults + 1
    /\ file' = IF Writing(a) THEN "garbled" ELSE file
    /\ pc' = [pc EXCEPT ![a] = "confirm"]
    /\ UNCHANGED <<backend, running, byHash, stored, subject, clone, history,
                   changes>>

\* A save fails: the transaction is rolled back, or the write breaks off in the
\* truncated file.  The request is answered with an error; the change stays in
\* memory.
SaveFails(a) ==
    /\ Saving(a) \/ Writing(a)
    /\ faults < MaxFaults
    /\ faults' = faults + 1
    /\ file' = IF Writing(a) THEN "garbled" ELSE file
    /\ pc' = [pc EXCEPT ![a] = "idle"]
    /\ UNCHANGED <<backend, running, byHash, stored, subject, clone, history,
                   changes>>

\* The request is answered with success: 201 after an upsert, 200 after a
\* delete.  The answer confirms the value unless the hash was changed since.
Confirm(a) ==
    /\ pc[a] = "confirm"
    /\ promise' = IF author[subject[a]] = a
                  THEN [promise EXCEPT ![subject[a]] = byHash[subject[a]]]
                  ELSE promise
    /\ pc' = [pc EXCEPT ![a] = "idle"]
    /\ UNCHANGED <<backend, running, byHash, store, subject, clone, author,
                   changes, faults>>

----------------------------------------------------------------------------
(* The process.                                                            *)

\* The process dies: memory and the requests under way are lost.
Crash ==
    /\ running
    /\ faults < MaxFaults
    /\ faults' = faults + 1
    /\ running' = FALSE
    /\ byHash' = Empty
    /\ pc' = [a \in Admins |-> "idle"]
    /\ UNCHANGED <<backend, store, subject, clone, history, changes>>

\* (A mutant: the loaded records do not reach the catalog.)
RestartMutant ==
    /\ ~running
    /\ file = "whole"
    /\ running' = TRUE
    /\ byHash' = Empty
    /\ UNCHANGED <<backend, store, pc, subject, clone, history, changes, faults>>

\* LoadCatalogFromConfig and ReplaceAll.  A JSON file that does not parse is an
\* error, and the server does not start.
Restart ==
    /\ ~running
    /\ file = "whole"
    /\ running' = TRUE
    /\ byHash' = stored
    /\ UNCHANGED <<backend, store, pc, subject, clone, history, changes, faults>>

Next ==
    \/ \E a \in Admins :
          \/ Upsert(a) \/ Delete(a) \/ CloneFiles(a) \/ Persist(a)
          \/ SaveSQL(a) \/ Truncate(a) \/ WriteFile(a) \/ SaveFails(a)
          \/ Confirm(a)
    \/ Crash \/ Restart

Spec == Init /\ [][Next]_vars

----------------------------------------------------------------------------
(* Properties.                                                             *)

\* Every variable has its type.
TypeOK ==
    /\ backend \in {"json", "sql"}
    /\ running \in BOOLEAN
    /\ byHash \in Catalogs
    /\ stored \in Catalogs
    /\ file \in {"whole", "empty", "garbled"}
    /\ pc \in [Admins -> {"idle", "changed", "save", "flush", "saving",
                          "flushing", "confirm"}]
    /\ subject \in [Admins -> Hashes]
    /\ clone \in [Admins -> Catalogs]
    /\ promise \in [Hashes -> Records \cup {NoRecord, Open}]
    /\ author \in [Hashes -> Admins]
    /\ changes \in 0..MaxChanges
    /\ faults \in 0..MaxFaults

\* "UpsertFile registers or replaces a shared file and persists it to disk"
\* (server.go:442): what a successful answer confirmed is what a store that can
\* be read holds, until the record is changed again, across failed saves of
\* other records and across crashes.
ConfirmedIsStored ==
    file = "whole" =>
        \A h \in Hashes : promise[h] # Open => stored[h] = promise[h]

\* A restart brings back every confirmed record (LoadCatalogFromConfig).
RestartRestores ==
    [][~running /\ running' =>
         \A h \in Hashes : promise[h] # Open => byHash'[h] = promise[h]]_vars

\* A request that is answered with success repairs what failed saves left behind:
\* whether the JSON file was emptied or cut short, or a change stayed in memory
\* only, the store can be read and holds the whole catalog (Catalog.Save).
SuccessRepairs ==
    \A a \in Admins : pc[a] = "confirm" => file = "whole" /\ stored = byHash
=============================================================================
