-------------------------- MODULE SampleStoreCache --------------------------
(***************************************************************************)
(* The entities that one process holds of a SQL sample store, while other  *)
(* processes add entities and results to it:                               *)
(* orchestrator/core/samplestore/sql.py (entities, refresh and the other   *)
(* readers that fill _entities).                                           *)
(*                                                                         *)
(* refresh() runs several queries, and other processes commit in between:  *)
(* each query is a step here.  The process itself does one thing at a      *)
(* time.  It only reads: what a process adds itself is in SampleStore.     *)
(* Invalid results, which no reader attaches, are left out.                *)
(***************************************************************************)
EXTENDS Integers

CONSTANTS
  EntityIds,
  OperationIds,
  ResultIds,     \* the results: each is inserted at most once
  MaxRows,       \* bound: the ids that rows are given
  Databases      \* those that the sample store may be in

ASSUME SampleStoreCacheAssumption ==
  /\ MaxRows \in Nat
  /\ Databases \subseteq {"MySQL", "SQLite"}

VARIABLES
  database,
  entityRows,    \* the entities table
  entityOf,      \* entityOf[r]: the entity of result r
  row,           \* row[r]: whether result r is in the table
  insertId,      \* insertId[r]: the id of its row, 0 as long as it had none
  linkRows,      \* which result belongs to which operation
  known,         \* the keys of _entities
  attached,      \* attached[e]: the results attached to e in _entities
  lastInsertId,  \* _last_insert_id
  fetched,       \* refresh: the results it has fetched and not yet attached
  refreshStage,  \* how far refresh is
  late           \* history: the results committed with an id that refresh() had
                 \* passed

table == <<database, entityRows, entityOf, row, insertId, linkRows>>
cache == <<known, attached>>
reader == <<known, attached, lastInsertId, fetched, refreshStage>>
cacheVars ==
  <<database, entityRows, entityOf, row, insertId, linkRows, known, attached,
    lastInsertId, fetched, refreshStage, late>>

\* An id is taken when the row is inserted, and visible after the commit.
Committed == {r \in ResultIds : row[r] = "committed"}
Rows == {r \in ResultIds : row[r] \in {"inserted", "committed"}}

CacheTypeOK ==
  /\ database \in Databases
  /\ entityRows \subseteq EntityIds
  /\ entityOf \in [ResultIds -> EntityIds]
  /\ row \in [ResultIds -> {"new", "inserted", "committed", "failed", "deleted"}]
  /\ insertId \in [ResultIds -> 0 .. MaxRows]
  /\ linkRows \subseteq ResultIds \X OperationIds
  /\ known \subseteq EntityIds
  /\ attached \in [EntityIds -> SUBSET ResultIds]
  /\ lastInsertId \in 0 .. MaxRows
  /\ fetched \subseteq ResultIds
  /\ refreshStage \in {"idle", "fetching", "attaching", "failed"}
  /\ late \subseteq ResultIds

CacheInit ==
  /\ database \in Databases
  /\ entityRows = {}
  /\ entityOf \in [ResultIds -> EntityIds]
  /\ row = [r \in ResultIds |-> "new"]
  /\ insertId = [r \in ResultIds |-> 0]
  /\ linkRows = {}
  /\ known = {}
  /\ attached = [e \in EntityIds |-> {}]
  /\ lastInsertId = 0
  /\ fetched = {}
  /\ refreshStage = "idle"
  /\ late = {}

-----------------------------------------------------------------------------
(* The other processes.                                                    *)

\* add_measurement_request inserts a request's entities before anything else.
AddEntity(e) ==
  /\ entityRows' = entityRows \cup {e}
  /\ UNCHANGED <<database, entityOf, row, insertId, linkRows, reader, late>>

\* MySQL counts the rows that were ever inserted.  The primary key of SQLite is
\* the rowid, and not declared AUTOINCREMENT: a new row gets the highest id in
\* the table plus one, also where that belonged to a row that was deleted.
Numbered == IF database = "MySQL" THEN ResultIds ELSE Rows
NextInsertId(i) ==
  /\ i = 1 \/ \E r \in Numbered : i = insertId[r] + 1
  /\ \A r \in Numbered : insertId[r] < i

\* Transactions of several processes may be open at once on MySQL; SQLite lets
\* one of them write at a time.
InsertResult(r) ==
  /\ row[r] = "new"
  /\ database = "SQLite" => \A q \in ResultIds : row[q] # "inserted"
  /\ entityOf[r] \in entityRows
  /\ \E i \in 1 .. MaxRows :
       NextInsertId(i) /\ insertId' = [insertId EXCEPT ![r] = i]
  /\ row' = [row EXCEPT ![r] = "inserted"]
  /\ UNCHANGED <<database, entityRows, entityOf, linkRows, reader, late>>

\* Whether refresh() will not ask for an id any more.
Passed(i) == i <= lastInsertId \/ \E q \in fetched : i <= insertId[q]

\* The transaction of a result is committed, or fails.
Commit(r) ==
  /\ row[r] = "inserted"
  /\ row' = [row EXCEPT ![r] = "committed"]
  /\ late' = IF Passed(insertId[r]) THEN late \cup {r} ELSE late
  /\ UNCHANGED <<database, entityRows, entityOf, insertId, linkRows, reader>>

RollBack(r) ==
  /\ row[r] = "inserted"
  /\ row' = [row EXCEPT ![r] = "failed"]
  /\ UNCHANGED <<database, entityRows, entityOf, insertId, linkRows, reader, late>>

\* A result is measured by one operation and replayed by others.
LinkResult(r, o) ==
  /\ r \in Committed
  /\ linkRows' = linkRows \cup {<<r, o>>}
  /\ UNCHANGED <<database, entityRows, entityOf, row, insertId, reader, late>>

\* Deleting operations deletes results; entities stay.
DeleteResult(r) ==
  /\ r \in Committed
  /\ row' = [row EXCEPT ![r] = "deleted"]
  /\ linkRows' = {link \in linkRows : link[1] # r}
  /\ UNCHANGED <<database, entityRows, entityOf, insertId, reader, late>>

-----------------------------------------------------------------------------
(* entities and refresh.                                                   *)

\* entities loads only when nothing is cached, and starts with the entities.
LoadEntities ==
  /\ refreshStage = "idle"
  /\ known = {}
  /\ known' = entityRows
  /\ attached' = [e \in EntityIds |-> {}]
  /\ refreshStage' = "fetching"
  /\ UNCHANGED <<table, lastInsertId, fetched, late>>

\* refresh asks for the results that are newer than the newest it has seen.
FetchResults ==
  /\ refreshStage \in {"idle", "fetching"}
  /\ fetched' = {r \in Committed : insertId[r] > lastInsertId}
  /\ refreshStage' = IF fetched' = {} THEN "idle" ELSE "attaching"
  /\ UNCHANGED <<table, cache, lastInsertId, late>>

EntitiesOf(results) == {entityOf[r] : r \in results}

LastInsertId(results) ==
  CHOOSE i \in {insertId[r] : r \in results} : \A r \in results : insertId[r] <= i

\* Mutant: attaches to the entities that are cached, and fetches none.
AttachWithoutFetching ==
  /\ refreshStage = "attaching"
  /\ UNCHANGED known
  /\ attached' = [e \in EntityIds |->
       attached[e] \cup {r \in fetched : entityOf[r] = e}]
  /\ lastInsertId' = LastInsertId(fetched)
  /\ refreshStage' = IF EntitiesOf(fetched) \subseteq known' THEN "idle" ELSE "failed"
  /\ fetched' = {}
  /\ UNCHANGED <<table, late>>

\* It fetches the entities it does not have, after their results, and attaches
\* the results; for a result without an entity it would raise KeyError.
AttachResults ==
  /\ refreshStage = "attaching"
  /\ known' = known \cup (EntitiesOf(fetched) \cap entityRows)
  /\ attached' = [e \in EntityIds |->
       attached[e] \cup {r \in fetched : entityOf[r] = e}]
  /\ lastInsertId' = LastInsertId(fetched)
  /\ refreshStage' = IF EntitiesOf(fetched) \subseteq known' THEN "idle" ELSE "failed"
  /\ fetched' = {}
  /\ UNCHANGED <<table, late>>

-----------------------------------------------------------------------------
(* The other readers, each of which runs one query.                        *)

ResultsOfEntity(e) == {r \in Committed : entityOf[r] = e}

\* Mutant: the entity comes back without its results.
OnlyEntitiesWithIdentifiers(identifiers) ==
  /\ refreshStage = "idle"
  /\ ~identifiers \subseteq known
  /\ known' = known \cup (identifiers \cap entityRows)
  /\ attached' = [e \in EntityIds |->
       IF e \in identifiers \cap entityRows THEN {} ELSE attached[e]]
  /\ UNCHANGED <<table, lastInsertId, fetched, refreshStage, late>>

\* If one is not cached all are fetched, and replace what is cached of them.
EntitiesWithIdentifiers(identifiers) ==
  /\ refreshStage = "idle"
  /\ ~identifiers \subseteq known
  /\ known' = known \cup (identifiers \cap entityRows)
  /\ attached' = [e \in EntityIds |->
       IF e \in identifiers \cap entityRows THEN ResultsOfEntity(e) ELSE attached[e]]
  /\ UNCHANGED <<table, lastInsertId, fetched, refreshStage, late>>

ResultsIn(o) == {r \in Committed : <<r, o>> \in linkRows}

\* Mutant: the one result replaces what was attached before.
FirstResultReplaces(o) ==
  /\ refreshStage = "idle"
  /\ \E first \in [EntitiesOf(ResultsIn(o)) -> ResultsIn(o)] :
       /\ \A e \in DOMAIN first : entityOf[first[e]] = e
       /\ known' = known \cup DOMAIN first
       /\ attached' = [e \in EntityIds |->
            IF e \in DOMAIN first THEN {first[e]} ELSE attached[e]]
  /\ UNCHANGED <<table, lastInsertId, fetched, refreshStage, late>>

\* An entity that is not cached is cached with the first of its results that
\* the query returns; of one that is cached, no result is attached.
EntitiesInOperation(o) ==
  /\ refreshStage = "idle"
  /\ \E first \in [EntitiesOf(ResultsIn(o)) \ known -> ResultsIn(o)] :
       /\ \A e \in DOMAIN first : entityOf[first[e]] = e
       /\ known' = known \cup DOMAIN first
       /\ attached' = [e \in EntityIds |->
            IF e \in DOMAIN first THEN {first[e]} ELSE attached[e]]
  /\ UNCHANGED <<table, lastInsertId, fetched, refreshStage, late>>

\* measurement_requests_for_operation attaches all results of its requests.
MeasurementRequestsForOperation(o) ==
  /\ refreshStage = "idle"
  /\ known' = known \cup EntitiesOf(ResultsIn(o))
  /\ attached' = [e \in EntityIds |->
       attached[e] \cup {r \in ResultsIn(o) : entityOf[r] = e}]
  /\ UNCHANGED <<table, lastInsertId, fetched, refreshStage, late>>

-----------------------------------------------------------------------------
CacheNext ==
  \/ \E e \in EntityIds : AddEntity(e)
  \/ \E r \in ResultIds : InsertResult(r) \/ Commit(r) \/ RollBack(r) \/ DeleteResult(r)
  \/ \E r \in ResultIds, o \in OperationIds : LinkResult(r, o)
  \/ LoadEntities \/ FetchResults \/ AttachResults
  \/ \E identifiers \in SUBSET EntityIds : EntitiesWithIdentifiers(identifiers)
  \/ \E o \in OperationIds :
       EntitiesInOperation(o) \/ MeasurementRequestsForOperation(o)

CacheSpec == CacheInit /\ [][CacheNext]_cacheVars

-----------------------------------------------------------------------------
\* refresh() asks for ids above the last it has seen, and misses no result but
\* those that became visible under an id which it had passed: all others up to
\* that id are attached to their entities, also to those that other readers
\* cached without them.
NothingElseMissed ==
  refreshStage # "failed" =>
    \A r \in Committed \ late : insertId[r] <= lastInsertId =>
      entityOf[r] \in known /\ r \in attached[entityOf[r]]

\* On SQLite, which has one writer at a time, no result comes under such an id
\* as long as nothing is deleted.  (After a deletion one may: the highest ids
\* are given again.  On MySQL one may when two transactions are open at once.)
LateAfterDeletion ==
  database = "SQLite" /\ late # {} => \E r \in ResultIds : row[r] = "deleted"

\* Writers insert entities before their results and refresh fetches them after:
\* it always finds the entity of a result.
EntitiesAreFound == refreshStage # "failed"

\* What refresh() is good for: it never fails, nor leaves out for good anything
\* but what came late, which takes MySQL or a deletion.
RefreshIsComplete == EntitiesAreFound /\ NothingElseMissed /\ LateAfterDeletion

\* No reader makes the process forget a result that is still in the table.
NothingForgotten ==
  [][\A e \in known : attached[e] \cap Committed' \subseteq attached'[e]]_cacheVars

\* refresh() says that it "syncs the local cache with the database"
\* (sql.py:588), and its example is another process that adds measurements: when
\* it finds no new results, the cache has them all.
CacheIsSynced ==
  refreshStage = "idle" /\ {r \in Committed : insertId[r] > lastInsertId} = {} =>
    \A r \in Committed : r \in attached[entityOf[r]]

=============================================================================
