---------------------------- MODULE SampleStore -----------------------------
(***************************************************************************)
(* The measurement tables of one SQL sample store, shared by operations    *)
(* that add measurements and by users who delete operations:               *)
(* orchestrator/core/samplestore/sql.py (addMeasurement and the            *)
(* transactions it is made of) and orchestrator/metastore/sqlstore.py      *)
(* (delete_operation).                                                     *)
(*                                                                         *)
(* addMeasurement is not one transaction: the request row, the result      *)
(* rows and the links between them are committed one after another, and a  *)
(* deletion can come between any two.  Each transaction is one step here.  *)
(* The deletion's check for running operations is a plain SELECT that      *)
(* locks nothing, so it is a step of its own.                              *)
(*                                                                         *)
(* Entity rows are left out: they are only ever inserted.  So is the       *)
(* failure of the database: to the tables it is the same as the end of     *)
(* the manager's process between two transactions (ManagerStops).          *)
(***************************************************************************)
EXTENDS Naturals, FiniteSets

CONSTANTS
  Operations,   \* the explore operations on the spaces of this sample store
  Results,      \* the uids of measurement results
  EntityOf,     \* EntityOf[r]: the entity that r is a result of
  Valid,        \* the results that hold measurements, not a reason for none
  Copied,       \* those copied from another sample store at its creation
  MaxRequests,  \* bound: the measurement requests an operation stores
  MySQL,        \* the database: MySQL, or SQLite that enforces no foreign keys
  MayForce      \* may users delete with --force?

ASSUME SampleStoreAssumption ==
  /\ Copied \subseteq Results
  /\ Valid \subseteq Results
  /\ MaxRequests \in Nat
  /\ MySQL \in BOOLEAN
  /\ MayForce \in BOOLEAN

VARIABLES
  requestRows,  \* the measurement requests table
  result,       \* result[r]: whether r was measured and has a row
  links,        \* the table that joins requests and results
  stage,        \* stage[o]: how far the manager of o is in addMeasurement
  adding,       \* adding[o]: the request it is adding, or added last
  status,       \* status[o]: the resource of o in the metastore
  harness,      \* harness[o]: the process that runs o, as a whole
  checked,      \* the deletions that have passed their check
  deleted,      \* the operations that were deleted
  exposed       \* history: the running operations that started after the check
                \* of a deletion and before it, or ran when one was forced

rows == <<requestRows, result, links>>
manager == <<stage, adding>>
metastore == <<status, harness, checked, deleted, exposed>>
vars == <<requestRows, result, links, stage, adding, status, harness, checked,
          deleted, exposed>>

Request ==
  [operation : Operations, index : 0 .. MaxRequests, results : SUBSET Results,
   replayed : BOOLEAN]

Entities == {EntityOf[r] : r \in Results}

\* A uid is new, then measured, has a row (stored) and may lose it (deleted).
ResultRows == {r \in Results : result[r] = "stored"}

TypeOK ==
  /\ requestRows \subseteq Request
  /\ result \in [Results -> {"new", "measured", "stored", "deleted"}]
  /\ links \subseteq Request \X Results
  /\ stage \in [Operations ->
       {"idle", "replaying", "inserting", "linking", "failed", "stopped"}]
  /\ adding \in [Operations -> Request]
  /\ status \in [Operations -> {"absent", "created", "started", "finished"}]
  /\ harness \in [Operations -> {"before", "created", "running", "ended"}]
  /\ checked \subseteq Operations
  /\ deleted \subseteq Operations
  /\ exposed \subseteq Operations

Init ==
  /\ requestRows = {}
  /\ result = [r \in Results |-> IF r \in Copied THEN "stored" ELSE "new"]
  /\ links = {}
  /\ stage = [o \in Operations |-> "idle"]
  /\ adding = [o \in Operations |->
       [operation |-> o, index |-> 0, results |-> {}, replayed |-> FALSE]]
  /\ status = [o \in Operations |-> "absent"]
  /\ harness = [o \in Operations |-> "before"]
  /\ checked = {}
  /\ deleted = {}
  /\ exposed = {}

-----------------------------------------------------------------------------
(* Operations.                                                             *)

\* The harness adds the operation's resource, with its relation to a space,
\* and stores in a second transaction, an upsert, that the operation started.
OperationCreated(o) ==
  /\ harness[o] = "before"
  /\ harness' = [harness EXCEPT ![o] = "created"]
  /\ status' = [status EXCEPT ![o] = "created"]
  /\ UNCHANGED <<rows, manager, checked, deleted, exposed>>

OperationStarts(o) ==
  /\ harness[o] = "created"
  /\ harness' = [harness EXCEPT ![o] = "running"]
  /\ status' = [status EXCEPT ![o] = "started"]
  /\ exposed' = IF checked = {} \/ o \in deleted THEN exposed ELSE exposed \cup {o}
  /\ UNCHANGED <<rows, manager, checked, deleted>>

\* The harness stores the final status, with an upsert.  It does so before it
\* shuts the manager down, which may be in the middle of addMeasurement.
OperationFinishes(o) ==
  /\ harness[o] = "running"
  /\ harness' = [harness EXCEPT ![o] = "ended"]
  /\ status' = [status EXCEPT ![o] = "finished"]
  /\ exposed' = exposed \ {o}
  /\ UNCHANGED <<rows, manager, checked, deleted>>

\* The manager's process ends, shut down or killed, between two transactions.
\* (Its end while it is idle is the same as that it adds no more.)
ManagerStops(o) ==
  /\ stage[o] \in {"replaying", "inserting", "linking"}
  /\ stage' = [stage EXCEPT ![o] = "stopped"]
  /\ UNCHANGED <<rows, adding, metastore>>

-----------------------------------------------------------------------------
(* addMeasurement, one action per transaction.                             *)

\* The request row of a request that carries the given results.
InsertRequest(o, results, replayed) ==
  LET request == [operation |-> o, index |-> adding[o].index + 1,
                  results |-> results, replayed |-> replayed]
  IN /\ harness[o] \in {"running", "ended"}
     /\ stage[o] = "idle"
     /\ adding[o].index < MaxRequests  \* the bound
     /\ requestRows' = requestRows \cup {request}
     /\ adding' = [adding EXCEPT ![o] = request]
     /\ stage' = [stage EXCEPT ![o] =
          IF replayed THEN "replaying" ELSE "inserting"]
     /\ UNCHANGED <<links, metastore>>

\* A measurement that an actuator made has results with uids of their own, or
\* none if the actuator answered without setting them.
AddMeasured(o) ==
  \E results \in SUBSET {r \in Results : result[r] = "new"} :
    /\ InsertRequest(o, results, FALSE)
    /\ result' = [r \in Results |->
         IF r \in results THEN "measured" ELSE result[r]]

\* A replayed measurement carries one result that the process once read from
\* the table; its row may be gone since.
AddReplayed(o) ==
  \E r \in Results :
    /\ result[r] \in {"stored", "deleted"}
    /\ InsertRequest(o, {r}, TRUE)
    /\ UNCHANGED result

\* Whether the database accepts links from the request to its results.
LinksAccepted(request) ==
  \/ ~MySQL
  \/ request \in requestRows /\ request.results \subseteq ResultRows

Linked(request) == links \cup {<<request, r>> : r \in request.results}

\* Mutant: the result of a replayed measurement is inserted like any other.
InsertWithoutLinking(o) ==
  /\ stage[o] = "replaying"
  /\ stage' = [stage EXCEPT ![o] = "inserting"]
  /\ UNCHANGED <<rows, adding, metastore>>

\* A replayed measurement's result should be in the table already.  If its row
\* was deleted meanwhile, addMeasurement goes on to insert it again.
LinkReplayed(o) ==
  /\ stage[o] = "replaying"
  /\ \/ /\ LinksAccepted(adding[o])
        /\ links' = Linked(adding[o])
        /\ stage' = [stage EXCEPT ![o] = "idle"]
     \/ /\ ~LinksAccepted(adding[o])
        /\ stage' = [stage EXCEPT ![o] = "inserting"]
        /\ UNCHANGED links
  /\ UNCHANGED <<requestRows, result, adding, metastore>>

\* The uids in the results table are unique.  Without results a TypeError ends
\* the manager's loop before the transaction.
InsertResults(o) ==
  /\ stage[o] = "inserting"
  /\ \/ /\ adding[o].results # {}
        /\ adding[o].results \cap ResultRows = {}
        /\ result' = [r \in Results |->
             IF r \in adding[o].results THEN "stored" ELSE result[r]]
        /\ stage' = [stage EXCEPT ![o] = "linking"]
     \/ /\ adding[o].results \cap ResultRows # {}
        /\ stage' = [stage EXCEPT ![o] = "failed"]
        /\ UNCHANGED result
     \/ /\ adding[o].results = {}
        /\ stage' = [stage EXCEPT ![o] = "stopped"]
        /\ UNCHANGED result
  /\ UNCHANGED <<requestRows, links, adding, metastore>>

LinkResults(o) ==
  /\ stage[o] = "linking"
  /\ \/ /\ LinksAccepted(adding[o])
        /\ links' = Linked(adding[o])
        /\ stage' = [stage EXCEPT ![o] = "idle"]
     \/ /\ ~LinksAccepted(adding[o])
        /\ stage' = [stage EXCEPT ![o] = "failed"]
        /\ UNCHANGED links
  /\ UNCHANGED <<requestRows, result, adding, metastore>>

-----------------------------------------------------------------------------
(* delete_operation.                                                       *)

\* Started, and not finished as far as the metastore knows.
Running == {o \in Operations : status[o] = "started"}

\* The command line deletes an operation whose resource exists; without its
\* relation to a space, which goes with the first deletion, deleting fails.
Deletable(o) == status[o] # "absent" /\ o \notin deleted

\* Mutant: only the operation itself must not run.
DeletionChecksItself(o) ==
  /\ MySQL
  /\ Deletable(o)
  /\ o \notin Running
  /\ o \notin checked
  /\ checked' = checked \cup {o}
  /\ UNCHANGED <<rows, manager, status, harness, deleted, exposed>>

\* On SQLite the check is not supported and deletions must be forced.
DeletionPassesCheck(o) ==
  /\ MySQL
  /\ Deletable(o)
  /\ Running = {}
  /\ o \notin checked
  /\ checked' = checked \cup {o}
  /\ UNCHANGED <<rows, manager, status, harness, deleted, exposed>>

\* The results of o's requests, and those that requests of others share.
ResultsOf(o) ==
  {r \in Results : \E request \in requestRows :
     request.operation = o /\ <<request, r>> \in links}

\* Mutant: a request that replays a result does not count as sharing it.
SharedWithMeasured(o) ==
  {r \in ResultsOf(o) : \E request \in requestRows :
     request.operation # o /\ ~request.replayed /\ <<request, r>> \in links}

SharedResults(o) ==
  {r \in ResultsOf(o) : \E request \in requestRows :
     request.operation # o /\ <<request, r>> \in links}

\* Mutant: all links to the results of o's requests go.
NoLinkIsKept(o) == {link \in links : link[2] \notin ResultsOf(o)}

LinksAfterDeletion(o) ==
  {link \in links : link[2] \notin ResultsOf(o) \ SharedResults(o)}

\* Every result and every request without a link goes, whoever's it is.
DeleteOperation(o) ==
  /\ Deletable(o)
  /\ MayForce \/ o \in checked
  /\ links' = LinksAfterDeletion(o)
  /\ result' = [r \in Results |->
       IF result[r] = "stored" /\ ~\E link \in links' : link[2] = r
         THEN "deleted" ELSE result[r]]
  /\ requestRows' =
       {request \in requestRows : \E link \in links' : link[1] = request}
  /\ status' = [status EXCEPT ![o] = "absent"]
  /\ deleted' = deleted \cup {o}
  /\ exposed' = IF o \in checked THEN exposed \ {o}
                ELSE {q \in Operations : harness[q] = "running"} \ {o}
  /\ checked' = checked \ {o}
  /\ UNCHANGED <<manager, harness>>

-----------------------------------------------------------------------------
Next ==
  \E o \in Operations :
    \/ OperationCreated(o) \/ OperationStarts(o) \/ OperationFinishes(o)
    \/ ManagerStops(o)
    \/ AddMeasured(o) \/ AddReplayed(o)
    \/ LinkReplayed(o) \/ InsertResults(o) \/ LinkResults(o)
    \/ DeletionPassesCheck(o) \/ DeleteOperation(o)

Spec == Init /\ [][Next]_vars

-----------------------------------------------------------------------------
(* What the sample store answers about an operation:                       *)
(* measurement_requests_for_operation joins the three tables.              *)

ResultsRead(request) == {r \in ResultRows : <<request, r>> \in links}

RequestsRead(o) ==
  {<<request, ResultsRead(request)>> :
     request \in {q \in requestRows : q.operation = o /\ ResultsRead(q) # {}}}

\* What it answers when asked for the results and the entities alone.
ResultsForOperation(o) == UNION {read[2] : read \in RequestsRead(o)}

EntityIdentifiers(o) == {EntityOf[r] : r \in ResultsForOperation(o)}

\* The counts look at one table: at the rows of requests, also of those
\* without a result, and at the links.
RequestsCount(o) == Cardinality({q \in requestRows : q.operation = o})

ResultsCount(o) == Cardinality({link \in links : link[1].operation = o})

\* Mutant: all results of an entity count once, the valid ones once a link.
DistinctStatistics(o) ==
  LET rowsOf(e) == {link \in links : /\ link[1].operation = o
                                    /\ link[2] \in ResultRows
                                    /\ EntityOf[link[2]] = e}
      valid(e) == {row \in rowsOf(e) : row[2] \in Valid}
  IN [total |-> {e \in Entities : rowsOf(e) # {}},
      successful |-> {e \in Entities : Cardinality(valid(e)) > 0},
      allSuccessful |-> {e \in Entities :
        /\ rowsOf(e) # {}
        /\ Cardinality(valid(e)) = Cardinality({row[2] : row \in rowsOf(e)})}]

\* The statistics group the joined rows by entity, and count a result once
\* for each of its links.
EntityStatistics(o) ==
  LET rowsOf(e) == {link \in links : /\ link[1].operation = o
                                    /\ link[2] \in ResultRows
                                    /\ EntityOf[link[2]] = e}
      valid(e) == {row \in rowsOf(e) : row[2] \in Valid}
  IN [total |-> {e \in Entities : rowsOf(e) # {}},
      successful |-> {e \in Entities : Cardinality(valid(e)) > 0},
      allSuccessful |-> {e \in Entities : /\ rowsOf(e) # {}
                                          /\ Cardinality(valid(e)) =
                                               Cardinality(rowsOf(e))}]

\* What a space counts itself when its sample store has no SQL.
StatisticsOfResults(o) ==
  LET results == ResultsForOperation(o)
  IN [total |-> EntityIdentifiers(o),
      successful |-> {EntityOf[r] : r \in results \cap Valid},
      allSuccessful |-> EntityIdentifiers(o) \
                          {EntityOf[r] : r \in results \ Valid}]

Kept == Operations \ deleted

\* A measurement that was added to an operation can be read, with all of its
\* results, until its own operation is deleted: whatever other operations add,
\* replay and re-insert, and whichever of them are deleted in between.
AddedIsRead ==
  \A o \in Kept :
    stage[o] = "idle" /\ adding[o].index > 0 =>
      <<adding[o], adding[o].results>> \in RequestsRead(o)

\* What the store answers of an operation agrees, whatever other operations
\* add and delete: its links are to results that can be read, the entities'
\* statistics are those of the results it returns, and of the requests that
\* are counted at most one, the last, cannot be read.
AnswersAgree ==
  \A o \in Kept :
    /\ ResultsCount(o) =
         Cardinality(UNION {{read[1]} \X read[2] : read \in RequestsRead(o)})
    /\ RequestsCount(o) <= Cardinality(RequestsRead(o)) + 1
    /\ EntityStatistics(o) = StatisticsOfResults(o)

\* Several operations that add and replay measurements at the same time never
\* make each other's transactions fail; only a deletion can.
FailsOnlyByDeletion ==
  \A o \in Operations : stage[o] = "failed" => deleted # {}

\* What the check of a deletion is good for: while an operation runs, no
\* deletion makes a transaction of its own measurements fail, whatever is
\* deleted before, but one that is forced, or one whose check came before the
\* operation's start: the check locks nothing.  (Once its harness has ended, an
\* operation does not count as running, although its manager may still add.)
CheckProtects ==
  \A o \in Kept \ exposed :
    harness[o] = "running" /\ stage[o] = "failed" => adding[o].replayed

\* What can be read of an operation: requests of its own with all their results.
Entries == [o \in Operations |->
  {<<request, request.results>> : request \in
     [operation : {o}, index : 1 .. MaxRequests, results : (SUBSET Results) \ {{}},
      replayed : BOOLEAN]}]

\* Reading an operation's requests shows a log into which requests come whole
\* and out of which nothing goes but the operations that are deleted.
Log == INSTANCE MeasurementLog WITH
  log <- [o \in Operations |-> IF o \in Kept THEN RequestsRead(o) ELSE {}],
  forgotten <- deleted

ImplementsLog == Log!Spec

=============================================================================
