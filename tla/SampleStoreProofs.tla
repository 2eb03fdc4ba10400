------------------------- MODULE SampleStoreProofs --------------------------
(***************************************************************************)
(* Proofs about the sample store's tables, for any set of operations and   *)
(* of results and any number of requests: an added measurement stays       *)
(* readable and the tables implement MeasurementLog, where foreign keys    *)
(* are enforced; only deletions make transactions fail; the check of a     *)
(* deletion sees the operations that run; and the answers of the store     *)
(* about an operation agree.                                               *)
(*                                                                         *)
(* Then about the cache of entities that a process keeps of the store, for *)
(* any number of entities, operations and results: refresh always finds    *)
(* the entities of results; no reader forgets a result; and where rows     *)
(* become visible in the order of their ids, refresh misses none.          *)
(***************************************************************************)
EXTENDS SampleStore, SampleStoreCache, FiniteSetTheorems, WellFoundedInduction, TLAPS

-----------------------------------------------------------------------------
(* Types.                                                                  *)

LEMMA InitTyped == ASSUME Init PROVE TypeOK
BY SampleStoreAssumption DEF Init, TypeOK, Request

\* Adding a request that is well-formed keeps the types.
LEMMA InsertTyped ==
  ASSUME TypeOK, NEW o \in Operations, NEW results \in SUBSET Results,
         NEW replayed \in BOOLEAN, InsertRequest(o, results, replayed),
         result' \in [Results -> {"new", "measured", "stored", "deleted"}]
  PROVE  TypeOK'
<1>. DEFINE request == [operation |-> o, index |-> adding[o].index + 1,
                        results |-> results, replayed |-> replayed]
<1>1. adding[o] \in Request
  BY DEF TypeOK
<1>2. adding[o].index + 1 \in 0 .. MaxRequests
  BY <1>1, SampleStoreAssumption DEF Request, InsertRequest
<1>3. request \in Request
  BY <1>2 DEF Request
<1>. HIDE DEF request
<1>4. requestRows' = requestRows \cup {request}
      /\ adding' = [adding EXCEPT ![o] = request]
  BY DEF InsertRequest, request
<1>5. stage' \in [Operations ->
       {"idle", "replaying", "inserting", "linking", "failed", "stopped"}]
  BY DEF InsertRequest, TypeOK
<1>. QED
  BY <1>3, <1>4, <1>5 DEF InsertRequest, TypeOK, metastore

LEMMA NextTyped == ASSUME TypeOK, [Next]_vars PROVE TypeOK'
<1>1. CASE UNCHANGED vars
  BY <1>1 DEF vars, TypeOK
<1>2. ASSUME NEW o \in Operations, OperationStarts(o) PROVE TypeOK'
  BY <1>2 DEF OperationStarts, TypeOK, rows, manager
<1>11. ASSUME NEW o \in Operations, OperationCreated(o) PROVE TypeOK'
  BY <1>11 DEF OperationCreated, TypeOK, rows, manager
<1>3. ASSUME NEW o \in Operations, OperationFinishes(o) PROVE TypeOK'
  BY <1>3 DEF OperationFinishes, TypeOK, rows, manager
<1>4. ASSUME NEW o \in Operations, ManagerStops(o) PROVE TypeOK'
  BY <1>4 DEF ManagerStops, TypeOK, rows, metastore
<1>5. ASSUME NEW o \in Operations, AddMeasured(o) PROVE TypeOK'
  <2>1. PICK results \in SUBSET Results :
          /\ InsertRequest(o, results, FALSE)
          /\ result' = [r \in Results |->
               IF r \in results THEN "measured" ELSE result[r]]
    BY <1>5 DEF AddMeasured
  <2>. QED
    BY <2>1, InsertTyped DEF TypeOK
<1>6. ASSUME NEW o \in Operations, AddReplayed(o) PROVE TypeOK'
  <2>1. PICK r \in Results : InsertRequest(o, {r}, TRUE) /\ UNCHANGED result
    BY <1>6 DEF AddReplayed
  <2>. QED
    BY <2>1, InsertTyped DEF TypeOK
<1>7. ASSUME NEW o \in Operations, LinkReplayed(o) \/ LinkResults(o)
      PROVE  TypeOK'
  <2>1. adding[o] \in Request
    BY DEF TypeOK
  <2>2. Linked(adding[o]) \subseteq Request \X Results
    BY <2>1 DEF Linked, Request, TypeOK
  <2>. QED
    BY <1>7, <2>2 DEF LinkReplayed, LinkResults, TypeOK, metastore
<1>8. ASSUME NEW o \in Operations, InsertResults(o) PROVE TypeOK'
  BY <1>8 DEF InsertResults, TypeOK, metastore
<1>9. ASSUME NEW o \in Operations, DeletionPassesCheck(o) PROVE TypeOK'
  BY <1>9 DEF DeletionPassesCheck, TypeOK, rows, manager
<1>10. ASSUME NEW o \in Operations, DeleteOperation(o) PROVE TypeOK'
  BY <1>10 DEF DeleteOperation, LinksAfterDeletion, TypeOK, manager
<1>. QED
  BY <1>1, <1>2, <1>3, <1>4, <1>5, <1>6, <1>7, <1>8, <1>9, <1>10, <1>11
     DEF Next

\* The type invariant holds throughout: all rows, links and states of
\* addMeasurement and of deletions are of the kinds declared for them.
THEOREM TypeCorrect == Spec => []TypeOK
<1>1. Init => TypeOK
  BY InitTyped
<1>2. TypeOK /\ [Next]_vars => TypeOK'
  BY NextTyped
<1>. QED
  BY <1>1, <1>2, PTL DEF Spec

-----------------------------------------------------------------------------
(* The inductive invariant behind AddedIsRead and ImplementsLog.           *)

HasLink(request) == \E r \in Results : <<request, r>> \in links

\* What the foreign keys guarantee, and that links belong to their request.
LinksJoinRows ==
  \A request \in Request, r \in Results : <<request, r>> \in links =>
    request \in requestRows /\ result[r] = "stored" /\ r \in request.results

\* A request of an operation that was not deleted has all its links or none.
WholeOrNothing ==
  \A request \in requestRows : request.operation \in Kept /\ HasLink(request) =>
    \A r \in request.results : <<request, r>> \in links

\* The last request was linked when addMeasurement returned, and still is.
AddedIsLinked ==
  \A o \in Kept : stage[o] = "idle" /\ adding[o].index > 0 =>
    \A r \in adding[o].results : <<adding[o], r>> \in links

RequestsHaveResults ==
  \A o \in Operations :
    /\ adding[o].operation = o
    /\ adding[o].index > 0 /\ stage[o] \notin {"inserting", "stopped"} =>
         adding[o].results # {}
    /\ adding[o].replayed => adding[o].results # {}
    /\ adding[o].index = 0 => stage[o] = "idle"

LogInv ==
  /\ TypeOK
  /\ LinksJoinRows
  /\ WholeOrNothing
  /\ AddedIsLinked
  /\ RequestsHaveResults

\* An operation that runs has the status "started", unless it was deleted.
RunningInv ==
  \A o \in Kept : harness[o] = "running" => status[o] = "started"

\* Results have one measurement: each is inserted by the operation whose request
\* measured it, and is replayed only after that.
MeasuringInv ==
  /\ \A o \in Operations :
       /\ harness[o] \in {"before", "created"} => stage[o] = "idle"
       /\ stage[o] = "replaying" => adding[o].replayed
       /\ stage[o] = "inserting" /\ ~adding[o].replayed =>
            \A r \in adding[o].results : result[r] = "measured"
       /\ adding[o].replayed =>
            \A r \in adding[o].results : result[r] \in {"stored", "deleted"}
  /\ \A o, p \in Operations :
       /\ o # p
       /\ stage[o] = "inserting" /\ ~adding[o].replayed
       /\ stage[p] = "inserting" /\ ~adding[p].replayed
       => adding[o].results \cap adding[p].results = {}

\* No deletion has passed its check while a protected operation runs: what the
\* transactions of its measurements refer to is there.
Protected(o) == o \in Kept \ exposed /\ harness[o] = "running"

ProtectedInv ==
  \A o \in Operations : Protected(o) =>
    /\ checked = {}
    /\ ~adding[o].replayed =>
         /\ stage[o] # "failed"
         /\ stage[o] \in {"inserting", "linking"} => adding[o] \in requestRows
         /\ stage[o] = "linking" => adding[o].results \subseteq ResultRows

\* As long as nothing is deleted, what a transaction refers to is there and
\* what it inserts is not.
InFlight(o) == stage[o] \in {"replaying", "inserting", "linking"}

UndisturbedInv ==
  deleted = {} =>
    /\ \A r \in Results : result[r] # "deleted"
    /\ \A o \in Operations :
         /\ stage[o] # "failed"
         /\ InFlight(o) => adding[o] \in requestRows
         /\ stage[o] \in {"replaying", "linking"} => adding[o].results \subseteq ResultRows
         /\ stage[o] = "inserting" =>
              \A r \in adding[o].results : result[r] = "measured"
    /\ \A o, p \in Operations :
         o # p /\ stage[o] = "inserting" /\ stage[p] = "inserting" =>
           adding[o].results \cap adding[p].results = {}

-----------------------------------------------------------------------------
(* LogInv is inductive where foreign keys are enforced.                    *)

LEMMA InitLogInv == ASSUME Init PROVE LogInv
<1>1. TypeOK
  BY InitTyped
<1>2. LinksJoinRows /\ WholeOrNothing
  BY DEF Init, LinksJoinRows, WholeOrNothing
<1>3. \A o \in Operations :
        /\ adding[o].operation = o /\ adding[o].index = 0
        /\ ~adding[o].replayed /\ stage[o] = "idle"
  BY DEF Init
<1>4. AddedIsLinked /\ RequestsHaveResults
  BY <1>3 DEF AddedIsLinked, RequestsHaveResults, Kept
<1>. QED
  BY <1>1, <1>2, <1>4 DEF LogInv

\* A step that leaves the rows and addMeasurement as they are.
LEMMA RowsUnchangedLogInv ==
  ASSUME LogInv, TypeOK', UNCHANGED <<rows, manager>>, deleted \subseteq deleted'
  PROVE  LogInv'
BY DEF LogInv, LinksJoinRows, WholeOrNothing, AddedIsLinked,
   RequestsHaveResults, HasLink, rows, manager, Kept

LEMMA InsertLogInv ==
  ASSUME LogInv, TypeOK', NEW o \in Operations, NEW results \in SUBSET Results,
         NEW replayed \in BOOLEAN, replayed => results # {},
         InsertRequest(o, results, replayed),
         \A r \in Results : result[r] = "stored" => result'[r] = "stored"
  PROVE  LogInv'
<1>. DEFINE request == [operation |-> o, index |-> adding[o].index + 1,
                        results |-> results, replayed |-> replayed]
<1>1. adding[o].index \in Nat
  BY DEF LogInv, TypeOK, Request
<1>2. /\ request.operation = o
      /\ request.index = adding[o].index + 1
      /\ request.results = results
      /\ request.replayed = replayed
  OBVIOUS
<1>. HIDE DEF request
<1>3. /\ requestRows' = requestRows \cup {request}
      /\ adding' = [adding EXCEPT ![o] = request]
      /\ links' = links
      /\ deleted' = deleted
      /\ stage' = [stage EXCEPT ![o] =
           IF replayed THEN "replaying" ELSE "inserting"]
  BY DEF InsertRequest, metastore, request
<1>4. LinksJoinRows'
  BY <1>3 DEF LogInv, LinksJoinRows
<1>5. request \in Request
  BY <1>3 DEF TypeOK
<1>6. WholeOrNothing'
  <2>1. CASE request \in requestRows
    BY <1>3, <2>1 DEF LogInv, WholeOrNothing, HasLink, Kept
  <2>2. CASE request \notin requestRows
    <3>1. ~HasLink(request)
      BY <1>5, <2>2 DEF LogInv, LinksJoinRows, HasLink
    <3>. QED
      BY <1>3, <3>1 DEF LogInv, WholeOrNothing, HasLink, Kept
  <2>. QED
    BY <2>1, <2>2
<1>7. stage'[o] = (IF replayed THEN "replaying" ELSE "inserting") /\ adding'[o] = request
      /\ \A p \in Operations : p # o => stage'[p] = stage[p] /\ adding'[p] = adding[p]
  BY <1>3 DEF LogInv, TypeOK
<1>8. AddedIsLinked'
  BY <1>3, <1>7 DEF LogInv, AddedIsLinked, Kept
<1>9. RequestsHaveResults'
  BY <1>1, <1>2, <1>7 DEF LogInv, RequestsHaveResults
<1>. QED
  BY <1>4, <1>6, <1>8, <1>9 DEF LogInv

\* Linking a request that the foreign keys accept.
LEMMA LinkLogInv ==
  ASSUME MySQL, LogInv, TypeOK', NEW o \in Operations,
         stage[o] \in {"replaying", "linking"}, LinksAccepted(adding[o]), links' = Linked(adding[o]),
         stage' = [stage EXCEPT ![o] = "idle"],
         adding' = adding, requestRows' = requestRows, result' = result,
         deleted' = deleted
  PROVE  LogInv'
<1>. DEFINE request == adding[o]
<1>1. /\ request \in Request
      /\ request \in requestRows
      /\ request.results \subseteq Results
      /\ \A r \in request.results : result[r] = "stored"
  BY DEF LogInv, TypeOK, LinksAccepted, ResultRows, Request
<1>2. \A q \in Request, r \in Results : <<q, r>> \in links' <=>
        <<q, r>> \in links \/ (q = request /\ r \in request.results)
  BY <1>1 DEF Linked
<1>. HIDE DEF request
<1>3. LinksJoinRows'
  BY <1>1, <1>2 DEF LogInv, LinksJoinRows
<1>4. WholeOrNothing'
  <2>. SUFFICES ASSUME NEW q \in requestRows, q.operation \in Kept, HasLink(q)',
                       NEW r \in q.results
                PROVE  <<q, r>> \in links'
    BY DEF WholeOrNothing, Kept
  <2>1. q \in Request /\ r \in Results
    BY DEF LogInv, TypeOK, Request
  <2>2. CASE q = request
    BY <1>2, <2>1, <2>2
  <2>3. CASE q # request
    <3>1. HasLink(q)
      BY <1>2, <2>1, <2>3 DEF HasLink
    <3>. QED
      BY <1>2, <2>1, <3>1 DEF LogInv, WholeOrNothing
  <2>. QED
    BY <2>2, <2>3
<1>5. AddedIsLinked'
  <2>. SUFFICES ASSUME NEW p \in Kept, stage'[p] = "idle", adding[p].index > 0,
                       NEW r \in adding[p].results
                PROVE  <<adding[p], r>> \in links'
    BY DEF AddedIsLinked, Kept
  <2>1. adding[p] \in Request /\ r \in Results
    BY DEF LogInv, TypeOK, Request, Kept
  <2>2. CASE p = o
    BY <1>2, <2>1, <2>2 DEF request
  <2>3. CASE p # o
    BY <1>2, <2>1, <2>3 DEF LogInv, AddedIsLinked, TypeOK, Kept
  <2>. QED
    BY <2>2, <2>3
<1>6. RequestsHaveResults'
  BY DEF LogInv, RequestsHaveResults, TypeOK
<1>. QED
  BY <1>3, <1>4, <1>5, <1>6 DEF LogInv

\* A deletion keeps every link of the operations that are kept.
LEMMA DeletionKeepsLinks ==
  ASSUME LogInv, NEW o \in Operations, NEW request \in requestRows,
         request.operation # o, NEW r \in Results, <<request, r>> \in links
  PROVE  <<request, r>> \in LinksAfterDeletion(o)
<1>1. r \in ResultsOf(o) => r \in SharedResults(o)
  BY DEF SharedResults
<1>. QED
  BY <1>1 DEF LinksAfterDeletion

LEMMA DeleteLogInv ==
  ASSUME LogInv, TypeOK', NEW o \in Operations, DeleteOperation(o)
  PROVE  LogInv'
<1>1. /\ links' = LinksAfterDeletion(o)
      /\ links' \subseteq links
      /\ deleted' = deleted \cup {o}
      /\ stage' = stage /\ adding' = adding
  BY DEF DeleteOperation, LinksAfterDeletion, manager
<1>2. ASSUME NEW request \in Request, NEW r \in Results, <<request, r>> \in links'
      PROVE  /\ request \in requestRows'
             /\ result'[r] = result[r]
  <2>1. request \in requestRows
    BY <1>1, <1>2 DEF LogInv, LinksJoinRows
  <2>2. \E link \in links' : link[1] = request
    BY <1>2
  <2>3. \E link \in links' : link[2] = r
    BY <1>2
  <2>. QED
    BY <2>1, <2>2, <2>3 DEF DeleteOperation
<1>3. LinksJoinRows'
  BY <1>1, <1>2 DEF LogInv, LinksJoinRows
<1>4. Kept' = Kept \ {o}
  BY <1>1 DEF Kept
<1>5. requestRows' \subseteq requestRows
  BY DEF DeleteOperation
<1>6. WholeOrNothing'
  <2>. SUFFICES ASSUME NEW request \in requestRows', request.operation \in Kept',
                       HasLink(request)', NEW r \in request.results
                PROVE  <<request, r>> \in links'
    BY DEF WholeOrNothing
  <2>1. request \in requestRows /\ r \in Results /\ request.operation # o
        /\ request.operation \in Kept
    BY <1>4, <1>5 DEF LogInv, TypeOK, Request
  <2>2. HasLink(request)
    BY <1>1 DEF HasLink
  <2>3. <<request, r>> \in links
    BY <2>1, <2>2 DEF LogInv, WholeOrNothing
  <2>. QED
    BY <1>1, <2>1, <2>3, DeletionKeepsLinks
<1>7. AddedIsLinked'
  <2>. SUFFICES ASSUME NEW p \in Kept', stage[p] = "idle", adding[p].index > 0,
                       NEW r \in adding[p].results
                PROVE  <<adding[p], r>> \in links'
    BY <1>1 DEF AddedIsLinked
  <2>1. p \in Kept /\ p # o /\ p \in Operations
    BY <1>4 DEF Kept
  <2>2. adding[p] \in Request /\ r \in Results
    BY <2>1 DEF LogInv, TypeOK, Request
  <2>3. <<adding[p], r>> \in links
    BY <2>1 DEF LogInv, AddedIsLinked
  <2>4. adding[p] \in requestRows /\ adding[p].operation = p
    BY <2>1, <2>2, <2>3 DEF LogInv, LinksJoinRows, RequestsHaveResults
  <2>. QED
    BY <1>1, <2>1, <2>2, <2>3, <2>4, DeletionKeepsLinks
<1>8. RequestsHaveResults'
  BY <1>1 DEF LogInv, RequestsHaveResults
<1>. QED
  BY <1>3, <1>6, <1>7, <1>8 DEF LogInv

\* A step of addMeasurement that links nothing and returns nothing.
LEMMA ProgressLogInv ==
  ASSUME LogInv, TypeOK', NEW o \in Operations, stage[o] # "idle",
         stage'[o] # "idle",
         stage'[o] \notin {"inserting", "stopped"} => adding[o].results # {},
         \A p \in Operations : p # o => stage'[p] = stage[p],
         UNCHANGED <<requestRows, links, adding, deleted>>,
         \A r \in Results : result[r] = "stored" => result'[r] = "stored"
  PROVE  LogInv'
<1>1. LinksJoinRows' /\ WholeOrNothing'
  BY DEF LogInv, LinksJoinRows, WholeOrNothing, HasLink, Kept
<1>2. AddedIsLinked' /\ RequestsHaveResults'
  BY DEF LogInv, TypeOK, AddedIsLinked, RequestsHaveResults, Kept
<1>. QED
  BY <1>1, <1>2 DEF LogInv

\* What is linked or was returned from has results.
LEMMA IdleIfNone ==
  ASSUME LogInv, NEW o \in Operations, stage[o] \in {"replaying", "linking"}
  PROVE  adding[o].index > 0 /\ adding[o].results # {}
<1>1. adding[o].index \in Nat /\ adding[o].index # 0
  BY SampleStoreAssumption DEF LogInv, TypeOK, Request, RequestsHaveResults
<1>. QED
  BY <1>1 DEF LogInv, RequestsHaveResults

LEMMA NextLogInv ==
  ASSUME MySQL, LogInv, [Next]_vars
  PROVE  LogInv'
<1>1. TypeOK'
  BY NextTyped DEF LogInv
<1>2. CASE UNCHANGED vars
  BY <1>1, <1>2, RowsUnchangedLogInv DEF vars, rows, manager
<1>3. ASSUME NEW o \in Operations,
             \/ OperationCreated(o) \/ OperationStarts(o)
             \/ OperationFinishes(o) \/ DeletionPassesCheck(o)
      PROVE  LogInv'
  BY <1>1, <1>3, RowsUnchangedLogInv
     DEF OperationCreated, OperationStarts, OperationFinishes, DeletionPassesCheck
<1>4. ASSUME NEW o \in Operations, ManagerStops(o) PROVE LogInv'
  <2>1. stage[o] # "idle" /\ stage'[o] = "stopped"
        /\ \A p \in Operations : p # o => stage'[p] = stage[p]
    BY <1>4 DEF ManagerStops, LogInv, TypeOK
  <2>. QED
    BY <1>1, <1>4, <2>1, ProgressLogInv DEF ManagerStops, rows, metastore
<1>5. ASSUME NEW o \in Operations, AddMeasured(o) PROVE LogInv'
  <2>1. PICK results \in SUBSET {r \in Results : result[r] = "new"} :
          /\ InsertRequest(o, results, FALSE)
          /\ result' = [r \in Results |->
               IF r \in results THEN "measured" ELSE result[r]]
    BY <1>5 DEF AddMeasured
  <2>2. \A r \in Results : result[r] = "stored" => result'[r] = "stored"
    BY <2>1
  <2>. QED
    BY <1>1, <2>1, <2>2, InsertLogInv
<1>6. ASSUME NEW o \in Operations, AddReplayed(o) PROVE LogInv'
  <2>1. PICK r \in Results : InsertRequest(o, {r}, TRUE) /\ UNCHANGED result
    BY <1>6 DEF AddReplayed
  <2>. QED
    BY <1>1, <2>1, InsertLogInv
<1>7. ASSUME NEW o \in Operations, LinkReplayed(o) PROVE LogInv'
  <2>1. CASE LinksAccepted(adding[o])
    BY <1>1, <1>7, <2>1, LinkLogInv DEF LinkReplayed, metastore
  <2>2. CASE ~LinksAccepted(adding[o])
    <3>1. stage[o] # "idle" /\ stage'[o] = "inserting"
          /\ \A p \in Operations : p # o => stage'[p] = stage[p]
      BY <1>7, <2>2 DEF LinkReplayed, LogInv, TypeOK
    <3>. QED
      BY <1>1, <1>7, <2>2, <3>1, ProgressLogInv DEF LinkReplayed, metastore
  <2>. QED
    BY <2>1, <2>2
<1>8. ASSUME NEW o \in Operations, InsertResults(o) PROVE LogInv'
  <2>1. \A r \in Results : result[r] = "stored" => result'[r] = "stored"
    BY <1>8 DEF InsertResults
  <2>2. /\ stage[o] # "idle" /\ stage'[o] # "idle"
        /\ stage'[o] # "stopped" => adding[o].results # {}
        /\ \A p \in Operations : p # o => stage'[p] = stage[p]
    BY <1>8 DEF InsertResults, LogInv, TypeOK
  <2>. QED
    BY <1>1, <1>8, <2>1, <2>2, ProgressLogInv DEF InsertResults, metastore
<1>9. ASSUME NEW o \in Operations, LinkResults(o) PROVE LogInv'
  <2>1. CASE LinksAccepted(adding[o])
    BY <1>1, <1>9, <2>1, LinkLogInv DEF LinkResults, metastore
  <2>2. CASE ~LinksAccepted(adding[o])
    <3>1. stage[o] # "idle" /\ stage'[o] # "idle" /\ adding[o].results # {}
          /\ \A p \in Operations : p # o => stage'[p] = stage[p]
      BY <1>9, <2>2, IdleIfNone DEF LinkResults, LogInv, TypeOK
    <3>. QED
      BY <1>1, <1>9, <2>2, <3>1, ProgressLogInv DEF LinkResults, metastore
  <2>. QED
    BY <2>1, <2>2
<1>10. ASSUME NEW o \in Operations, DeleteOperation(o) PROVE LogInv'
  BY <1>1, <1>10, DeleteLogInv
<1>. QED
  BY <1>2, <1>3, <1>4, <1>5, <1>6, <1>7, <1>8, <1>9, <1>10 DEF Next

\* What was linked is read with all of its results.
LEMMA LogInvReads == ASSUME LogInv PROVE AddedIsRead
<1>. SUFFICES ASSUME NEW o \in Kept, stage[o] = "idle", adding[o].index > 0
              PROVE  <<adding[o], adding[o].results>> \in RequestsRead(o)
  BY DEF AddedIsRead
<1>1. o \in Operations /\ adding[o] \in Request
  BY DEF Kept, LogInv, TypeOK
<1>2. adding[o].results \subseteq Results /\ adding[o].results # {}
      /\ adding[o].operation = o
  BY <1>1 DEF Request, LogInv, RequestsHaveResults
<1>3. \A r \in Results : <<adding[o], r>> \in links <=> r \in adding[o].results
  BY <1>1, <1>2 DEF LogInv, AddedIsLinked, LinksJoinRows
<1>4. adding[o] \in requestRows
  BY <1>1, <1>2, <1>3 DEF LogInv, LinksJoinRows
<1>5. ResultsRead(adding[o]) = adding[o].results
  BY <1>1, <1>2, <1>3 DEF ResultsRead, ResultRows, LogInv, LinksJoinRows
<1>. QED
  BY <1>2, <1>4, <1>5 DEF RequestsRead

\* An added measurement is read whole until its own operation is deleted.
THEOREM AddedIsReadCorrect ==
  ASSUME MySQL PROVE Spec => []AddedIsRead
<1>1. Init => LogInv
  BY InitLogInv
<1>2. LogInv /\ [Next]_vars => LogInv'
  BY NextLogInv
<1>3. LogInv => AddedIsRead
  BY LogInvReads
<1>. QED
  BY <1>1, <1>2, <1>3, PTL DEF Spec

-----------------------------------------------------------------------------
(* The tables implement MeasurementLog.                                    *)

\* The requests of o that have a link, each with all of its results.
WholeRequests(o) ==
  {<<request, request.results>> :
     request \in {q \in Request : q.operation = o /\ HasLink(q)}}

\* What is read of a kept operation is its linked requests, each of them whole.
AllReadWhole == \A o \in Kept : RequestsRead(o) = WholeRequests(o)

LEMMA ReadWhole == LogInv => AllReadWhole
<1>. SUFFICES ASSUME LogInv, NEW o \in Kept
              PROVE  RequestsRead(o) = WholeRequests(o)
  BY DEF AllReadWhole
<1>1. ASSUME NEW q \in Request
      PROVE  /\ q.results \subseteq Results
             /\ \A r \in Results : r \in ResultsRead(q) <=> <<q, r>> \in links
             /\ HasLink(q) <=> ResultsRead(q) # {}
             /\ HasLink(q) => q \in requestRows
  BY DEF Request, ResultsRead, ResultRows, LogInv, LinksJoinRows, HasLink
<1>2. ASSUME NEW q \in Request, q.operation = o, HasLink(q)
      PROVE  ResultsRead(q) = q.results
  <2>1. \A r \in q.results : <<q, r>> \in links
    BY <1>1, <1>2 DEF LogInv, WholeOrNothing
  <2>2. \A r \in Results : <<q, r>> \in links => r \in q.results
    BY DEF LogInv, LinksJoinRows
  <2>. QED
    BY <1>1, <2>1, <2>2 DEF ResultsRead, ResultRows
<1>3. requestRows \subseteq Request
  BY DEF LogInv, TypeOK
<1>. QED
  BY <1>1, <1>2, <1>3 DEF RequestsRead, WholeRequests

LEMMA ReadWholeNext == LogInv' => AllReadWhole'
BY ReadWhole, PTL

\* Where the links stay as they are, so does what is read.
LEMMA SameLinks ==
  ASSUME LogInv, LogInv', links' = links, deleted' = deleted
  PROVE  UNCHANGED Log!vars
<1>1. \A o \in Kept : WholeRequests(o)' = WholeRequests(o)
  BY DEF WholeRequests, HasLink
<1>2. \A o \in Kept : RequestsRead(o)' = RequestsRead(o)
  BY <1>1, ReadWhole, ReadWholeNext DEF AllReadWhole, Kept
<1>. QED
  BY <1>2 DEF Log!vars, Kept

\* Linking a request records it, if its operation is kept.
LEMMA LinkRecords ==
  ASSUME LogInv, LogInv', NEW o \in Operations,
         stage[o] \in {"replaying", "linking"}, links' = Linked(adding[o]), deleted' = deleted
  PROVE  [Log!Next]_Log!vars
<1>. DEFINE request == adding[o]
<1>1. /\ request \in Request
      /\ request.operation = o
      /\ request.results \subseteq Results
      /\ request.results # {}
  <2>1. request \in Request
    BY DEF LogInv, TypeOK
  <2>2. request.index \in Nat /\ request.index # 0 /\ request.operation = o
    BY <2>1, SampleStoreAssumption DEF Request, LogInv, RequestsHaveResults
  <2>. QED
    BY <2>1, <2>2 DEF Request, LogInv, RequestsHaveResults
<1>. HIDE DEF request
<1>2. \A q \in Request : HasLink(q)' <=> HasLink(q) \/ q = request
  BY <1>1 DEF HasLink, Linked, request
<1>3. \A p \in Operations : p # o => WholeRequests(p)' = WholeRequests(p)
  BY <1>1, <1>2 DEF WholeRequests
<1>4. WholeRequests(o)' = WholeRequests(o) \cup {<<request, request.results>>}
  <2>1. {q \in Request : q.operation = o /\ HasLink(q)'} =
          {q \in Request : q.operation = o /\ HasLink(q)} \cup {request}
    BY <1>1, <1>2
  <2>. QED
    BY <2>1 DEF WholeRequests
<1>5. Kept' = Kept /\ Kept \subseteq Operations
  BY DEF Kept
<1>6. CASE o \in Kept
  <2>1. /\ \A p \in Kept : p # o => RequestsRead(p)' = RequestsRead(p)
        /\ RequestsRead(o)' = RequestsRead(o) \cup {<<request, request.results>>}
    BY <1>3, <1>4, <1>5, <1>6, ReadWhole, ReadWholeNext DEF AllReadWhole
  <2>2. o \notin deleted /\ UNCHANGED deleted
    BY <1>6 DEF Kept
  <2>3. Log!Record(o, <<request, request.results>>)
    BY <1>5, <1>6, <2>1, <2>2 DEF Log!Record
  <2>4. <<request, request.results>> \in Entries[o]
    <3>. DEFINE Due == [operation : {o}, index : 1 .. MaxRequests,
                        results : (SUBSET Results) \ {{}}, replayed : BOOLEAN]
    <3>1. request.index # 0
      BY DEF LogInv, RequestsHaveResults, request
    <3>2. request \in Due
      BY <1>1, <3>1, SampleStoreAssumption DEF Request
    <3>. QED
      BY <3>2 DEF Entries
  <2>5. \E entry \in Entries[o] : Log!Record(o, entry)
    BY <2>3, <2>4 DEF Log!Record
  <2>6. Log!Next
    BY <2>5, Zenon DEF Log!Next
  <2>. QED
    BY <2>6
<1>7. CASE o \notin Kept
  <2>1. \A p \in Kept : RequestsRead(p)' = RequestsRead(p)
    BY <1>3, <1>5, <1>7, ReadWhole, ReadWholeNext DEF AllReadWhole
  <2>. QED
    BY <1>5, <2>1 DEF Log!vars
<1>. QED
  BY <1>6, <1>7

\* Deleting an operation forgets it and leaves the logs of the others.
LEMMA DeleteForgets ==
  ASSUME LogInv, LogInv', NEW o \in Operations, DeleteOperation(o)
  PROVE  Log!Forget(o)
<1>1. /\ links' = LinksAfterDeletion(o)
      /\ links' \subseteq links
      /\ deleted' = deleted \cup {o}
      /\ Kept' = Kept \ {o}
  BY DEF DeleteOperation, LinksAfterDeletion, Kept
<1>2. ASSUME NEW p \in Kept', NEW q \in Request, q.operation = p
      PROVE  HasLink(q)' <=> HasLink(q)
  <2>1. ASSUME NEW r \in Results, <<q, r>> \in links PROVE <<q, r>> \in links'
    <3>1. q \in requestRows /\ q.operation # o
      BY <1>1, <1>2, <2>1 DEF LogInv, LinksJoinRows
    <3>. QED
      BY <1>1, <2>1, <3>1, DeletionKeepsLinks
  <2>. QED
    BY <1>1, <2>1 DEF HasLink
<1>3. \A p \in Kept' : WholeRequests(p)' = WholeRequests(p)
  BY <1>2 DEF WholeRequests
<1>4. \A p \in Kept' : RequestsRead(p)' = RequestsRead(p)
  BY <1>1, <1>3, ReadWhole, ReadWholeNext DEF AllReadWhole
<1>. QED
  BY <1>1, <1>4 DEF Log!Forget, Kept

LEMMA StepImplementsLog ==
  ASSUME LogInv, LogInv', [Next]_vars
  PROVE  [Log!Next]_Log!vars
<1>1. CASE UNCHANGED vars
  BY <1>1, SameLinks DEF vars
<1>2. ASSUME NEW o \in Operations,
             \/ OperationCreated(o) \/ OperationStarts(o)
             \/ OperationFinishes(o) \/ ManagerStops(o)
             \/ AddMeasured(o) \/ AddReplayed(o) \/ InsertResults(o)
             \/ DeletionPassesCheck(o)
      PROVE  [Log!Next]_Log!vars
  BY <1>2, SameLinks
     DEF OperationCreated, OperationStarts, OperationFinishes, ManagerStops,
         AddMeasured, AddReplayed, InsertRequest, InsertResults, DeletionPassesCheck, rows,
         metastore
<1>3. ASSUME NEW o \in Operations, LinkReplayed(o) \/ LinkResults(o)
      PROVE  [Log!Next]_Log!vars
  <2>1. CASE links' = links
    BY <1>3, <2>1, SameLinks DEF LinkReplayed, LinkResults, metastore
  <2>2. CASE links' = Linked(adding[o])
    BY <1>3, <2>2, LinkRecords DEF LinkReplayed, LinkResults, metastore
  <2>. QED
    BY <1>3, <2>1, <2>2 DEF LinkReplayed, LinkResults
<1>4. ASSUME NEW o \in Operations, DeleteOperation(o)
      PROVE  [Log!Next]_Log!vars
  BY <1>4, DeleteForgets DEF Log!Next
<1>. QED
  BY <1>1, <1>2, <1>3, <1>4 DEF Next

\* Reading an operation's requests shows a log into which requests come whole
\* and out of which nothing goes but the operations that are deleted.
THEOREM Refinement ==
  ASSUME MySQL PROVE Spec => ImplementsLog
<1>1. Init => LogInv
  BY InitLogInv
<1>2. Init => Log!Init
  BY DEF Init, Log!Init, RequestsRead, Kept
<1>3. LogInv /\ [Next]_vars => LogInv'
  BY NextLogInv
<1>4. LogInv /\ LogInv' /\ [Next]_vars => [Log!Next]_Log!vars
  BY StepImplementsLog
<1>. QED
  BY <1>1, <1>2, <1>3, <1>4, PTL DEF Spec, ImplementsLog, Log!Spec

-----------------------------------------------------------------------------
(* The check of deletions without --force protects what runs.              *)

LEMMA NextRunning ==
  ASSUME TypeOK, RunningInv, [Next]_vars PROVE RunningInv'
<1>1. CASE UNCHANGED <<status, harness, deleted>>
  BY <1>1 DEF RunningInv, Kept
<1>2. ASSUME NEW o \in Operations,
             \/ OperationCreated(o) \/ OperationStarts(o)
             \/ OperationFinishes(o)
      PROVE  RunningInv'
  BY <1>2 DEF OperationCreated, OperationStarts, OperationFinishes, RunningInv,
     Kept, TypeOK
<1>3. ASSUME NEW o \in Operations, DeleteOperation(o) PROVE RunningInv'
  BY <1>3 DEF DeleteOperation, RunningInv, Kept, TypeOK
<1>. QED
  BY <1>1, <1>2, <1>3
     DEF Next, vars, metastore, ManagerStops, AddMeasured, AddReplayed,
         InsertRequest, LinkReplayed, InsertResults, LinkResults,
         DeletionPassesCheck

LEMMA InitMeasuring == ASSUME Init PROVE MeasuringInv
BY DEF Init, MeasuringInv

LEMMA InsertMeasuring ==
  ASSUME TypeOK, MeasuringInv, NEW o \in Operations,
         NEW results \in SUBSET Results, NEW replayed \in BOOLEAN,
         InsertRequest(o, results, replayed),
         replayed => result' = result /\ \A r \in results : result[r] \in {"stored", "deleted"},
         ~replayed =>
           /\ \A r \in results : result[r] = "new"
           /\ result' = [r \in Results |->
                IF r \in results THEN "measured" ELSE result[r]]
  PROVE  MeasuringInv'
<1>. DEFINE request == [operation |-> o, index |-> adding[o].index + 1,
                        results |-> results, replayed |-> replayed]
<1>1. /\ adding' = [adding EXCEPT ![o] = request]
      /\ stage' = [stage EXCEPT ![o] = IF replayed THEN "replaying" ELSE "inserting"]
      /\ harness' = harness
      /\ harness[o] \in {"running", "ended"}
  BY DEF InsertRequest, metastore
<1>2. request.results = results /\ request.replayed = replayed
  OBVIOUS
<1>. HIDE DEF request
<1>3. /\ adding'[o] = request
      /\ stage'[o] = (IF replayed THEN "replaying" ELSE "inserting")
      /\ \A p \in Operations : p # o => stage'[p] = stage[p] /\ adding'[p] = adding[p]
  BY <1>1 DEF TypeOK
<1>4. \A r \in Results :
        /\ result[r] # "new" => result'[r] = result[r]
        /\ ~replayed /\ r \in results => result'[r] = "measured"
  BY DEF TypeOK
<1>5. \A p \in Operations : adding[p].results \subseteq Results
  BY DEF TypeOK, Request
<1>6. ASSUME NEW p \in Operations
      PROVE  /\ harness'[p] \in {"before", "created"} => stage'[p] = "idle"
             /\ stage'[p] = "inserting" /\ ~adding'[p].replayed =>
                  \A r \in adding'[p].results : result'[r] = "measured"
             /\ adding'[p].replayed =>
                  \A r \in adding'[p].results : result'[r] \in {"stored", "deleted"}
  <2>1. CASE p = o
    BY <1>1, <1>2, <1>3, <1>4, <2>1
  <2>2. CASE p # o
    BY <1>1, <1>3, <1>4, <1>5, <2>2 DEF MeasuringInv
  <2>. QED
    BY <2>1, <2>2
<1>7. ASSUME NEW p \in Operations, p # o, stage[p] = "inserting",
             ~adding[p].replayed, ~replayed
      PROVE  adding[p].results \cap results = {}
  BY <1>7 DEF MeasuringInv
<1>8. ASSUME NEW p \in Operations, NEW q \in Operations, p # q,
             stage'[p] = "inserting", ~adding'[p].replayed,
             stage'[q] = "inserting", ~adding'[q].replayed
      PROVE  adding'[p].results \cap adding'[q].results = {}
  <2>1. CASE p # o /\ q # o
    BY <1>3, <1>8, <2>1 DEF MeasuringInv
  <2>2. CASE p = o
    BY <1>2, <1>3, <1>7, <1>8, <2>2
  <2>3. CASE q = o
    BY <1>2, <1>3, <1>7, <1>8, <2>3
  <2>. QED
    BY <2>1, <2>2, <2>3
<1>9. \A p \in Operations : stage'[p] = "replaying" => adding'[p].replayed
  BY <1>2, <1>3 DEF MeasuringInv
<1>. QED
  BY <1>6, <1>8, <1>9 DEF MeasuringInv

LEMMA NextMeasuring ==
  ASSUME TypeOK, MeasuringInv, [Next]_vars PROVE MeasuringInv'
<1>1. CASE UNCHANGED <<result, stage, adding, harness>>
  BY <1>1 DEF MeasuringInv
<1>2. ASSUME NEW o \in Operations,
             OperationCreated(o) \/ OperationStarts(o) \/ OperationFinishes(o)
      PROVE  MeasuringInv'
  BY <1>2 DEF OperationCreated, OperationStarts, OperationFinishes, MeasuringInv,
     rows, manager, TypeOK
<1>3. ASSUME NEW o \in Operations,
             ManagerStops(o) \/ LinkReplayed(o) \/ LinkResults(o)
      PROVE  MeasuringInv'
  <2>1. /\ UNCHANGED <<result, adding, harness>>
        /\ stage[o] \in {"replaying", "inserting", "linking"}
        /\ stage'[o] = "inserting" => stage[o] = "replaying"
        /\ \A p \in Operations : p # o => stage'[p] = stage[p]
    BY <1>3 DEF ManagerStops, LinkReplayed, LinkResults, rows, metastore, TypeOK
  <2>2. stage[o] = "replaying" => adding[o].replayed
    BY DEF MeasuringInv
  <2>3. stage'[o] = "replaying" => stage[o] = "replaying"
    BY <1>3 DEF ManagerStops, LinkReplayed, LinkResults, TypeOK
  <2>. QED
    BY <2>1, <2>2, <2>3 DEF MeasuringInv
<1>4. ASSUME NEW o \in Operations, AddMeasured(o) PROVE MeasuringInv'
  <2>1. PICK results \in SUBSET {r \in Results : result[r] = "new"} :
          /\ InsertRequest(o, results, FALSE)
          /\ result' = [r \in Results |->
               IF r \in results THEN "measured" ELSE result[r]]
    BY <1>4 DEF AddMeasured
  <2>. QED
    BY <2>1, InsertMeasuring
<1>5. ASSUME NEW o \in Operations, AddReplayed(o) PROVE MeasuringInv'
  <2>1. PICK r \in Results :
          /\ result[r] \in {"stored", "deleted"}
          /\ InsertRequest(o, {r}, TRUE)
          /\ UNCHANGED result
    BY <1>5 DEF AddReplayed
  <2>. DEFINE S == {r}
  <2>2. S \in SUBSET Results /\ InsertRequest(o, S, TRUE)
        /\ \A x \in S : result[x] \in {"stored", "deleted"}
    BY <2>1
  <2>. HIDE DEF S
  <2>. QED
    BY <2>1, <2>2, InsertMeasuring
<1>6. ASSUME NEW o \in Operations, InsertResults(o) PROVE MeasuringInv'
  <2>1. /\ UNCHANGED <<adding, harness>>
        /\ stage[o] = "inserting" /\ stage'[o] \notin {"inserting", "replaying"}
        /\ \A p \in Operations : p # o => stage'[p] = stage[p]
        /\ \A p \in Operations : adding[p].results \subseteq Results
    BY <1>6 DEF InsertResults, metastore, TypeOK, Request
  <2>2. \A r \in Results : result'[r] # result[r] =>
          r \in adding[o].results /\ result'[r] = "stored"
    BY <1>6 DEF InsertResults, TypeOK
  <2>3. ASSUME NEW p \in Operations, p # o, stage[p] = "inserting", ~adding[p].replayed
        PROVE  \A r \in adding[p].results : result'[r] = "measured"
    BY <2>1, <2>2, <2>3 DEF MeasuringInv
  <2>. QED
    BY <2>1, <2>2, <2>3 DEF MeasuringInv
<1>7. ASSUME NEW o \in Operations, DeleteOperation(o) PROVE MeasuringInv'
  <2>1. /\ UNCHANGED <<stage, adding, harness>>
        /\ \A r \in Results : result'[r] # result[r] =>
             result[r] = "stored" /\ result'[r] = "deleted"
        /\ \A p \in Operations : adding[p].results \subseteq Results
    BY <1>7 DEF DeleteOperation, manager, TypeOK, Request
  <2>. QED
    BY <2>1 DEF MeasuringInv
<1>. QED
  BY <1>1, <1>2, <1>3, <1>4, <1>5, <1>6, <1>7
     DEF Next, vars, rows, manager, DeletionPassesCheck

LEMMA InitProtected == ASSUME Init PROVE ProtectedInv
BY DEF Init, ProtectedInv, Protected

\* Steps that take neither a row nor a check.
LEMMA ProtectedStays ==
  ASSUME ProtectedInv, UNCHANGED <<manager, checked>>, requestRows \subseteq requestRows',
         \A r \in ResultRows : r \in ResultRows',
         \A o \in Operations : Protected(o)' => Protected(o)
  PROVE  ProtectedInv'
BY DEF ProtectedInv, manager

LEMMA NextProtected ==
  ASSUME TypeOK, RunningInv, MeasuringInv, ProtectedInv, [Next]_vars
  PROVE  ProtectedInv'
<1>1. CASE UNCHANGED vars
  BY <1>1 DEF ProtectedInv, Protected, Kept, ResultRows, vars
<1>2. ASSUME NEW o \in Operations, OperationCreated(o) \/ OperationFinishes(o)
      PROVE  ProtectedInv'
  <2>1. \A p \in Operations : Protected(p)' => Protected(p)
    BY <1>2 DEF OperationCreated, OperationFinishes, Protected, Kept, TypeOK
  <2>. QED
    BY <1>2, <2>1, ProtectedStays
       DEF OperationCreated, OperationFinishes, rows, ResultRows
<1>3. ASSUME NEW o \in Operations, OperationStarts(o) PROVE ProtectedInv'
  <2>1. stage[o] = "idle"
    BY <1>3 DEF OperationStarts, MeasuringInv
  <2>2. /\ UNCHANGED <<requestRows, result, stage, adding, checked, deleted>>
        /\ \A p \in Operations : p # o => harness'[p] = harness[p]
        /\ exposed \subseteq exposed'
        /\ checked # {} /\ o \in Kept => o \in exposed'
    BY <1>3 DEF OperationStarts, rows, manager, Kept, TypeOK
  <2>3. \A p \in Operations : p # o /\ Protected(p)' => Protected(p)
    BY <2>2 DEF Protected, Kept
  <2>4. Protected(o)' => checked = {}
    BY <2>2 DEF Protected, Kept
  <2>. QED
    BY <2>1, <2>2, <2>3, <2>4 DEF ProtectedInv, ResultRows
<1>4. ASSUME NEW o \in Operations, ManagerStops(o) PROVE ProtectedInv'
  <2>1. /\ UNCHANGED <<requestRows, result, adding, checked, deleted, exposed, harness>>
        /\ stage'[o] = "stopped"
        /\ \A p \in Operations : p # o => stage'[p] = stage[p]
    BY <1>4 DEF ManagerStops, rows, metastore, TypeOK
  <2>. QED
    BY <2>1 DEF ProtectedInv, Protected, Kept, ResultRows
<1>5. ASSUME NEW o \in Operations, AddMeasured(o) \/ AddReplayed(o)
      PROVE  ProtectedInv'
  <2>1. PICK results \in SUBSET Results, replayed \in BOOLEAN :
          InsertRequest(o, results, replayed)
    <3>1. CASE AddMeasured(o)
      BY <3>1 DEF AddMeasured
    <3>2. CASE AddReplayed(o)
      <4>1. PICK r \in Results : InsertRequest(o, {r}, TRUE)
        BY <3>2 DEF AddReplayed
      <4>. DEFINE S == {r}
      <4>2. S \in SUBSET Results /\ InsertRequest(o, S, TRUE)
        BY <4>1
      <4>. HIDE DEF S
      <4>. QED
        BY <4>2
    <3>. QED
      BY <1>5, <3>1, <3>2
  <2>. DEFINE request == [operation |-> o, index |-> adding[o].index + 1,
                          results |-> results, replayed |-> replayed]
  <2>2. /\ requestRows' = requestRows \cup {request}
        /\ adding' = [adding EXCEPT ![o] = request]
        /\ stage' = [stage EXCEPT ![o] = IF replayed THEN "replaying" ELSE "inserting"]
        /\ UNCHANGED <<checked, deleted, exposed, harness>>
    BY <2>1 DEF InsertRequest, metastore
  <2>3. request.replayed = replayed
    OBVIOUS
  <2>. HIDE DEF request
  <2>4. /\ adding'[o] = request
        /\ stage'[o] = (IF replayed THEN "replaying" ELSE "inserting")
        /\ \A p \in Operations : p # o => stage'[p] = stage[p] /\ adding'[p] = adding[p]
    BY <2>2 DEF TypeOK
  <2>5. \A r \in Results : result[r] = "stored" => result'[r] = "stored"
    BY <1>5 DEF AddMeasured, AddReplayed
  <2>. QED
    BY <2>2, <2>3, <2>4, <2>5 DEF ProtectedInv, Protected, Kept, ResultRows
<1>6. ASSUME NEW o \in Operations, LinkReplayed(o) \/ InsertResults(o) \/ LinkResults(o)
      PROVE  ProtectedInv'
  <2>1. /\ UNCHANGED <<requestRows, adding, checked, deleted, exposed, harness>>
        /\ \A p \in Operations : p # o => stage'[p] = stage[p]
        /\ \A r \in Results : result[r] = "stored" => result'[r] = "stored"
        /\ adding[o].results \subseteq Results
    BY <1>6 DEF LinkReplayed, InsertResults, LinkResults, metastore, TypeOK, Request
  <2>2. ASSUME Protected(o), ~adding[o].replayed
        PROVE  /\ stage'[o] # "failed"
               /\ stage'[o] \in {"inserting", "linking"} => adding[o] \in requestRows
               /\ stage'[o] = "linking" => adding[o].results \subseteq ResultRows'
    <3>1. ~LinkReplayed(o)
      BY <2>2 DEF LinkReplayed, MeasuringInv
    <3>2. CASE InsertResults(o)
      <4>1. adding[o].results \cap ResultRows = {} /\ adding[o] \in requestRows
        BY <2>2, <3>2 DEF InsertResults, MeasuringInv, ResultRows, ProtectedInv
      <4>. QED
        BY <2>1, <3>2, <4>1 DEF InsertResults, ResultRows, TypeOK
    <3>3. CASE LinkResults(o)
      <4>1. LinksAccepted(adding[o])
        BY <2>2, <3>3 DEF LinkResults, LinksAccepted, ProtectedInv
      <4>. QED
        BY <3>3, <4>1 DEF LinkResults, TypeOK
    <3>. QED
      BY <1>6, <3>1, <3>2, <3>3
  <2>. QED
    BY <2>1, <2>2 DEF ProtectedInv, Protected, Kept, ResultRows
<1>7. ASSUME NEW o \in Operations, DeletionPassesCheck(o) PROVE ProtectedInv'
  <2>1. UNCHANGED <<rows, manager, status, harness, deleted, exposed>> /\ Running = {}
    BY <1>7 DEF DeletionPassesCheck
  <2>2. \A p \in Operations : ~Protected(p)
    BY <2>1 DEF Protected, RunningInv, Running, Kept
  <2>. QED
    BY <2>1, <2>2 DEF ProtectedInv, Protected, Kept
<1>8. ASSUME NEW o \in Operations, DeleteOperation(o) PROVE ProtectedInv'
  <2>1. ASSUME NEW p \in Operations, Protected(p)' PROVE FALSE
    <3>1. p # o /\ p \in Kept /\ harness[p] = "running"
      BY <1>8, <2>1 DEF DeleteOperation, Protected, Kept
    <3>2. o \in checked /\ p \notin exposed
      BY <1>8, <2>1, <3>1 DEF DeleteOperation, Protected
    <3>. QED
      BY <3>1, <3>2 DEF ProtectedInv, Protected
  <2>. QED
    BY <2>1 DEF ProtectedInv
<1>. QED
  BY <1>1, <1>2, <1>3, <1>4, <1>5, <1>6, <1>7, <1>8 DEF Next

\* While an operation runs, no deletion makes a transaction of its own
\* measurements fail but one that is forced, or one whose check came before the
\* operation's start.
THEOREM CheckProtectsCorrect == Spec => []CheckProtects
<1>. DEFINE IInv == TypeOK /\ RunningInv /\ MeasuringInv /\ ProtectedInv
<1>1. Init => IInv
  BY InitTyped, InitMeasuring, InitProtected DEF Init, RunningInv, Kept
<1>2. IInv /\ [Next]_vars => IInv'
  BY NextTyped, NextRunning, NextMeasuring, NextProtected
<1>3. IInv => CheckProtects
  BY DEF ProtectedInv, Protected, CheckProtects, Kept
<1>. QED
  BY <1>1, <1>2, <1>3, PTL DEF Spec

-----------------------------------------------------------------------------
(* Only deletions make transactions fail.                                  *)

LEMMA InitUndisturbed == ASSUME Init PROVE UndisturbedInv
<1>1. \A r \in Results : result[r] # "deleted"
  BY DEF Init
<1>2. \A o \in Operations : stage[o] = "idle"
  BY DEF Init
<1>. QED
  BY <1>1, <1>2 DEF UndisturbedInv, InFlight

\* A request with new results, or with one that has a row.
LEMMA InsertUndisturbed ==
  ASSUME TypeOK, UndisturbedInv, deleted = {}, NEW o \in Operations,
         AddMeasured(o) \/ AddReplayed(o)
  PROVE  UndisturbedInv'
<1>1. PICK results \in SUBSET Results, replayed \in BOOLEAN :
        /\ InsertRequest(o, results, replayed)
        /\ \/ /\ ~replayed
              /\ \A r \in results : result[r] = "new"
              /\ result' = [r \in Results |->
                   IF r \in results THEN "measured" ELSE result[r]]
           \/ /\ replayed
              /\ \A r \in results : result[r] = "stored"
              /\ UNCHANGED result
  <2>1. CASE AddMeasured(o)
    <3>1. PICK results \in SUBSET {r \in Results : result[r] = "new"} :
            /\ InsertRequest(o, results, FALSE)
            /\ result' = [r \in Results |->
                 IF r \in results THEN "measured" ELSE result[r]]
      BY <2>1 DEF AddMeasured
    <3>. QED
      BY <3>1
  <2>2. CASE AddReplayed(o)
    <3>1. PICK r \in Results :
            /\ result[r] \in {"stored", "deleted"}
            /\ InsertRequest(o, {r}, TRUE)
            /\ UNCHANGED result
      BY <2>2 DEF AddReplayed
    <3>2. result[r] = "stored"
      BY <3>1 DEF UndisturbedInv
    <3>3. {r} \in SUBSET Results /\ \A x \in {r} : result[x] = "stored"
      BY <3>2
    <3>. DEFINE S == {r}
    <3>4. S \in SUBSET Results /\ InsertRequest(o, S, TRUE)
          /\ \A x \in S : result[x] = "stored"
      BY <3>1, <3>3
    <3>. HIDE DEF S
    <3>. QED
      BY <3>1, <3>4
  <2>. QED
    BY <2>1, <2>2
<1>. DEFINE request == [operation |-> o, index |-> adding[o].index + 1,
                        results |-> results, replayed |-> replayed]
<1>2. /\ requestRows' = requestRows \cup {request}
      /\ adding' = [adding EXCEPT ![o] = request]
      /\ stage[o] = "idle"
      /\ stage' = [stage EXCEPT ![o] =
           IF replayed THEN "replaying" ELSE "inserting"]
      /\ deleted' = deleted
  BY <1>1 DEF InsertRequest, metastore
<1>3. request.results = results
  OBVIOUS
<1>. HIDE DEF request
<1>4. /\ adding'[o] = request
      /\ stage'[o] = IF replayed THEN "replaying" ELSE "inserting"
      /\ \A p \in Operations : p # o => stage'[p] = stage[p] /\ adding'[p] = adding[p]
  BY <1>2 DEF TypeOK
<1>5. \A r \in Results :
        /\ result[r] # "new" => result'[r] = result[r]
        /\ ~replayed /\ r \in results => result'[r] = "measured"
        /\ result'[r] # "deleted"
        /\ replayed => result'[r] = result[r]
  BY <1>1 DEF UndisturbedInv
<1>6. \A p \in Operations : adding[p].results \subseteq Results
  BY DEF TypeOK, Request
<1>7. ASSUME NEW p \in Operations
      PROVE  /\ stage'[p] # "failed"
             /\ InFlight(p)' => adding'[p] \in requestRows'
             /\ stage'[p] \in {"replaying", "linking"} =>
                  adding'[p].results \subseteq ResultRows'
             /\ stage'[p] = "inserting" =>
                  \A r \in adding'[p].results : result'[r] = "measured"
  <2>1. CASE p = o
    BY <1>1, <1>2, <1>3, <1>4, <1>5, <2>1 DEF ResultRows
  <2>2. CASE p # o
    BY <1>2, <1>4, <1>5, <1>6, <2>2 DEF UndisturbedInv, InFlight, ResultRows
  <2>. QED
    BY <2>1, <2>2
<1>8. ASSUME NEW p \in Operations, p # o, stage[p] = "inserting", ~replayed
      PROVE  adding[p].results \cap results = {}
  BY <1>1, <1>8 DEF UndisturbedInv
<1>9. \A p, q \in Operations :
        p # q /\ stage'[p] = "inserting" /\ stage'[q] = "inserting" =>
          adding'[p].results \cap adding'[q].results = {}
  BY <1>3, <1>4, <1>8 DEF UndisturbedInv
<1>. QED
  BY <1>2, <1>5, <1>7, <1>9 DEF UndisturbedInv

\* A transaction of addMeasurement succeeds.
LEMMA TransactionUndisturbed ==
  ASSUME TypeOK, UndisturbedInv, deleted = {}, NEW o \in Operations,
         LinkReplayed(o) \/ InsertResults(o) \/ LinkResults(o)
  PROVE  UndisturbedInv'
<1>1. /\ deleted' = deleted /\ adding' = adding /\ requestRows' = requestRows
      /\ \A p \in Operations : p # o => stage'[p] = stage[p]
      /\ \A p \in Operations : adding[p].results \subseteq Results
  BY DEF LinkReplayed, InsertResults, LinkResults, metastore, TypeOK, Request
<1>2. CASE LinkReplayed(o) \/ LinkResults(o)
  <2>1. LinksAccepted(adding[o])
    BY <1>2 DEF UndisturbedInv, InFlight, LinksAccepted, LinkReplayed, LinkResults
  <2>2. stage'[o] = "idle" /\ result' = result
    BY <1>2, <2>1 DEF LinkReplayed, LinkResults, TypeOK
  <2>. QED
    BY <1>1, <2>2 DEF UndisturbedInv, InFlight, ResultRows
<1>4. CASE InsertResults(o) /\ adding[o].results = {}
  <2>1. stage'[o] = "stopped" /\ result' = result
    BY <1>4 DEF InsertResults, TypeOK
  <2>. QED
    BY <1>1, <2>1 DEF UndisturbedInv, InFlight, ResultRows
<1>3. CASE InsertResults(o) /\ adding[o].results # {}
  <2>1. adding[o].results \cap ResultRows = {}
    BY <1>3 DEF InsertResults, UndisturbedInv, ResultRows
  <2>2. /\ stage[o] = "inserting"
        /\ stage'[o] = "linking"
        /\ \A r \in Results : result'[r] =
             IF r \in adding[o].results THEN "stored" ELSE result[r]
    BY <1>3, <2>1 DEF InsertResults, TypeOK
  <2>3. ASSUME NEW p \in Operations
        PROVE  /\ stage'[p] # "failed"
               /\ InFlight(p)' => adding[p] \in requestRows
               /\ stage'[p] \in {"replaying", "linking"} =>
                    adding[p].results \subseteq ResultRows'
               /\ stage'[p] = "inserting" =>
                    \A r \in adding[p].results : result'[r] = "measured"
    <3>1. CASE p = o
      BY <1>1, <2>2, <3>1 DEF UndisturbedInv, InFlight, ResultRows
    <3>2. CASE p # o
      BY <1>1, <2>2, <3>2 DEF UndisturbedInv, InFlight, ResultRows
    <3>. QED
      BY <3>1, <3>2
  <2>4. \A r \in Results : result'[r] # "deleted"
    BY <2>2 DEF UndisturbedInv
  <2>5. \A p, q \in Operations :
          p # q /\ stage'[p] = "inserting" /\ stage'[q] = "inserting" =>
            adding[p].results \cap adding[q].results = {}
    BY <1>1, <2>2 DEF UndisturbedInv
  <2>. QED
    BY <1>1, <2>3, <2>4, <2>5 DEF UndisturbedInv
<1>. QED
  BY <1>2, <1>3, <1>4

LEMMA NextUndisturbed ==
  ASSUME TypeOK, UndisturbedInv, [Next]_vars PROVE UndisturbedInv'
<1>1. CASE deleted # {}
  <2>1. deleted' # {}
    BY <1>1 DEF Next, vars, metastore, ManagerStops, AddMeasured, AddReplayed,
       InsertRequest, LinkReplayed, InsertResults, LinkResults,
       OperationCreated, OperationStarts, OperationFinishes, DeletionPassesCheck, DeleteOperation
  <2>. QED
    BY <2>1 DEF UndisturbedInv
<1>2. CASE deleted = {}
  <2>1. CASE UNCHANGED <<rows, manager, deleted>>
    BY <2>1 DEF UndisturbedInv, InFlight, ResultRows, rows, manager
  <2>2. ASSUME NEW o \in Operations, ManagerStops(o) PROVE UndisturbedInv'
    <3>1. /\ UNCHANGED <<requestRows, result, adding, deleted>>
          /\ stage'[o] = "stopped"
          /\ \A p \in Operations : p # o => stage'[p] = stage[p]
      BY <2>2 DEF ManagerStops, rows, metastore, TypeOK
    <3>. QED
      BY <3>1 DEF UndisturbedInv, InFlight, ResultRows
  <2>3. ASSUME NEW o \in Operations, AddMeasured(o) \/ AddReplayed(o)
        PROVE  UndisturbedInv'
    BY <1>2, <2>3, InsertUndisturbed
  <2>4. ASSUME NEW o \in Operations,
               LinkReplayed(o) \/ InsertResults(o) \/ LinkResults(o)
        PROVE  UndisturbedInv'
    BY <1>2, <2>4, TransactionUndisturbed
  <2>5. ASSUME NEW o \in Operations, DeleteOperation(o) PROVE UndisturbedInv'
    BY <2>5 DEF DeleteOperation, UndisturbedInv
  <2>. QED
    BY <2>1, <2>2, <2>3, <2>4, <2>5
       DEF Next, vars, rows, manager, OperationCreated, OperationStarts,
           OperationFinishes,
           DeletionPassesCheck
<1>. QED
  BY <1>1, <1>2

\* Several operations that add and replay measurements at the same time never
\* make each other's transactions fail; only a deletion can.
THEOREM FailsOnlyByDeletionCorrect == Spec => []FailsOnlyByDeletion
<1>1. Init => TypeOK /\ UndisturbedInv
  BY InitTyped, InitUndisturbed
<1>2. TypeOK /\ UndisturbedInv /\ [Next]_vars => (TypeOK /\ UndisturbedInv)'
  BY NextTyped, NextUndisturbed
<1>3. UndisturbedInv => FailsOnlyByDeletion
  BY DEF UndisturbedInv, FailsOnlyByDeletion
<1>. QED
  BY <1>1, <1>2, <1>3, PTL DEF Spec


-----------------------------------------------------------------------------
(* What the store answers of an operation agrees.                          *)

RequestRowsOf(o) == {q \in requestRows : q.operation = o}

\* Of the requests of an operation at most the last has no links; rows are
\* numbered from one, and finitely many were inserted.
CountsInv ==
  /\ IsFiniteSet(requestRows)
  /\ \A q \in requestRows : q.index > 0
  /\ \A q \in requestRows :
       q.operation \in Kept /\ ~HasLink(q) => q = adding[q.operation]

\* The row of a new request: the one before it was linked.
LEMMA InsertCounts ==
  ASSUME LogInv, CountsInv, NEW o \in Operations, NEW results,
         NEW replayed, InsertRequest(o, results, replayed)
  PROVE  CountsInv'
<1>. DEFINE new == [operation |-> o, index |-> adding[o].index + 1,
                    results |-> results, replayed |-> replayed]
<1>1. /\ requestRows' = requestRows \cup {new}
      /\ adding' = [adding EXCEPT ![o] = new]
      /\ stage[o] = "idle" /\ links' = links /\ deleted' = deleted
  BY DEF InsertRequest, metastore
<1>2. /\ adding \in [Operations -> Request] /\ adding[o] \in Request
      /\ adding[o].index \in Nat /\ requestRows \subseteq Request
  BY SampleStoreAssumption DEF LogInv, TypeOK, Request
<1>3. new.index > 0 /\ new.operation = o /\ adding'[o] = new
  BY <1>1, <1>2
<1>. HIDE DEF new
<1>4. ASSUME NEW q \in requestRows, q.operation \in Kept, ~HasLink(q)
      PROVE  q = adding'[q.operation]
  <2>1. q = adding[q.operation]
    BY <1>4 DEF CountsInv
  <2>2. q.operation # o
    <3>. SUFFICES ASSUME q.operation = o PROVE FALSE
      OBVIOUS
    <3>1. adding[o].index > 0 /\ o \in Kept
      BY <1>4, <2>1 DEF CountsInv
    <3>2. \A r \in adding[o].results : <<adding[o], r>> \in links
      BY <1>1, <3>1 DEF LogInv, AddedIsLinked
    <3>3. adding[o].results # {} /\ adding[o].results \subseteq Results
      BY <1>1, <1>2, <3>1 DEF LogInv, RequestsHaveResults, Request
    <3>. QED
      BY <1>4, <2>1, <3>2, <3>3 DEF HasLink
  <2>3. q.operation \in Operations
    BY <1>4 DEF Kept
  <2>. QED
    BY <1>1, <1>2, <2>1, <2>2, <2>3
<1>5. ASSUME NEW q \in requestRows', q.operation \in Kept', ~HasLink(q)'
      PROVE  q = adding'[q.operation]
  BY <1>1, <1>3, <1>4, <1>5 DEF Kept, HasLink
<1>6. IsFiniteSet(requestRows')
  BY <1>1, FS_AddElement DEF CountsInv
<1>7. \A q \in requestRows' : q.index > 0
  BY <1>1, <1>3 DEF CountsInv
<1>. QED
  BY <1>5, <1>6, <1>7 DEF CountsInv

\* A deletion takes the requests without links.
LEMMA DeleteCounts ==
  ASSUME LogInv, CountsInv, NEW o \in Operations, DeleteOperation(o)
  PROVE  CountsInv'
<1>1. /\ requestRows' = {q \in requestRows : \E link \in links' : link[1] = q}
      /\ links' \subseteq links /\ links \subseteq Request \X Results
  BY DEF DeleteOperation, LinksAfterDeletion, LogInv, TypeOK
<1>2. \A q \in requestRows' : HasLink(q)'
  BY <1>1 DEF HasLink
<1>3. IsFiniteSet(requestRows')
  BY <1>1, FS_Subset DEF CountsInv
<1>4. \A q \in requestRows' : q.index > 0
  BY <1>1 DEF CountsInv
<1>. QED
  BY <1>2, <1>3, <1>4 DEF CountsInv

\* Every other step leaves the requests, and takes no link from them.
LEMMA NextCounts ==
  ASSUME LogInv, CountsInv, [Next]_vars
  PROVE  CountsInv'
<1>1. ASSUME UNCHANGED <<requestRows, adding, deleted>>, links \subseteq links'
      PROVE  CountsInv'
  BY <1>1 DEF CountsInv, HasLink, Kept
<1>2. CASE UNCHANGED vars
  BY <1>1, <1>2 DEF vars
<1>3. ASSUME NEW o \in Operations,
             \/ OperationCreated(o) \/ OperationStarts(o)
             \/ OperationFinishes(o) \/ DeletionPassesCheck(o)
             \/ ManagerStops(o) \/ InsertResults(o)
             \/ LinkReplayed(o) \/ LinkResults(o)
      PROVE  CountsInv'
  BY <1>1, <1>3
     DEF OperationCreated, OperationStarts, OperationFinishes, DeletionPassesCheck,
         ManagerStops, InsertResults, LinkReplayed, LinkResults, Linked,
         rows, manager, metastore
<1>4. ASSUME NEW o \in Operations, AddMeasured(o) \/ AddReplayed(o)
      PROVE  CountsInv'
  BY <1>4, InsertCounts DEF AddMeasured, AddReplayed
<1>5. ASSUME NEW o \in Operations, DeleteOperation(o) PROVE CountsInv'
  BY <1>5, DeleteCounts
<1>. QED
  BY <1>2, <1>3, <1>4, <1>5 DEF Next

\* The links of a kept operation are those of the results that are read.
LEMMA LinksAreRead ==
  ASSUME LogInv, NEW o \in Operations
  PROVE  {link \in links : link[1].operation = o} =
           UNION {{read[1]} \X read[2] : read \in RequestsRead(o)}
<1>1. ASSUME NEW link \in links, link[1].operation = o
      PROVE  \E read \in RequestsRead(o) : link \in {read[1]} \X read[2]
  <2>1. PICK q \in Request, r \in Results : link = <<q, r>>
    BY DEF LogInv, TypeOK
  <2>2. q \in requestRows /\ result[r] = "stored" /\ q.operation = o
    BY <1>1, <2>1 DEF LogInv, LinksJoinRows
  <2>3. r \in ResultsRead(q)
    BY <2>1, <2>2 DEF ResultsRead, ResultRows
  <2>4. <<q, ResultsRead(q)>> \in RequestsRead(o)
    BY <2>2, <2>3 DEF RequestsRead
  <2>. QED
    BY <2>1, <2>3, <2>4
<1>2. ASSUME NEW read \in RequestsRead(o), NEW link \in {read[1]} \X read[2]
      PROVE  link \in links /\ link[1].operation = o
  BY DEF RequestsRead, ResultsRead
<1>. QED
  BY <1>1, <1>2

\* Of the requests that are counted at most one cannot be read.
LEMMA CountedAreRead ==
  ASSUME LogInv, CountsInv, NEW o \in Kept
  PROVE  RequestsCount(o) <= Cardinality(RequestsRead(o)) + 1
<1>. DEFINE linked == {q \in requestRows : q.operation = o /\ ResultsRead(q) # {}}
            f == [q \in linked |-> <<q, ResultsRead(q)>>]
<1>1. IsFiniteSet(linked) /\ IsFiniteSet(RequestRowsOf(o))
  BY FS_Subset DEF CountsInv, RequestRowsOf
<1>2. f \in [linked -> RequestsRead(o)]
  BY DEF RequestsRead
<1>3. f \in Surjection(linked, RequestsRead(o))
  <2>1. \A read \in RequestsRead(o) : \E q \in linked : f[q] = read
    BY DEF RequestsRead
  <2>. QED
    BY <1>2, <2>1 DEF Surjection
<1>4. f \in Injection(linked, RequestsRead(o))
  BY <1>2 DEF Injection, IsInjective
<1>5. /\ Cardinality(RequestsRead(o)) = Cardinality(linked)
      /\ Cardinality(linked) \in Nat
  BY <1>1, <1>3, <1>4, FS_Surjection, FS_CardinalityType
<1>6. RequestRowsOf(o) \subseteq linked \cup {adding[o]}
  <2>. SUFFICES ASSUME NEW q \in requestRows, q.operation = o, q \notin linked
                PROVE  q = adding[o]
    BY DEF RequestRowsOf
  <2>1. ResultsRead(q) = {}
    OBVIOUS
  <2>2. q \in Request
    BY DEF LogInv, TypeOK
  <2>3. ~HasLink(q)
    BY <2>1, <2>2 DEF HasLink, ResultsRead, ResultRows, LogInv, LinksJoinRows
  <2>. QED
    BY <2>3 DEF CountsInv
<1>7. /\ IsFiniteSet(linked \cup {adding[o]})
      /\ Cardinality(linked \cup {adding[o]}) <= Cardinality(linked) + 1
      /\ Cardinality(linked \cup {adding[o]}) \in Nat
  <2>. HIDE DEF linked
  <2>1. /\ IsFiniteSet(linked \cup {adding[o]})
        /\ Cardinality(linked \cup {adding[o]}) =
             IF adding[o] \in linked THEN Cardinality(linked) ELSE Cardinality(linked) + 1
    BY <1>1, FS_AddElement
  <2>. QED
    BY <1>5, <2>1
<1>8. Cardinality(RequestRowsOf(o)) <= Cardinality(linked \cup {adding[o]})
  BY <1>6, <1>7, FS_Subset
<1>9. Cardinality(RequestRowsOf(o)) \in Nat /\ RequestsCount(o) = Cardinality(RequestRowsOf(o))
  BY <1>1, FS_CardinalityType DEF RequestsCount, RequestRowsOf
<1>. QED
  BY <1>5, <1>7, <1>8, <1>9

\* The rows that the statistics count for an entity.
EntityRows(o, e) == {link \in links : /\ link[1].operation = o
                                      /\ link[2] \in ResultRows
                                      /\ EntityOf[link[2]] = e}
ValidRows(o, e) == {entry \in EntityRows(o, e) : entry[2] \in Valid}

\* The rows of an entity are those of its results that are read.
LEMMA RowsAreRead ==
  ASSUME LogInv, NEW o \in Operations, NEW r
  PROVE  /\ r \in ResultsForOperation(o) <=>
              \E entry \in EntityRows(o, EntityOf[r]) : entry[2] = r
         /\ r \in ResultsForOperation(o) => r \in Results
<1>1. ASSUME r \in ResultsForOperation(o)
      PROVE  r \in Results /\ \E entry \in EntityRows(o, EntityOf[r]) : entry[2] = r
  <2>1. PICK read \in RequestsRead(o) : r \in read[2]
    BY <1>1 DEF ResultsForOperation
  <2>2. PICK q \in requestRows : q.operation = o /\ read = <<q, ResultsRead(q)>>
    BY DEF RequestsRead
  <2>3. r \in ResultRows /\ <<q, r>> \in links
    BY <2>1, <2>2 DEF ResultsRead
  <2>. QED
    BY <2>2, <2>3 DEF EntityRows, ResultRows
<1>2. ASSUME NEW entry \in EntityRows(o, EntityOf[r]), entry[2] = r
      PROVE  r \in ResultsForOperation(o)
  <2>1. PICK q \in Request, s \in Results : entry = <<q, s>>
    BY DEF LogInv, TypeOK, EntityRows
  <2>2. s = r /\ <<q, r>> \in links /\ q.operation = o /\ r \in ResultRows
    BY <1>2, <2>1 DEF EntityRows
  <2>3. q \in requestRows /\ r \in ResultsRead(q)
    BY <2>1, <2>2 DEF LogInv, LinksJoinRows, ResultsRead
  <2>4. <<q, ResultsRead(q)>> \in RequestsRead(o)
    BY <2>2, <2>3 DEF RequestsRead
  <2>. QED
    BY <2>3, <2>4 DEF ResultsForOperation
<1>. QED
  BY <1>1, <1>2

\* The statistics, which count rows, are those of the results.
LEMMA StatisticsAgree ==
  ASSUME LogInv, CountsInv, IsFiniteSet(Results), NEW o \in Operations
  PROVE  EntityStatistics(o) = StatisticsOfResults(o)
<1>1. IsFiniteSet(links)
  <2>1. links \subseteq requestRows \X Results
    BY DEF LogInv, TypeOK, LinksJoinRows
  <2>2. IsFiniteSet(requestRows \X Results)
    BY FS_Product DEF CountsInv
  <2>. QED
    BY <2>1, <2>2, FS_Subset
<1>2. ASSUME NEW e
      PROVE  /\ Cardinality(ValidRows(o, e)) > 0 <=> ValidRows(o, e) # {}
             /\ Cardinality(ValidRows(o, e)) = Cardinality(EntityRows(o, e)) <=>
                  \A entry \in EntityRows(o, e) : entry[2] \in Valid
  <2>1. IsFiniteSet(EntityRows(o, e)) /\ ValidRows(o, e) \subseteq EntityRows(o, e)
    BY <1>1, FS_Subset DEF EntityRows, ValidRows
  <2>2. IsFiniteSet(ValidRows(o, e))
    BY <2>1, FS_Subset
  <2>3. Cardinality(ValidRows(o, e)) > 0 <=> ValidRows(o, e) # {}
    BY <2>2, FS_EmptySet, FS_CardinalityType
  <2>4. Cardinality(ValidRows(o, e)) = Cardinality(EntityRows(o, e)) <=>
          ValidRows(o, e) = EntityRows(o, e)
    BY <2>1, FS_Subset
  <2>. QED
    BY <2>3, <2>4 DEF ValidRows
<1>3. \A e : \A entry \in EntityRows(o, e) :
        entry[2] \in ResultsForOperation(o) /\ EntityOf[entry[2]] = e
  BY RowsAreRead DEF EntityRows
<1>. DEFINE results == ResultsForOperation(o)
<1>4. ASSUME NEW e \in Entities
      PROVE  /\ EntityRows(o, e) # {} <=> e \in EntityIdentifiers(o)
             /\ ValidRows(o, e) # {} <=> e \in {EntityOf[r] : r \in results \cap Valid}
             /\ (\A entry \in EntityRows(o, e) : entry[2] \in Valid) <=>
                  e \notin {EntityOf[r] : r \in results \ Valid}
  BY <1>3, RowsAreRead DEF EntityIdentifiers, ValidRows
<1>5. \A r \in results : EntityOf[r] \in Entities
  BY RowsAreRead DEF Entities
<1>. DEFINE entityTotal == {e \in Entities : EntityRows(o, e) # {}}
            successful == {e \in Entities : Cardinality(ValidRows(o, e)) > 0}
            allSuccessful == {e \in Entities :
              /\ EntityRows(o, e) # {}
              /\ Cardinality(ValidRows(o, e)) = Cardinality(EntityRows(o, e))}
<1>6. /\ entityTotal = EntityIdentifiers(o)
      /\ successful = {EntityOf[r] : r \in results \cap Valid}
      /\ allSuccessful = EntityIdentifiers(o) \ {EntityOf[r] : r \in results \ Valid}
  <2>1. entityTotal = EntityIdentifiers(o)
    BY <1>4, <1>5 DEF EntityIdentifiers
  <2>2. successful = {EntityOf[r] : r \in results \cap Valid}
    BY <1>2, <1>4, <1>5
  <2>3. \A e \in EntityIdentifiers(o) : e \in Entities
    BY <1>5 DEF EntityIdentifiers
  <2>4. allSuccessful = EntityIdentifiers(o) \ {EntityOf[r] : r \in results \ Valid}
    BY <1>2, <1>4, <2>3
  <2>. QED
    BY <2>1, <2>2, <2>4
<1>7. EntityStatistics(o) = [total |-> entityTotal, successful |-> successful,
                             allSuccessful |-> allSuccessful]
  BY DEF EntityStatistics, EntityRows, ValidRows
<1>. QED
  BY <1>6, <1>7 DEF StatisticsOfResults

\* Where foreign keys are enforced, the ways to ask the store about a kept
\* operation give the same answer, whatever others add, replay or delete.
THEOREM AnswersAgreeCorrect ==
  ASSUME MySQL, IsFiniteSet(Results) PROVE Spec => []AnswersAgree
<1>1. Init => LogInv
  BY InitLogInv
<1>2. Init => CountsInv
  BY FS_EmptySet DEF Init, CountsInv
<1>3. LogInv /\ [Next]_vars => LogInv'
  BY NextLogInv
<1>4. LogInv /\ CountsInv /\ [Next]_vars => CountsInv'
  BY NextCounts
<1>5. LogInv /\ CountsInv => AnswersAgree
  <2>. SUFFICES ASSUME LogInv, CountsInv, NEW o \in Kept
                PROVE  /\ ResultsCount(o) = Cardinality(
                            UNION {{read[1]} \X read[2] : read \in RequestsRead(o)})
                       /\ RequestsCount(o) <= Cardinality(RequestsRead(o)) + 1
                       /\ EntityStatistics(o) = StatisticsOfResults(o)
    BY DEF AnswersAgree
  <2>1. o \in Operations
    BY DEF Kept
  <2>. QED
    BY <2>1, LinksAreRead, CountedAreRead, StatisticsAgree DEF ResultsCount
<1>. QED
  BY <1>1, <1>2, <1>3, <1>4, <1>5, PTL DEF Spec

-----------------------------------------------------------------------------
(* The cache of entities: types, and the ids of rows.                      *)

LEMMA NatWellFounded ==
  IsWellFoundedOn({pair \in Nat \X Nat : pair[1] < pair[2]}, Nat)
BY NatLessThanWellFounded DEF OpToRel

\* The last id of some results is that of one of them, and no other is above it.
LEMMA LastId ==
  ASSUME CacheTypeOK, NEW results \in SUBSET ResultIds, results # {}
  PROVE  /\ \E r \in results : insertId[r] = LastInsertId(results)
         /\ \A r \in results : insertId[r] <= LastInsertId(results)
<1>. DEFINE Below == {MaxRows - insertId[r] : r \in results}
            Smaller == {pair \in Nat \X Nat : pair[1] < pair[2]}
<1>0. \A r \in results : insertId[r] \in 0 .. MaxRows
  BY DEF CacheTypeOK
<1>1. Below \subseteq Nat /\ Below # {}
  BY <1>0, SampleStoreCacheAssumption
<1>2. PICK x \in Below : \A y \in Below : <<y, x>> \notin Smaller
  <2>1. IsWellFoundedOn(Smaller, Nat)
    BY NatWellFounded
  <2>. HIDE DEF Below, Smaller
  <2>. QED
    BY <1>1, <2>1, WFMin
<1>3. PICK q \in results : x = MaxRows - insertId[q]
  BY <1>2
<1>4. ASSUME NEW r \in results
      PROVE  insertId[r] <= insertId[q]
  <2>1. MaxRows - insertId[r] \in Below
    OBVIOUS
  <2>2. ~ (MaxRows - insertId[r] < MaxRows - insertId[q])
    BY <1>1, <1>2, <1>3, <2>1
  <2>. QED
    BY <1>0, <2>2, SampleStoreCacheAssumption
<1>. DEFINE S == {insertId[r] : r \in results}
            Last(i) == \A r \in results : insertId[r] <= i
<1>5. insertId[q] \in S /\ Last(insertId[q])
  BY <1>4
<1>6. LastInsertId(results) \in S /\ Last(LastInsertId(results))
  BY <1>5 DEF LastInsertId
<1>. QED
  BY <1>6

\* Refresh attaches only what it has fetched.
FetchedOrIdle == refreshStage = "attaching" => fetched # {}

LEMMA TypeInit == CacheInit => CacheTypeOK /\ FetchedOrIdle
BY SampleStoreCacheAssumption DEF CacheInit, CacheTypeOK, FetchedOrIdle

LEMMA TypeNext ==
  ASSUME CacheTypeOK, FetchedOrIdle, [CacheNext]_cacheVars
  PROVE  CacheTypeOK' /\ FetchedOrIdle'
<1>. USE DEF CacheTypeOK, FetchedOrIdle, table, cache, reader
<1>1. ASSUME NEW e \in EntityIds, AddEntity(e)
      PROVE  CacheTypeOK' /\ FetchedOrIdle'
  BY <1>1 DEF AddEntity
<1>2. ASSUME NEW i \in ResultIds, InsertResult(i)
      PROVE  CacheTypeOK' /\ FetchedOrIdle'
  BY <1>2, SampleStoreCacheAssumption DEF InsertResult
<1>3. ASSUME NEW i \in ResultIds, Commit(i) \/ RollBack(i)
      PROVE  CacheTypeOK' /\ FetchedOrIdle'
  BY <1>3 DEF Commit, RollBack
<1>4. ASSUME NEW i \in ResultIds, DeleteResult(i)
      PROVE  CacheTypeOK' /\ FetchedOrIdle'
  BY <1>4 DEF DeleteResult
<1>5. ASSUME NEW i \in ResultIds, NEW o \in OperationIds, LinkResult(i, o)
      PROVE  CacheTypeOK' /\ FetchedOrIdle'
  BY <1>5 DEF LinkResult
<1>6. CASE LoadEntities
  BY <1>6 DEF LoadEntities
<1>7. CASE FetchResults
  BY <1>7 DEF FetchResults, Committed
<1>8. CASE AttachResults
  <2>1. \E r \in fetched : insertId[r] = LastInsertId(fetched)
    BY <1>8, LastId DEF AttachResults
  <2>2. lastInsertId' \in 0 .. MaxRows
    BY <1>8, <2>1 DEF AttachResults
  <2>3. attached' \in [EntityIds -> SUBSET ResultIds]
    BY <1>8 DEF AttachResults
  <2>. QED
    BY <1>8, <2>2, <2>3 DEF AttachResults
<1>9. ASSUME NEW identifiers \in SUBSET EntityIds,
             EntitiesWithIdentifiers(identifiers)
      PROVE  CacheTypeOK' /\ FetchedOrIdle'
  BY <1>9 DEF EntitiesWithIdentifiers, ResultsOfEntity, Committed
<1>10. ASSUME NEW o \in OperationIds, EntitiesInOperation(o)
       PROVE  CacheTypeOK' /\ FetchedOrIdle'
  <2>1. /\ EntitiesOf(ResultsIn(o)) \subseteq EntityIds
        /\ ResultsIn(o) \subseteq ResultIds
    BY DEF EntitiesOf, ResultsIn, Committed
  <2>. QED
    BY <1>10, <2>1 DEF EntitiesInOperation
<1>11. ASSUME NEW o \in OperationIds, MeasurementRequestsForOperation(o)
       PROVE  CacheTypeOK' /\ FetchedOrIdle'
  <2>1. /\ EntitiesOf(ResultsIn(o)) \subseteq EntityIds
        /\ ResultsIn(o) \subseteq ResultIds
    BY DEF EntitiesOf, ResultsIn, Committed
  <2>. QED
    BY <1>11, <2>1 DEF MeasurementRequestsForOperation
<1>12. CASE UNCHANGED cacheVars
  BY <1>12 DEF cacheVars
<1>. QED
  BY <1>1, <1>2, <1>3, <1>4, <1>5, <1>6, <1>7, <1>8, <1>9, <1>10, <1>11, <1>12
     DEF CacheNext

LEMMA Types == CacheSpec => [](CacheTypeOK /\ FetchedOrIdle)
<1>1. CacheTypeOK /\ FetchedOrIdle /\ [CacheNext]_cacheVars => (CacheTypeOK /\ FetchedOrIdle)'
  BY TypeNext
<1>. QED
  BY <1>1, TypeInit, PTL DEF CacheSpec

\* Every variable keeps its type.
THEOREM CacheTypeCorrect == CacheSpec => []CacheTypeOK
BY Types, PTL

-----------------------------------------------------------------------------
(* The entities of results.                                                *)

\* A result that is in the table, or was, has its entity there.
EntitiesFirst == \A i \in ResultIds : row[i] # "new" => entityOf[i] \in entityRows

\* What refresh has fetched was committed, and is new.
FetchedRows ==
  \A i \in fetched : row[i] \in {"committed", "deleted"} /\ insertId[i] > lastInsertId

\* Results are attached to their own entity.
Attached == \A e \in EntityIds : \A i \in attached[e] : entityOf[i] = e

EntityInv == EntitiesFirst /\ FetchedRows /\ EntitiesAreFound /\ Attached

LEMMA EntityInit == CacheInit => EntityInv
BY DEF CacheInit, EntityInv, EntitiesFirst, FetchedRows, EntitiesAreFound, Attached

LEMMA EntitiesFirstNext ==
  ASSUME CacheTypeOK, EntitiesFirst, [CacheNext]_cacheVars
  PROVE  EntitiesFirst'
<1>. USE DEF CacheTypeOK, EntitiesFirst, table, cache, reader
<1>1. ASSUME NEW e \in EntityIds, AddEntity(e)
      PROVE  EntitiesFirst'
  BY <1>1 DEF AddEntity
<1>2. ASSUME NEW i \in ResultIds,
             InsertResult(i) \/ Commit(i) \/ RollBack(i) \/ DeleteResult(i)
      PROVE  EntitiesFirst'
  BY <1>2 DEF InsertResult, Commit, RollBack, DeleteResult, Committed
<1>3. CASE UNCHANGED <<entityRows, entityOf, row>>
  BY <1>3
<1>. QED
  BY <1>1, <1>2, <1>3
     DEF CacheNext, cacheVars, LinkResult, LoadEntities, FetchResults, AttachResults,
         EntitiesWithIdentifiers, EntitiesInOperation,
         MeasurementRequestsForOperation

LEMMA FetchedRowsNext ==
  ASSUME CacheTypeOK, FetchedRows, [CacheNext]_cacheVars
  PROVE  FetchedRows'
<1>. USE DEF CacheTypeOK, FetchedRows, table, cache, reader
<1>1. ASSUME NEW i \in ResultIds,
             InsertResult(i) \/ Commit(i) \/ RollBack(i) \/ DeleteResult(i)
      PROVE  FetchedRows'
  BY <1>1 DEF InsertResult, Commit, RollBack, DeleteResult, Committed
<1>2. CASE FetchResults
  BY <1>2 DEF FetchResults, Committed
<1>3. CASE AttachResults
  BY <1>3 DEF AttachResults
<1>4. CASE UNCHANGED <<row, insertId, lastInsertId, fetched>>
  BY <1>4
<1>. QED
  BY <1>1, <1>2, <1>3, <1>4
     DEF CacheNext, cacheVars, AddEntity, LinkResult, LoadEntities,
         EntitiesWithIdentifiers, EntitiesInOperation,
         MeasurementRequestsForOperation

LEMMA EntitiesAreFoundNext ==
  ASSUME CacheTypeOK, EntityInv, [CacheNext]_cacheVars
  PROVE  EntitiesAreFound'
<1>. USE DEF CacheTypeOK, EntityInv, EntitiesAreFound, table, cache, reader
<1>1. CASE LoadEntities
  BY <1>1 DEF LoadEntities
<1>2. CASE FetchResults
  BY <1>2 DEF FetchResults
<1>3. CASE AttachResults
  <2>1. EntitiesOf(fetched) \subseteq entityRows
    BY DEF EntitiesOf, EntitiesFirst, FetchedRows
  <2>2. EntitiesOf(fetched) \subseteq known'
    BY <1>3, <2>1 DEF AttachResults
  <2>. QED
    BY <1>3, <2>2 DEF AttachResults
<1>4. CASE UNCHANGED refreshStage
  BY <1>4
<1>. QED
  BY <1>1, <1>2, <1>3, <1>4
     DEF CacheNext, cacheVars, AddEntity, InsertResult, Commit, RollBack, DeleteResult,
         LinkResult, EntitiesWithIdentifiers, EntitiesInOperation,
         MeasurementRequestsForOperation

LEMMA AttachedNext ==
  ASSUME CacheTypeOK, Attached, [CacheNext]_cacheVars
  PROVE  Attached'
<1>. USE DEF CacheTypeOK, Attached, table, cache, reader
<1>1. CASE LoadEntities
  BY <1>1 DEF LoadEntities
<1>2. CASE AttachResults
  BY <1>2 DEF AttachResults
<1>3. ASSUME NEW identifiers \in SUBSET EntityIds,
             EntitiesWithIdentifiers(identifiers)
      PROVE  Attached'
  BY <1>3 DEF EntitiesWithIdentifiers, ResultsOfEntity
<1>4. ASSUME NEW o \in OperationIds, EntitiesInOperation(o)
      PROVE  Attached'
  BY <1>4 DEF EntitiesInOperation
<1>5. ASSUME NEW o \in OperationIds, MeasurementRequestsForOperation(o)
      PROVE  Attached'
  BY <1>5 DEF MeasurementRequestsForOperation
<1>6. CASE UNCHANGED <<entityOf, attached>>
  BY <1>6
<1>. QED
  BY <1>1, <1>2, <1>3, <1>4, <1>5, <1>6
     DEF CacheNext, cacheVars, AddEntity, InsertResult, Commit, RollBack, DeleteResult,
         LinkResult, FetchResults

LEMMA Safe == CacheSpec => [](CacheTypeOK /\ FetchedOrIdle /\ EntityInv)
<1>1. CacheTypeOK /\ FetchedOrIdle /\ EntityInv /\ [CacheNext]_cacheVars => EntityInv'
  BY EntitiesFirstNext, FetchedRowsNext, EntitiesAreFoundNext, AttachedNext
     DEF EntityInv
<1>. QED
  BY <1>1, Types, EntityInit, PTL DEF CacheSpec

\* Refresh finds the entity of every result it attaches, whatever other
\* processes commit between its queries: refresh of sql.py never meets the
\* KeyError of a result without an entity.
THEOREM EntitiesAreFoundCorrect == CacheSpec => []EntitiesAreFound
<1>1. EntityInv => EntitiesAreFound
  BY DEF EntityInv
<1>. QED
  BY <1>1, Safe, PTL

\* No reader drops from a cached entity a result that is still in the table:
\* the readers of sql.py that replace a cached entity bring its results along.
THEOREM NothingForgottenCorrect == CacheSpec => NothingForgotten
<1>. DEFINE Remembered ==
       \A e \in known : attached[e] \cap Committed' \subseteq attached'[e]
<1>1. ASSUME CacheTypeOK, EntityInv, [CacheNext]_cacheVars
      PROVE  Remembered
  <2>. USE <1>1 DEF CacheTypeOK, table, cache, reader
  <2>1. CASE LoadEntities
    BY <2>1 DEF LoadEntities
  <2>2. CASE AttachResults
    BY <2>2 DEF AttachResults
  <2>3. ASSUME NEW identifiers \in SUBSET EntityIds,
               EntitiesWithIdentifiers(identifiers)
        PROVE  Remembered
    BY <2>3
       DEF EntitiesWithIdentifiers, ResultsOfEntity, Committed, EntityInv, Attached
  <2>4. ASSUME NEW o \in OperationIds, EntitiesInOperation(o)
        PROVE  Remembered
    BY <2>4 DEF EntitiesInOperation
  <2>5. ASSUME NEW o \in OperationIds, MeasurementRequestsForOperation(o)
        PROVE  Remembered
    BY <2>5 DEF MeasurementRequestsForOperation
  <2>6. CASE UNCHANGED attached
    BY <2>6
  <2>. QED
    BY <2>1, <2>2, <2>3, <2>4, <2>5, <2>6
       DEF CacheNext, cacheVars, AddEntity, InsertResult, Commit, RollBack, DeleteResult,
           LinkResult, FetchResults
<1>2. CacheTypeOK /\ EntityInv /\ [CacheNext]_cacheVars => [Remembered]_cacheVars
  BY <1>1
<1>. QED
  BY <1>2, Safe, PTL DEF CacheSpec, NothingForgotten

-----------------------------------------------------------------------------
(* What refresh misses.                                                    *)

\* Of what was committed in time, nothing is missing among the fetched.
FetchedAll ==
  refreshStage = "attaching" =>
    \A r \in Committed \ late, q \in fetched :
      insertId[r] <= insertId[q] => insertId[r] <= lastInsertId \/ r \in fetched

LEMMA FetchedAllNext ==
  ASSUME CacheTypeOK, FetchedRows, FetchedAll, [CacheNext]_cacheVars
  PROVE  FetchedAll'
<1>. USE DEF CacheTypeOK, FetchedAll, Committed, table, cache, reader
<1>1. CASE FetchResults
  BY <1>1 DEF FetchResults
<1>2. CASE AttachResults
  BY <1>2 DEF AttachResults
<1>3. CASE LoadEntities
  BY <1>3 DEF LoadEntities
<1>4. ASSUME NEW n \in ResultIds, InsertResult(n) PROVE FetchedAll'
  <2>1. \A r \in ResultIds : r # n => insertId'[r] = insertId[r] /\ row'[r] = row[r]
    BY <1>4 DEF InsertResult
  <2>2. n \notin fetched /\ row'[n] = "inserted"
    BY <1>4 DEF InsertResult, FetchedRows
  <2>. QED
    BY <1>4, <2>1, <2>2 DEF InsertResult
<1>5. ASSUME NEW n \in ResultIds, Commit(n) PROVE FetchedAll'
  BY <1>5 DEF Commit, Passed
<1>6. ASSUME NEW n \in ResultIds, RollBack(n) \/ DeleteResult(n) PROVE FetchedAll'
  BY <1>6 DEF RollBack, DeleteResult
<1>7. CASE UNCHANGED <<row, insertId, lastInsertId, fetched, refreshStage, late>>
  BY <1>7
<1>. QED
  BY <1>1, <1>2, <1>3, <1>4, <1>5, <1>6, <1>7
     DEF CacheNext, cacheVars, AddEntity, LinkResult, EntitiesWithIdentifiers,
         EntitiesInOperation, MeasurementRequestsForOperation

LEMMA NothingElseMissedNext ==
  ASSUME CacheTypeOK, FetchedOrIdle, EntityInv, FetchedAll, NothingElseMissed,
         [CacheNext]_cacheVars
  PROVE  NothingElseMissed'
<1>. USE DEF CacheTypeOK, NothingElseMissed, Committed, table, cache, reader
<1>0. refreshStage # "failed"
  BY DEF EntityInv, EntitiesAreFound
<1>1. CASE AttachResults
  <2>1. PICK q \in fetched :
          insertId[q] = lastInsertId' /\ \A r \in fetched : insertId[r] <= insertId[q]
    BY <1>1, LastId DEF AttachResults, FetchedOrIdle
  <2>2. ASSUME NEW r \in Committed \ late, insertId[r] <= lastInsertId'
        PROVE  entityOf[r] \in known' /\ r \in attached'[entityOf[r]]
    <3>1. insertId[r] <= lastInsertId \/ r \in fetched
      BY <1>1, <2>1, <2>2 DEF FetchedAll, AttachResults
    <3>2. r \in ResultIds /\ entityOf[r] \in EntityIds
      OBVIOUS
    <3>3. CASE insertId[r] <= lastInsertId
      BY <1>0, <1>1, <3>2, <3>3 DEF AttachResults
    <3>4. CASE r \in fetched
      <4>1. entityOf[r] \in entityRows
        BY <3>2, <3>4 DEF EntityInv, EntitiesFirst, FetchedRows
      <4>. QED
        BY <1>1, <3>2, <3>4, <4>1 DEF AttachResults, EntitiesOf
    <3>. QED
      BY <3>1, <3>3, <3>4
  <2>3. UNCHANGED <<entityOf, row, insertId, late>>
    BY <1>1 DEF AttachResults
  <2>. QED
    BY <2>2, <2>3
<1>2. ASSUME NEW n \in ResultIds, InsertResult(n) PROVE NothingElseMissed'
  <2>1. \A r \in ResultIds : r # n => insertId'[r] = insertId[r] /\ row'[r] = row[r]
    BY <1>2 DEF InsertResult
  <2>2. row'[n] = "inserted"
    BY <1>2 DEF InsertResult
  <2>. QED
    BY <1>0, <1>2, <2>1, <2>2 DEF InsertResult
<1>3. ASSUME NEW n \in ResultIds, Commit(n) PROVE NothingElseMissed'
  BY <1>0, <1>3 DEF Commit, Passed
<1>4. ASSUME NEW n \in ResultIds, RollBack(n) \/ DeleteResult(n)
      PROVE  NothingElseMissed'
  BY <1>0, <1>4 DEF RollBack, DeleteResult
<1>5. CASE LoadEntities
  BY <1>0, <1>5 DEF LoadEntities
<1>6. ASSUME NEW identifiers \in SUBSET EntityIds,
             EntitiesWithIdentifiers(identifiers)
      PROVE  NothingElseMissed'
  BY <1>0, <1>6 DEF EntitiesWithIdentifiers, ResultsOfEntity
<1>7. ASSUME NEW o \in OperationIds, EntitiesInOperation(o)
      PROVE  NothingElseMissed'
  BY <1>0, <1>7 DEF EntitiesInOperation
<1>8. ASSUME NEW o \in OperationIds, MeasurementRequestsForOperation(o)
      PROVE  NothingElseMissed'
  BY <1>0, <1>8 DEF MeasurementRequestsForOperation
<1>9. CASE UNCHANGED <<entityOf, row, insertId, known, attached, lastInsertId, late>>
  BY <1>0, <1>9
<1>. QED
  BY <1>1, <1>2, <1>3, <1>4, <1>5, <1>6, <1>7, <1>8, <1>9
     DEF CacheNext, cacheVars, AddEntity, LinkResult, FetchResults

\* With one writer at a time the row that is inserted has the highest id, and as
\* long as nothing is deleted refresh has not passed the last that is visible.
OneWriter ==
  database = "SQLite" =>
    /\ \A q, r \in ResultIds : row[q] = "inserted" /\ row[r] = "inserted" => q = r
    /\ \A q \in ResultIds, r \in Committed :
         row[q] = "inserted" => insertId[r] < insertId[q]
    /\ \A q \in ResultIds : row[q] = "inserted" => insertId[q] > 0
    /\ (\A r \in ResultIds : row[r] # "deleted") =>
         /\ late = {}
         /\ lastInsertId = 0 \/ \E r \in Committed : insertId[r] = lastInsertId

LEMMA OneWriterNext ==
  ASSUME CacheTypeOK, FetchedOrIdle, FetchedRows, OneWriter, [CacheNext]_cacheVars
  PROVE  OneWriter'
<1>. USE DEF CacheTypeOK, table, cache, reader
<1>0. database' = database
  BY DEF CacheNext, cacheVars, AddEntity, InsertResult, Commit, RollBack, DeleteResult,
     LinkResult, LoadEntities, FetchResults, AttachResults, EntitiesWithIdentifiers,
     EntitiesInOperation, MeasurementRequestsForOperation
<1>1. SUFFICES ASSUME database = "SQLite" PROVE OneWriter'
  BY <1>0 DEF OneWriter
<1>2. ASSUME NEW n \in ResultIds, InsertResult(n) PROVE OneWriter'
  <2>1. PICK i \in 1 .. MaxRows :
          NextInsertId(i) /\ insertId' = [insertId EXCEPT ![n] = i]
    BY <1>2 DEF InsertResult
  <2>2. /\ \A r \in ResultIds : r # n => insertId'[r] = insertId[r] /\ row'[r] = row[r]
        /\ insertId'[n] = i /\ row'[n] = "inserted" /\ row[n] = "new"
        /\ \A r \in ResultIds : row[r] # "inserted"
        /\ UNCHANGED <<late, lastInsertId, fetched>>
    BY <1>1, <1>2, <2>1 DEF InsertResult
  <2>3. \A r \in Committed : insertId[r] < i
    BY <1>1, <2>1 DEF NextInsertId, Numbered, Rows, Committed
  <2>4. Committed' = Committed
    BY <2>2 DEF Committed
  <2>5. \A r \in Committed : insertId'[r] = insertId[r] /\ r \in ResultIds
    BY <2>2 DEF Committed
  <2>. QED
    BY <1>1, <2>2, <2>3, <2>4, <2>5, SampleStoreCacheAssumption DEF OneWriter
<1>3. ASSUME NEW n \in ResultIds, Commit(n) PROVE OneWriter'
  <2>1. /\ row[n] = "inserted" /\ row'[n] = "committed"
        /\ \A r \in ResultIds : r # n => row'[r] = row[r]
        /\ UNCHANGED <<insertId, lastInsertId, fetched>>
    BY <1>3 DEF Commit
  <2>2. \A r \in ResultIds : row'[r] # "inserted"
    BY <1>1, <2>1 DEF OneWriter
  <2>3. ASSUME \A r \in ResultIds : row'[r] # "deleted"
        PROVE  /\ late' = {}
               /\ lastInsertId = 0 \/ \E r \in Committed' : insertId[r] = lastInsertId
    <3>1. \A r \in ResultIds : row[r] # "deleted"
      BY <2>1, <2>3
    <3>2. \A q \in fetched : q \in Committed
      BY <3>1 DEF FetchedRows, Committed
    <3>3. ~Passed(insertId[n])
      BY <1>1, <2>1, <3>1, <3>2 DEF Passed, OneWriter, Committed
    <3>. QED
      BY <1>1, <1>3, <2>1, <3>1, <3>3 DEF Commit, OneWriter, Committed
  <2>. QED
    BY <2>1, <2>2, <2>3 DEF OneWriter, Committed
<1>4. ASSUME NEW n \in ResultIds, RollBack(n) PROVE OneWriter'
  <2>1. /\ row[n] = "inserted" /\ row'[n] = "failed"
        /\ \A r \in ResultIds : r # n => row'[r] = row[r]
        /\ UNCHANGED <<insertId, lastInsertId, fetched, late>>
    BY <1>4 DEF RollBack
  <2>. QED
    BY <1>1, <2>1 DEF OneWriter, Committed
<1>5. ASSUME NEW n \in ResultIds, DeleteResult(n) PROVE OneWriter'
  <2>1. /\ row[n] = "committed" /\ row'[n] = "deleted"
        /\ \A r \in ResultIds : r # n => row'[r] = row[r]
        /\ UNCHANGED <<insertId, lastInsertId, fetched, late>>
    BY <1>5 DEF DeleteResult, Committed
  <2>. QED
    BY <1>1, <2>1 DEF OneWriter, Committed
<1>6. CASE AttachResults
  <2>1. \E q \in fetched : insertId[q] = lastInsertId'
    BY <1>6, LastId DEF AttachResults, FetchedOrIdle
  <2>2. (\A r \in ResultIds : row[r] # "deleted") => \A q \in fetched : q \in Committed
    BY DEF FetchedRows, Committed
  <2>. QED
    BY <1>1, <1>6, <2>1, <2>2 DEF AttachResults, OneWriter, Committed
<1>7. CASE UNCHANGED <<row, insertId, lastInsertId, late>>
  BY <1>1, <1>7 DEF OneWriter, Committed
<1>. QED
  BY <1>2, <1>3, <1>4, <1>5, <1>6, <1>7
     DEF CacheNext, cacheVars, AddEntity, LinkResult, LoadEntities, FetchResults,
         EntitiesWithIdentifiers, EntitiesInOperation,
         MeasurementRequestsForOperation

RefreshInv == FetchedAll /\ NothingElseMissed /\ OneWriter

LEMMA RefreshInit == CacheInit => RefreshInv
BY DEF CacheInit, RefreshInv, FetchedAll, NothingElseMissed, OneWriter, Committed

\* refresh of sql.py neither fails nor misses any result, but those that became
\* visible under an id it had passed: on SQLite that takes a deletion.
THEOREM RefreshIsCompleteCorrect == CacheSpec => []RefreshIsComplete
<1>1. CacheTypeOK /\ FetchedOrIdle /\ EntityInv /\ RefreshInv /\ [CacheNext]_cacheVars
        => RefreshInv'
  BY FetchedAllNext, NothingElseMissedNext, OneWriterNext DEF RefreshInv, EntityInv
<1>2. EntityInv /\ RefreshInv => RefreshIsComplete
  BY DEF EntityInv, RefreshInv, RefreshIsComplete, LateAfterDeletion, OneWriter
<1>. QED
  BY <1>1, <1>2, Safe, RefreshInit, PTL DEF CacheSpec

=============================================================================
