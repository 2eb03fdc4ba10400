-------------------------- MODULE ExploreOperation --------------------------
(***************************************************************************)
(* An explore operation from start to end: the random_walk operator, the   *)
(* actuators and the measurement queue, the discovery space manager, and   *)
(* the driver process that starts them, waits for run(), records how the   *)
(* operation ended and shuts everything down.                              *)
(***************************************************************************)
EXTENDS RandomWalk, FiniteSets

CONSTANTS
  Faults   \* which of AllFaults the run explores

AllFaults == {"store", "refuse", "submit", "crash", "interrupt", "setup", "size"}

ASSUME FaultsAssumption == Faults \subseteq AllFaults

VARIABLES
  stored, subscribed, crashed, promiseBroken,
  isalive, monitoring, monitoringError, iscompleted,
  driver,      \* where orchestrate_explore_operation is
  exitState    \* the exit state in the stored operation resource, if any

Manager == INSTANCE DiscoverySpaceManager
  WITH queue <- measurementQueue, Measured <- Answered,
       ErrorReport <- CriticalError,
       MayRefuse <- IF "refuse" \in Faults THEN Subscribers ELSE {}

driverVars == <<driver, exitState>>
managerVars == <<stored, subscribed, crashed, promiseBroken,
                 isalive, monitoring, monitoringError, iscompleted>>
vars == <<measurementVars, walkVars, managerVars, driverVars>>

TypeOK ==
  /\ MeasurementsTypeOK
  /\ WalkTypeOK
  /\ Manager!ManagerTypeOK
  /\ driver \in {"setup", "running", "shutdown", "done"}
  /\ exitState \in {"none", "SUCCESS", "ERROR"}

Init ==
  /\ MeasurementsInit
  /\ WalkInit
  /\ Manager!ManagerInit
  /\ driver = "setup"
  /\ exitState = "none"

-----------------------------------------------------------------------------
(* The actors work until the driver has terminated them; a crashed         *)
(* operator does not work.                                                 *)

ActorsUp == driver # "done"
OperatorUp == ActorsUp /\ Operator \notin crashed

\* What no step of the manager or the driver's shutdown touches.
operatorVars ==
  <<memoized, inFlight, walk, entitiesSampled, exhausted, initialItems,
    experimentsRequested, finishedRequests, retries, batchingQueue,
    updateQueue, criticalError>>

ActuatorStep ==
  /\ ActorsUp
  /\ \E request \in inFlight : ActuatorCompletes(request)
  /\ UNCHANGED <<walkVars, managerVars, driverVars>>

OperatorCallback ==
  /\ OperatorUp
  /\ \E update \in sent[Operator] : ExecuteCall(update)
  /\ UNCHANGED <<measurementVars, managerVars, driverVars>>

OperatorInternal ==
  /\ OperatorUp
  /\ RunInternal
  /\ UNCHANGED <<measurementVars, managerVars, driverVars>>

OperatorSubmits ==
  /\ OperatorUp
  /\ RunSubmits
  /\ "submit" \notin Faults => walk' # "raised"
  /\ UNCHANGED <<managerVars, driverVars>>

ManagerStep ==
  /\ ActorsUp
  /\ Manager!MonitorStep
  /\ "store" \notin Faults => ~monitoringError'
  /\ UNCHANGED <<operatorVars, driverVars>>

\* The unsubscribe call run() makes as its last act reaches the manager.
OperatorUnsubscribed ==
  /\ ActorsUp
  /\ walk = "returned"
  /\ Operator \in subscribed
  /\ Manager!UnsubscribeFromUpdates(Operator)
  /\ UNCHANGED <<operatorVars, driverVars>>

OperatorCrashes ==
  /\ "crash" \in Faults
  /\ driver = "running"
  /\ Manager!SubscriberCrashes(Operator)
  /\ UNCHANGED <<operatorVars, driverVars>>

-----------------------------------------------------------------------------
(* The driver.                                                             *)

\* The run closure calls startMonitoring and run(), then waits for run().
DriverRuns ==
  /\ driver = "setup"
  /\ driver' = "running"
  /\ Manager!StartMonitoring
  /\ RunStarts
  /\ "size" \notin Faults => walk' # "raised"
  /\ UNCHANGED <<measurementVars, exitState>>

\* Recording the operation fails before the run closure is called.
SetupFails ==
  /\ "setup" \in Faults
  /\ driver = "setup"
  /\ driver' = "shutdown"
  /\ Manager!Shutdown
  /\ UNCHANGED <<operatorVars, exitState>>

(***************************************************************************)
(* The wait for run() ends and the harness records an exit state: SUCCESS  *)
(* when run() returned (it returns None), ERROR when it raised.  If the    *)
(* operator's actor is dead, the harness raises while it asks the actor    *)
(* how much it did, before it writes the state.  The shutdown follows in   *)
(* each case.                                                              *)
(***************************************************************************)
DriverStopsWaiting ==
  /\ driver = "running"
  /\ \/ Operator \notin crashed /\ walk = "returned" /\ exitState' = "SUCCESS"
     \/ Operator \notin crashed /\ walk = "raised" /\ exitState' = "ERROR"
     \/ Operator \in crashed /\ UNCHANGED exitState
  /\ driver' = "shutdown"
  /\ Manager!Shutdown
  /\ UNCHANGED operatorVars

\* SIGINT during the wait: recorded as ERROR; the operator's run() goes on.
DriverInterrupted ==
  /\ "interrupt" \in Faults
  /\ driver = "running"
  /\ exitState' = IF Operator \in crashed THEN exitState ELSE "ERROR"
  /\ driver' = "shutdown"
  /\ Manager!Shutdown
  /\ UNCHANGED operatorVars

\* manager.shutdown() has returned: the actors are terminated.
DriverFinishes ==
  /\ driver = "shutdown"
  /\ iscompleted
  /\ driver' = "done"
  /\ UNCHANGED <<measurementVars, walkVars, managerVars, exitState>>

Next ==
  \/ ActuatorStep \/ OperatorCallback \/ OperatorInternal \/ OperatorSubmits
  \/ ManagerStep \/ OperatorUnsubscribed \/ OperatorCrashes
  \/ DriverRuns \/ SetupFails \/ DriverStopsWaiting \/ DriverInterrupted
  \/ DriverFinishes

Spec == Init /\ [][Next]_vars

(***************************************************************************)
(* Each actor keeps working: Ray schedules every actor's event loop, an    *)
(* actuator answers each request it accepted, and the driver is a running  *)
(* process.  Nothing makes a fault happen.                                 *)
(***************************************************************************)
Fairness ==
  /\ WF_vars(ActuatorStep)
  /\ WF_vars(OperatorCallback)
  /\ WF_vars(OperatorInternal)
  /\ WF_vars(OperatorSubmits)
  /\ WF_vars(ManagerStep)
  /\ WF_vars(OperatorUnsubscribed)
  /\ WF_vars(DriverRuns)
  /\ WF_vars(DriverStopsWaiting)
  /\ WF_vars(DriverFinishes)

FairSpec == Spec /\ Fairness

-----------------------------------------------------------------------------
(* What the operation promises.                                            *)

Requests(seq) == {seq[k] : k \in DOMAIN seq}

\* Requests on their way to the operator, in the order they pass.
Notified == (sent[Operator] \cup Requests(updateQueue)) \ {CriticalError}

\* Requests made and not yet finished.
Outstanding == experimentsRequested - finishedRequests

StoredWith(index, experiment, status) ==
  {k \in DOMAIN stored :
     /\ stored[k].index = index
     /\ stored[k].experiment = experiment
     /\ stored[k].status = status}

(***************************************************************************)
(* No request is lost or duplicated between the operator that made it and  *)
(* the operator that waits for it: while nothing has failed, the requests  *)
(* not finished are exactly those with an actuator, on the measurement     *)
(* queue, or notified.                                                     *)
(***************************************************************************)
NoRequestLost ==
  (~monitoringError /\ Operator \in subscribed \ crashed) =>
    Outstanding = Cardinality(inFlight) + Len(measurementQueue)
                    + Cardinality(Notified)

(***************************************************************************)
(* When run() returns without a critical error, every independent          *)
(* experiment of every sampled entity has a stored success, or has failed  *)
(* with the retries of its request index used up.                          *)
(***************************************************************************)
ReturnedMeansMeasured ==
  (walk = "returned" /\ ~criticalError) =>
    \A i \in 0 .. entitiesSampled - 1, k \in DOMAIN IndependentExperiments :
      LET e == IndependentExperiments[k]
      IN  \/ StoredWith(i, e, "Success") # {}
          \/ StoredWith(i, e, "Failed") # {} /\ retries[i] = MaxRetries

(***************************************************************************)
(* Why run() does not stop early.  The initial batch submits before it     *)
(* counts, and each turn of the loop submits one request for the one it    *)
(* finishes, unless nothing is queued and no entity is left: so the loop   *)
(* finds every request finished only when there is nothing more to do.     *)
(***************************************************************************)
NothingLeft ==
  /\ batchingQueue = <<>>
  /\ entitiesSampled = NumberEntities \/ exhausted

WalkInv ==
  /\ initialItems # <<>> =>
       walk \in {"initial", "raised"} /\ entitiesSampled < BatchSize
  /\ walk \in {"created", "initial"} =>
       finishedRequests = 0 /\ batchingQueue = <<>> /\ entitiesSampled <= BatchSize
  /\ entitiesSampled > 0 => experimentsRequested > 0
  /\ finishedRequests <= experimentsRequested
  /\ walk = "batching" => finishedRequests < experimentsRequested \/ NothingLeft
  /\ walk = "returned" /\ ~criticalError =>
       finishedRequests = experimentsRequested /\ NothingLeft

(***************************************************************************)
(* A run() that returns without a critical error has sampled as many       *)
(* entities as it was asked to, unless the sampler had no more, and leaves *)
(* nothing on the batching queue.                                          *)
(***************************************************************************)
ReturnedMeansSampled ==
  (walk = "returned" /\ ~criticalError) =>
    /\ entitiesSampled = NumberEntities \/ exhausted
    /\ batchingQueue = <<>>
    /\ finishedRequests = experimentsRequested

\* What the end of run() without a critical error promises about the operation.
ReturnedMeansDone == ReturnedMeansSampled /\ ReturnedMeansMeasured

\* Where the store holds the entity's requests with this outcome.
StoredFor(index, status) ==
  {k \in DOMAIN stored : stored[k].index = index /\ stored[k].status = status}

\* The sum of the values of a function from a finite set to the naturals.
Total(f) == Cardinality(UNION {{x} \X (1 .. f[x]) : x \in DOMAIN f})

\* The requests that measuring the experiments on the entity takes.
Planned(index, experiments) ==
  Total([k \in DOMAIN experiments |->
           NumberCreated(ItemsOf(index, experiments)[k])])

(***************************************************************************)
(* Every measurement of an entity is accounted for: its independent        *)
(* experiments, those its successes enabled, and its retries, nothing less *)
(* and nothing more; and a failure goes without a retry only once the      *)
(* retries of its request index are used up (_processCompletedMeasurement).*)
(***************************************************************************)
FailuresRetried ==
  (walk = "returned" /\ ~criticalError) =>
    \A i \in 0 .. entitiesSampled - 1 :
      LET successes == StoredFor(i, "Success")
          failures == Cardinality(StoredFor(i, "Failed"))
          enabled == [k \in successes |->
                        Planned(i, DependentsOf[stored[k].experiment])]
      IN  /\ Cardinality(successes) + failures =
               Planned(i, IndependentExperiments)
                 + Total(enabled) + retries[i]
          /\ failures > retries[i] => retries[i] = MaxRetries

\* The requests of a full initial batch.
BatchLevel == BatchSize * Len(IndependentExperiments)

(***************************************************************************)
(* Continuous batching, the upper side: when no entity holds more than one *)
(* result of an experiment, the number of outstanding requests never       *)
(* exceeds that of a full initial batch, whatever is retried or enabled    *)
(* (run() submits at most one request for each that finishes).             *)
(***************************************************************************)
ConcurrencyBounded == Outstanding <= BatchLevel

(***************************************************************************)
(* Continuous batching, the lower side: "as far as possible, there is      *)
(* always this number of experiments in flight" (random-walk.md).  After a *)
(* full initial batch, run() never waits below the batch level while an    *)
(* experiment is ready on the batching queue.  It holds when a success     *)
(* enables at most one experiment; with two it does not.                   *)
(***************************************************************************)
ConcurrencyMaintained ==
  (WaitingOnRequests /\ entitiesSampled >= BatchSize /\ batchingQueue # <<>>)
     => Outstanding >= BatchLevel

(***************************************************************************)
(* Continuous batching keeps the concurrency, neither above nor below.     *)
(***************************************************************************)
ConcurrencyKept == ConcurrencyBounded /\ ConcurrencyMaintained

(***************************************************************************)
(* An operation recorded as a SUCCESS that met no critical error has every *)
(* request it made in the sample store, and leaves nothing with an         *)
(* actuator or on the measurement queue when its actors are terminated.    *)
(***************************************************************************)
SuccessMeansStored ==
  (driver \in {"shutdown", "done"} /\ exitState = "SUCCESS" /\ ~criticalError) =>
    /\ Len(stored) = experimentsRequested
    /\ inFlight = {}
    /\ measurementQueue = <<>>

SetupFailed == driver = "shutdown" /\ monitoring = "notStarted"

(***************************************************************************)
(* The driver always gets through its shutdown: no failure to store, to    *)
(* notify or to submit, and no interrupt, leaves it waiting for run() or   *)
(* for the manager for ever (graceful_explore_operation_shutdown).  Only   *)
(* the death of the operator's actor can, and a set-up that fails before   *)
(* the manager's loop was started.                                         *)
(***************************************************************************)
DriverEnds == <>(driver = "done" \/ Operator \in crashed \/ SetupFailed)

=============================================================================
