------------------------- MODULE CustomExperiments -------------------------
(***************************************************************************)
(* The actuator of the custom experiments (modules/actuators/              *)
(* custom_experiments.py).  Each service (the REST API, or a command that  *)
(* runs experiments itself) has an actor of it, created on first use, and  *)
(* a measurement queue.  submit() checks the request, gives it an id of    *)
(* six characters and executes it, as a Ray task of its own or, where the  *)
(* function asks for it, before it returns.  Ray runs a task again whose   *)
(* worker died, from its beginning.                                        *)
(***************************************************************************)
EXTENDS Experiments

CONSTANTS
  Services,
  Actuators,   \* actuator -> [requirement, experiments]
  Requests,    \* owner -> [service, reference, entities]: the requests that may be made
  MaxRetries,  \* how often Ray runs a task again
  MaxFaults    \* bound: deaths of workers and actors, and restarts

\* An experiment is not accepted unless it has a default for each of its optional
\* properties, and for no other.
ASSUME CatalogAssumption ==
  /\ \A a \in DOMAIN Actuators : \A x \in Actuators[a].experiments :
       /\ DOMAIN x = {"actuator", "name", "required", "optional", "defaults", "parameters",
                      "observed", "targets", "deprecated", "function", "useRay"}
       /\ DOMAIN x.defaults = DOMAIN x.optional
  /\ \A owner \in DOMAIN Requests :
       Requests[owner].entities \in Seq(Range(Requests[owner].entities))

VARIABLES
  actuator,    \* service -> "absent" | "idle" | "busy" | "dead"
  executors,   \* the executions that have not returned
  queue,       \* service -> the requests on the measurement queue
  lost,        \* history: the owners of requests that a death left unanswered
  repeated,    \* history: the services where an answered request was executed again
  faults       \* how many of them there were

actuatorVars == <<actuator, executors, queue, lost, repeated, faults>>

ActuatorInit ==
  /\ actuator = [s \in Services |-> "absent"]
  /\ executors = {}
  /\ queue = [s \in Services |-> <<>>]
  /\ lost = {}
  /\ repeated = {}
  /\ faults = 0

\* The cached handle is not checked: a dead actor is not replaced.
GetActuator(s) ==
  actuator' = [actuator EXCEPT ![s] = IF @ = "absent" THEN "idle" ELSE @]

Service(owner) == Requests[owner].service

Entities(owner) == Requests[owner].entities

\* The path of a request to the API has no place for a parameterization.
Reference(owner) ==
  LET reference == Requests[owner].reference
  IN  IF Service(owner) = "api" THEN [reference EXCEPT !.parameters = NoParameters]
                                ELSE reference

Target(owner) ==
  Parameterized(ExperimentForReference(Actuators, Reference(owner)),
                Reference(owner).parameters)

\* submit() raises.
Refuses(owner) ==
  \/ ~IsKnown(Actuators, Reference(owner))
  \/ LET x == ExperimentForReference(Actuators, Reference(owner))
     IN  \/ x.deprecated
         \/ ~ValidParameterization(x, Reference(owner).parameters)
         \/ x.function = "missing"
         \/ \E entity \in Range(Entities(owner)) :
              ~CheckRequiredObservedPropertyValuesPresent(entity, x, FALSE)

Submit(owner, id) ==
  /\ executors' = executors \cup
       {[owner |-> owner, id |-> id, answered |-> FALSE, retries |-> 0]}
  /\ actuator' = [actuator EXCEPT ![Service(owner)] =
                    IF Target(owner).useRay THEN "idle" ELSE "busy"]

-----------------------------------------------------------------------------
(* custom_experiment_executor.                                               *)

Invalid(entity) ==
  [entity |-> entity.id, label |-> "requested", valid |-> FALSE, inputs |-> NoParameters]

Valid(label, entity, inputs) ==
  [entity |-> entity.id, label |-> label, valid |-> TRUE, inputs |-> inputs]

\* The function validates its arguments, and those of its outputs are kept that
\* the experiment declares; without any, or if it raises, the result is invalid.
DecoratedResults(x, entity) ==
  LET inputs == PropertyValues(x, entity)
      Kept(output) == output \cap x.targets
  IN  IF ~HasInputs(x, entity) \/ ~ValidatePoint(x, inputs)
      THEN {<<Invalid(entity)>>}
      ELSE {IF Kept(output) = {} THEN <<Invalid(entity)>>
                                 ELSE <<Valid("requested", entity, inputs)>> :
              output \in SUBSET (x.targets \cup {"undeclared"})}

\* Other functions return values that are labelled already: of no experiment,
\* of one, or, which is not a valid result, of several.
LegacyResults(entity) ==
  {CASE labels = {} -> <<>>
     [] Cardinality(labels) = 1 ->
          <<Valid(CHOOSE label \in labels : TRUE, entity, NoParameters)>>
     [] OTHER -> <<Invalid(entity)>> : labels \in SUBSET {"requested", "other"}}

Results(x, entity) ==
  IF x.function = "decorated" THEN DecoratedResults(x, entity) ELSE LegacyResults(entity)

\* What a request may come to: the results of its entities, one after the other.
Measurements ==
  [owner \in {o \in DOMAIN Requests : ~Refuses(o)} |->
     LET entities == Entities(owner)
         Of(k) == Results(Target(owner), entities[k])
     IN  {FlattenSeq(chosen) : chosen \in
            {f \in [DOMAIN entities -> UNION {Of(k) : k \in DOMAIN entities}] :
               \A k \in DOMAIN entities : f[k] \in Of(k)}}]

\* Mutant: the measurements of the request are set even if there are none.
RaisesWithoutResults(owner, results) == ~ValidMeasurements(Entities(owner), results)

\* Setting the measurements of the request raises.
Raises(owner, results) == results # <<>> /\ ~ValidMeasurements(Entities(owner), results)

Request(executor, results) ==
  [owner |-> executor.owner, id |-> executor.id, results |-> results,
   status |-> ComputeMeasurementStatus(results)]

Replace(executor, by) == executors' = (executors \ {executor}) \cup {by}

\* The executor measures the entities and puts the request on the queue.
Answer(executor) ==
  /\ ~executor.answered
  /\ \E results \in Measurements[executor.owner] :
       /\ ~Raises(executor.owner, results)
       /\ queue' = [queue EXCEPT ![Service(executor.owner)] =
                      Append(@, Request(executor, results))]
  /\ Replace(executor, [executor EXCEPT !.answered = TRUE])
  /\ UNCHANGED <<actuator, lost, repeated, faults>>

\* The execution ends: after its answer, or by raising, without one.
End(executor) ==
  /\ \/ executor.answered
     \/ \E results \in Measurements[executor.owner] : Raises(executor.owner, results)
  /\ executors' = executors \ {executor}
  /\ actuator' = [actuator EXCEPT ![Service(executor.owner)] =
                    IF Target(executor.owner).useRay THEN @ ELSE "idle"]
  /\ UNCHANGED <<queue, lost, repeated, faults>>

-----------------------------------------------------------------------------
(* Deaths.                                                                   *)

WorkerDies(executor) ==
  /\ Target(executor.owner).useRay
  /\ faults < MaxFaults
  /\ faults' = faults + 1
  /\ IF executor.retries < MaxRetries
     THEN /\ Replace(executor, [executor EXCEPT !.retries = @ + 1, !.answered = FALSE])
          /\ repeated' = IF executor.answered THEN repeated \cup {Service(executor.owner)}
                                              ELSE repeated
          /\ UNCHANGED lost
     ELSE /\ executors' = executors \ {executor}
          /\ lost' = lost \cup {executor.owner}
          /\ UNCHANGED repeated
  /\ UNCHANGED <<actuator, queue>>

\* The tasks that an actor submitted die with it.
Orphans(s) == {x \in executors : Service(x.owner) = s}

ActorDies(s) ==
  /\ actuator[s] \in {"idle", "busy"}
  /\ faults < MaxFaults
  /\ faults' = faults + 1
  /\ actuator' = [actuator EXCEPT ![s] = "dead"]
  /\ executors' = executors \ Orphans(s)
  /\ lost' = lost \cup {x.owner : x \in Orphans(s)}
  /\ UNCHANGED <<queue, repeated>>

=============================================================================
