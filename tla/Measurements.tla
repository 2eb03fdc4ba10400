---------------------------- MODULE Measurements ----------------------------
(***************************************************************************)
(* The vocabulary every actor of an explore operation shares, and the two  *)
(* ways a measurement request comes into being.                            *)
(*                                                                         *)
(* An operator asks for one experiment on one sampled entity with          *)
(* measure_or_replay (modules/operators/base.py).  If the entity already   *)
(* holds results of the experiment they are replayed: one                  *)
(* ReplayedMeasurement per result goes straight onto the measurement       *)
(* queue.  Otherwise the experiment's actuator creates one                 *)
(* MeasurementRequest, works on it, and puts it on the queue once it has   *)
(* succeeded or failed.                                                    *)
(*                                                                         *)
(* An entity is known by the position at which the operator sampled it:    *)
(* that position is the requestIndex of every request made for it.         *)
(***************************************************************************)
EXTENDS Naturals, Sequences

CONSTANTS
  Experiments,            \* the experiments of the measurement space
  IndependentExperiments, \* those without required properties, in list order
  DependentsOf,           \* DependentsOf[e]: the experiments e's result enables
  External,               \* experiments of the replay actuator: no code for them
  NumberEntities,         \* how many entities the operation may sample
  MaxMemoized,            \* bound: results of one experiment an entity may hold
                          \* when sampled (0 when singleMeasurement is off)
  Memoizable              \* bound: the experiments of which it may hold any

Indices == 0 .. NumberEntities - 1

ASSUME MeasurementsAssumption ==
  /\ NumberEntities \in Nat \ {0}
  /\ MaxMemoized \in Nat
  /\ External \subseteq Experiments
  /\ IndependentExperiments \in Seq(Experiments) \ {<<>>}
  /\ DependentsOf \in [Experiments -> Seq(Experiments)]

(***************************************************************************)
(* A request still being worked on has status Unknown.                     *)
(***************************************************************************)
Status == {"Unknown", "Success", "Failed"}

Request ==
  [id : Nat \ {0}, index : Indices, experiment : Experiments,
   status : Status, replayed : BOOLEAN]

Answered == {request \in Request : request.status # "Unknown"}

\* What the operator puts on its continuous batching queue.
Item == [index : Indices, experiment : Experiments]

VARIABLES
  memoized,         \* memoized[i][e]: results of e that entity i held when sampled
  inFlight,         \* requests an actuator has accepted and not yet answered
  measurementQueue  \* the MeasurementQueue: answered requests, oldest first

measurementVars == <<memoized, inFlight, measurementQueue>>

MeasurementsTypeOK ==
  /\ memoized \in [Indices -> [Experiments -> 0 .. MaxMemoized]]
  /\ inFlight \in SUBSET (Request \ Answered)
  /\ measurementQueue \in Seq(Answered)

\* The results an entity may hold when it is sampled.
Held ==
  {held \in [Experiments -> 0 .. MaxMemoized] :
     \A e \in Experiments \ Memoizable : held[e] = 0}

MeasurementsInit ==
  /\ memoized \in [Indices -> Held]
  /\ inFlight = {}
  /\ measurementQueue = <<>>

RequestFor(item, id, status, replayed) ==
  [id |-> id, index |-> item.index, experiment |-> item.experiment,
   status |-> status, replayed |-> replayed]

(***************************************************************************)
(* How many requests one call of measure_or_replay creates: it returns     *)
(* that many request identifiers.                                          *)
(***************************************************************************)
NumberCreated(item) ==
  LET results == memoized[item.index][item.experiment]
  IN  IF results = 0 THEN 1 ELSE results

\* replay: one already successful request per existing result.
Replay(item, last) ==
  LET results == memoized[item.index][item.experiment]
  IN  /\ results > 0
      /\ measurementQueue' =
           measurementQueue \o
             [k \in 1 .. results |-> RequestFor(item, last + k, "Success", TRUE)]
      /\ UNCHANGED inFlight

\* The entity holds no result to replay, and the experiment's code is known.
NeedsMeasurement(item) ==
  /\ memoized[item.index][item.experiment] = 0
  /\ item.experiment \notin External

\* Replay.submit: an experiment without code is answered at once, as failed.
SubmitExternal(item, last) ==
  /\ memoized[item.index][item.experiment] = 0
  /\ item.experiment \in External
  /\ measurementQueue' =
       Append(measurementQueue, RequestFor(item, last + 1, "Failed", FALSE))
  /\ UNCHANGED inFlight

\* submit of an actuator that runs the experiment.
SubmitToActuator(item, last) ==
  /\ NeedsMeasurement(item)
  /\ inFlight' = inFlight \cup {RequestFor(item, last + 1, "Unknown", FALSE)}
  /\ UNCHANGED measurementQueue

(***************************************************************************)
(* measure_or_replay for one entity; last is the number of requests the    *)
(* caller has made so far, the new ones are numbered from last + 1.        *)
(***************************************************************************)
MeasureOrReplay(item, last) ==
  /\ \/ Replay(item, last)
     \/ SubmitExternal(item, last)
     \/ SubmitToActuator(item, last)
  /\ UNCHANGED memoized

\* Mutant: the actuator forgets that it has answered.
ActuatorAnswersAgain(request) ==
  /\ request \in inFlight
  /\ \E status \in {"Success", "Failed"} :
       measurementQueue' =
         Append(measurementQueue, [request EXCEPT !.status = status])
  /\ UNCHANGED <<memoized, inFlight>>

(***************************************************************************)
(* The actuator finishes a request, in whatever order its tasks end, sets  *)
(* the request's status and hands it to the manager through the queue.     *)
(***************************************************************************)
ActuatorCompletes(request) ==
  /\ request \in inFlight
  /\ inFlight' = inFlight \ {request}
  /\ \E status \in {"Success", "Failed"} :
       measurementQueue' =
         Append(measurementQueue, [request EXCEPT !.status = status])
  /\ UNCHANGED memoized

=============================================================================
