----------------------- MODULE ExploreOperationProofs -----------------------
(***************************************************************************)
(* Proofs about an explore operation, for any measurement space, batch     *)
(* size and number of entities, and under every fault: the types of its    *)
(* state; that a run() which returns without a critical error has sampled  *)
(* what it was asked to, finished all it requested and had every           *)
(* independent experiment of the entities measured; that no request is     *)
(* lost between actuator, store and operator; that the number of           *)
(* outstanding experiments keeps to the batch size; and that every         *)
(* measurement of an entity is accounted for by its independent            *)
(* experiments, by what its successes enabled and by its retries.          *)
(***************************************************************************)
EXTENDS ExploreOperation, FiniteSetTheorems, TLAPS

\* The bounds the constants put on the state.
LEMMA Constants ==
  /\ NumberEntities \in Nat \ {0} /\ MaxMemoized \in Nat /\ MaxRetries \in Nat
  /\ BatchSize \in 1 .. NumberEntities
  /\ IndependentExperiments \in Seq(Experiments) /\ IndependentExperiments # <<>>
  /\ DependentsOf \in [Experiments -> Seq(Experiments)]
  /\ Operator \in Subscribers
  /\ CriticalError \notin Request
BY MeasurementsAssumption, RandomWalkAssumption

-----------------------------------------------------------------------------
(* Operators on items and requests.                                        *)

\* A function on 1 .. n is a sequence.
LEMMA FunctionIsSeq ==
  ASSUME NEW S, NEW n \in Nat, NEW f \in [1 .. n -> S]
  PROVE  f \in Seq(S)
OBVIOUS

\* Only the empty sequence has length zero.
LEMMA ZeroLength ==
  ASSUME NEW S, NEW seq \in Seq(S), Len(seq) = 0
  PROVE  seq = <<>>
OBVIOUS

\* Appending keeps the type of a sequence.
LEMMA AppendType ==
  ASSUME NEW S, NEW seq \in Seq(S), NEW x \in S
  PROVE  Append(seq, x) \in Seq(S)
OBVIOUS

\* One item per experiment, in the order of the experiments.
LEMMA ItemsOfType ==
  ASSUME NEW i \in Indices, NEW es \in Seq(Experiments)
  PROVE  ItemsOf(i, es) \in Seq(Item) /\ (es # <<>> => ItemsOf(i, es) # <<>>)
<1>1. DOMAIN es = 1 .. Len(es) /\ Len(es) \in Nat
  OBVIOUS
<1>2. \A k \in 1 .. Len(es) :
        [index |-> i, experiment |-> es[k]] \in Item
  BY <1>1 DEF Item
<1>. DEFINE items == [k \in 1 .. Len(es) |-> [index |-> i, experiment |-> es[k]]]
<1>3. items \in Seq(Item)
  BY <1>1, <1>2
<1>4. Len(items) = Len(es)
  BY <1>1
<1>5. ItemsOf(i, es) = items
  BY <1>1 DEF ItemsOf
<1>6. es # <<>> => Len(es) # 0
  OBVIOUS
<1>7. es # <<>> => items # <<>>
  BY <1>4, <1>6
<1>. QED
  BY <1>3, <1>5, <1>7

\* A request made for an item is a request, if its number is positive.
LEMMA RequestForType ==
  ASSUME NEW item \in Item, NEW id \in Nat \ {0}, NEW status \in Status,
         NEW replayed \in BOOLEAN
  PROVE  /\ RequestFor(item, id, status, replayed) \in Request
         /\ status # "Unknown" <=> RequestFor(item, id, status, replayed) \in Answered
BY DEF RequestFor, Request, Item, Answered

\* A call of measure_or_replay creates at least one request.
LEMMA NumberCreatedPositive ==
  ASSUME MeasurementsTypeOK, NEW item \in Item
  PROVE  NumberCreated(item) \in Nat \ {0}
BY Constants DEF MeasurementsTypeOK, NumberCreated, Item

\* measure_or_replay keeps the types of what it changes.
LEMMA MeasureOrReplayType ==
  ASSUME MeasurementsTypeOK, NEW item \in Item, NEW last \in Nat,
         MeasureOrReplay(item, last)
  PROVE  MeasurementsTypeOK'
<1>0. /\ measurementQueue \in Seq(Answered) /\ inFlight \in SUBSET (Request \ Answered)
      /\ memoized \in [Indices -> [Experiments -> 0 .. MaxMemoized]]
      /\ memoized' = memoized
  BY DEF MeasurementsTypeOK, MeasureOrReplay
<1>1. CASE Replay(item, last)
  <2>. DEFINE results == memoized[item.index][item.experiment]
              replays == [k \in 1 .. results |-> RequestFor(item, last + k, "Success", TRUE)]
  <2>1. results \in Nat
    BY <1>0, Constants DEF Item
  <2>2. ASSUME NEW k \in 1 .. results
        PROVE  RequestFor(item, last + k, "Success", TRUE) \in Answered
    <3>1. last + k \in Nat \ {0}
      BY <2>1
    <3>. QED
      BY <3>1, RequestForType DEF Status
  <2>3. replays \in Seq(Answered)
    <3>1. replays \in [1 .. results -> Answered]
      BY <2>2
    <3>. QED
      BY ONLY <2>1, <3>1, FunctionIsSeq
  <2>4. measurementQueue \o replays \in Seq(Answered)
    BY <1>0, <2>3
  <2>5. measurementQueue' = measurementQueue \o replays /\ inFlight' = inFlight
    BY <1>1 DEF Replay
  <2>. QED
    BY <1>0, <2>4, <2>5 DEF MeasurementsTypeOK
<1>2. last + 1 \in Nat \ {0}
  OBVIOUS
<1>3. CASE SubmitExternal(item, last)
  <2>1. RequestFor(item, last + 1, "Failed", FALSE) \in Answered
    BY <1>2, RequestForType DEF Status
  <2>2. /\ measurementQueue' =
             Append(measurementQueue, RequestFor(item, last + 1, "Failed", FALSE))
        /\ inFlight' = inFlight
    BY <1>3 DEF SubmitExternal
  <2>3. measurementQueue' \in Seq(Answered)
    BY <1>0, <2>1, <2>2, AppendType
  <2>. QED
    BY <1>0, <2>2, <2>3 DEF MeasurementsTypeOK
<1>4. CASE SubmitToActuator(item, last)
  <2>1. RequestFor(item, last + 1, "Unknown", FALSE) \in Request \ Answered
    BY <1>2, RequestForType DEF Status
  <2>2. /\ inFlight' = inFlight \cup {RequestFor(item, last + 1, "Unknown", FALSE)}
        /\ measurementQueue' = measurementQueue
    BY <1>4 DEF SubmitToActuator
  <2>. QED
    BY <1>0, <2>1, <2>2 DEF MeasurementsTypeOK
<1>. QED
  BY <1>1, <1>3, <1>4 DEF MeasureOrReplay

\* An actuator's answer keeps the types of what it changes.
LEMMA ActuatorCompletesType ==
  ASSUME MeasurementsTypeOK, NEW request \in inFlight, ActuatorCompletes(request)
  PROVE  MeasurementsTypeOK'
<1>1. PICK status \in {"Success", "Failed"} :
        measurementQueue' =
          Append(measurementQueue, [request EXCEPT !.status = status])
  BY DEF ActuatorCompletes
<1>2. [request EXCEPT !.status = status] \in Answered
  BY DEF MeasurementsTypeOK, Request, Status, Answered
<1>3. measurementQueue' \in Seq(Answered)
  BY <1>1, <1>2, AppendType DEF MeasurementsTypeOK
<1>. QED
  BY <1>3 DEF ActuatorCompletes, MeasurementsTypeOK

-----------------------------------------------------------------------------
(* Steps of run().                                                         *)

\* What a submission does to the counters and types, raised or not.
LEMMA SubmitType ==
  ASSUME MeasurementsTypeOK, experimentsRequested \in Nat, NEW item \in Item,
         Submit(item)
  PROVE  /\ MeasurementsTypeOK'
         /\ experimentsRequested' \in Nat
         /\ experimentsRequested' > experimentsRequested
         /\ walk' = walk
<1>1. MeasurementsTypeOK'
  BY MeasureOrReplayType DEF Submit
<1>2. NumberCreated(item) \in Nat \ {0}
  BY NumberCreatedPositive
<1>. QED
  BY <1>1, <1>2 DEF Submit

\* A refused submission changes nothing but where run() is.
LEMMA SubmitRaisesType ==
  ASSUME MeasurementsTypeOK, NEW item \in Item, SubmitRaises(item)
  PROVE  /\ MeasurementsTypeOK'
         /\ experimentsRequested' = experimentsRequested
         /\ walk' = "raised"
BY DEF SubmitRaises, measurementVars, MeasurementsTypeOK

\* _processCompletedMeasurement keeps the types of its queue and trackers.
LEMMA ProcessCompletedType ==
  ASSUME WalkTypeOK, NEW request \in Answered
  PROVE  /\ QueueAfter(request) \in Seq(Item)
         /\ RetriesAfter(request) \in [Indices -> 0 .. MaxRetries]
<1>0. /\ request.index \in Indices /\ request.experiment \in Experiments
      /\ batchingQueue \in Seq(Item)
      /\ retries \in [Indices -> 0 .. MaxRetries]
  BY DEF Answered, Request, WalkTypeOK
<1>1. ItemsOf(request.index, DependentsOf[request.experiment]) \in Seq(Item)
  BY <1>0, Constants, ItemsOfType
<1>2. [index |-> request.index, experiment |-> request.experiment] \in Item
  BY <1>0 DEF Item
<1>3. QueueAfter(request) \in Seq(Item)
  BY <1>0, <1>1, <1>2 DEF QueueAfter
<1>4. RetriesAfter(request) \in [Indices -> 0 .. MaxRetries]
  BY <1>0, Constants DEF RetriesAfter
<1>. QED
  BY <1>3, <1>4

\* Sampling leaves an empty queue only when no entity is left.
LEMMA SamplingType ==
  ASSUME WalkTypeOK, NEW queue \in Seq(Item),
         NEW outcome \in SamplingOutcomes(queue)
  PROVE  /\ outcome.queue \in Seq(Item)
         /\ outcome.sampled \in 0 .. NumberEntities
         /\ outcome.sampled >= entitiesSampled
         /\ outcome.over \in BOOLEAN
         /\ outcome.queue = <<>> => outcome.sampled = NumberEntities \/ outcome.over
<1>0. entitiesSampled \in 0 .. NumberEntities /\ exhausted \in BOOLEAN
  BY DEF WalkTypeOK
<1>1. CASE queue # <<>> \/ entitiesSampled >= NumberEntities \/ exhausted
  <2>1. outcome = Outcome(queue, entitiesSampled, exhausted)
    BY <1>1 DEF SamplingOutcomes
  <2>2. /\ outcome.queue = queue /\ outcome.sampled = entitiesSampled
        /\ outcome.over = exhausted
    BY <2>1 DEF Outcome
  <2>. QED
    BY <1>0, <1>1, <2>2, Constants
<1>2. CASE ~(queue # <<>> \/ entitiesSampled >= NumberEntities \/ exhausted)
  <2>. DEFINE items == ItemsOf(entitiesSampled, IndependentExperiments)
  <2>1. entitiesSampled \in Indices
    BY <1>0, <1>2, Constants DEF Indices
  <2>2. items \in Seq(Item) /\ items # <<>>
    BY <2>1, Constants, ItemsOfType
  <2>3. \/ outcome = Outcome(queue, entitiesSampled, TRUE)
        \/ outcome = Outcome(items, entitiesSampled + 1, FALSE)
    BY <1>2 DEF SamplingOutcomes
  <2>. HIDE DEF items
  <2>4. CASE outcome = Outcome(queue, entitiesSampled, TRUE)
    <3>1. outcome.queue = queue /\ outcome.sampled = entitiesSampled /\ outcome.over
      BY <2>4 DEF Outcome
    <3>2. outcome.over \in BOOLEAN
      BY <2>4 DEF Outcome
    <3>. QED
      BY <1>0, <3>1, <3>2
  <2>5. CASE outcome = Outcome(items, entitiesSampled + 1, FALSE)
    <3>1. outcome.queue = items /\ outcome.sampled = entitiesSampled + 1
      BY <2>5 DEF Outcome
    <3>2. outcome.over \in BOOLEAN
      BY <2>5 DEF Outcome
    <3>. QED
      BY <1>0, <1>2, <2>2, <3>1, <3>2, Constants
  <2>. QED
    BY <2>3, <2>4, <2>5
<1>. QED
  BY <1>1, <1>2

RunInv == MeasurementsTypeOK /\ WalkTypeOK /\ WalkInv

\* Submitting an experiment of the initial batch.
LEMMA InitialSubmitStep ==
  ASSUME RunInv, InitialSubmit
  PROVE  RunInv'
<1>0. MeasurementsTypeOK /\ WalkTypeOK /\ WalkInv
  BY DEF RunInv
<1>1. /\ walk = "initial" /\ initialItems \in Seq(Item) /\ initialItems # <<>>
      /\ entitiesSampled \in 0 .. BatchSize /\ entitiesSampled < BatchSize
      /\ experimentsRequested \in Nat
      /\ finishedRequests = 0 /\ batchingQueue = <<>>
  BY <1>0, Constants DEF InitialSubmit, WalkTypeOK, WalkInv
<1>2. Head(initialItems) \in Item /\ Tail(initialItems) \in Seq(Item)
  BY <1>1
<1>3. CASE /\ Submit(Head(initialItems))
           /\ entitiesSampled' = IF Len(initialItems) = 1
                                 THEN entitiesSampled + 1 ELSE entitiesSampled
  <2>1. /\ MeasurementsTypeOK' /\ experimentsRequested' \in Nat
        /\ experimentsRequested' > experimentsRequested /\ walk' = walk
    BY <1>0, <1>1, <1>2, <1>3, SubmitType
  <2>2. entitiesSampled' \in 0 .. BatchSize
    BY <1>1, <1>3, Constants
  <2>3. initialItems' # <<>> => entitiesSampled' < BatchSize
    <3>1. initialItems' = Tail(initialItems)
      BY DEF InitialSubmit
    <3>2. Len(initialItems) = 1 => Len(Tail(initialItems)) = 0
      BY <1>1
    <3>3. Len(initialItems) = 1 => Tail(initialItems) = <<>>
      BY <1>2, <3>2, ZeroLength
    <3>. QED
      BY <1>1, <1>3, <3>1, <3>3, Constants
  <2>4. /\ initialItems' = Tail(initialItems)
        /\ UNCHANGED <<exhausted, finishedRequests, retries, batchingQueue,
                       updateQueue, criticalError, sent>>
    BY DEF InitialSubmit
  <2>5. WalkTypeOK'
    BY <1>0, <1>2, <2>1, <2>2, <2>4, Constants DEF WalkTypeOK
  <2>6. WalkInv'
    BY <1>0, <1>1, <2>1, <2>2, <2>3, <2>4, Constants DEF WalkInv
  <2>. QED
    BY <2>1, <2>5, <2>6 DEF RunInv
<1>4. CASE SubmitRaises(Head(initialItems)) /\ UNCHANGED entitiesSampled
  <2>1. /\ MeasurementsTypeOK' /\ experimentsRequested' = experimentsRequested
        /\ walk' = "raised"
    BY <1>0, <1>2, <1>4, SubmitRaisesType
  <2>2. /\ initialItems' = Tail(initialItems) /\ entitiesSampled' = entitiesSampled
        /\ UNCHANGED <<exhausted, finishedRequests, retries, batchingQueue,
                       updateQueue, criticalError, sent>>
    BY <1>4 DEF InitialSubmit
  <2>3. WalkTypeOK'
    BY <1>0, <1>2, <2>1, <2>2 DEF WalkTypeOK
  <2>4. WalkInv'
    BY <1>0, <1>1, <2>1, <2>2 DEF WalkInv
  <2>. QED
    BY <2>1, <2>3, <2>4 DEF RunInv
<1>. QED
  BY <1>3, <1>4 DEF InitialSubmit

\* One turn of the loop, for a finished request.
LEMMA ProcessUpdateStep ==
  ASSUME RunInv, ProcessUpdate
  PROVE  RunInv'
<1>0. MeasurementsTypeOK /\ WalkTypeOK /\ WalkInv
  BY DEF RunInv
<1>. DEFINE request == Head(updateQueue)
<1>1. /\ walk = "batching" /\ ~criticalError
      /\ finishedRequests \in Nat /\ experimentsRequested \in Nat
      /\ finishedRequests < experimentsRequested
      /\ entitiesSampled \in 0 .. NumberEntities
      /\ updateQueue \in Seq(Update) /\ updateQueue # <<>>
      /\ initialItems = <<>>
  BY <1>0 DEF ProcessUpdate, WaitingOnRequests, WalkTypeOK, WalkInv
<1>2. request \in Answered /\ Tail(updateQueue) \in Seq(Update)
  BY <1>1 DEF ProcessUpdate, Update
<1>3. /\ QueueAfter(request) \in Seq(Item)
      /\ retries' \in [Indices -> 0 .. MaxRetries]
  BY <1>0, <1>2, ProcessCompletedType DEF ProcessUpdate
<1>4. PICK outcome \in SamplingOutcomes(QueueAfter(request)) :
        /\ entitiesSampled' = outcome.sampled
        /\ exhausted' = outcome.over
        /\ GetAndSubmit(outcome.queue)
  BY DEF ProcessUpdate
<1>5. /\ outcome.queue \in Seq(Item)
      /\ entitiesSampled' \in 0 .. NumberEntities
      /\ entitiesSampled' >= entitiesSampled
      /\ exhausted' \in BOOLEAN
      /\ outcome.queue = <<>> => entitiesSampled' = NumberEntities \/ exhausted'
  BY <1>0, <1>3, <1>4, SamplingType
<1>6. /\ finishedRequests' = finishedRequests + 1
      /\ updateQueue' = Tail(updateQueue)
      /\ UNCHANGED <<initialItems, criticalError, sent>>
  BY DEF ProcessUpdate
<1>7. CASE outcome.queue = <<>>
  <2>1. /\ batchingQueue' = <<>> /\ walk' = walk
        /\ experimentsRequested' = experimentsRequested
        /\ UNCHANGED measurementVars
    BY <1>4, <1>7 DEF GetAndSubmit
  <2>2. MeasurementsTypeOK'
    BY <1>0, <2>1 DEF MeasurementsTypeOK, measurementVars
  <2>3. WalkTypeOK'
    BY <1>0, <1>1, <1>2, <1>3, <1>5, <1>6, <2>1 DEF WalkTypeOK
  <2>4. WalkInv'
    BY <1>0, <1>1, <1>5, <1>6, <1>7, <2>1 DEF WalkInv, NothingLeft
  <2>. QED
    BY <2>2, <2>3, <2>4 DEF RunInv
<1>8. CASE outcome.queue # <<>>
  <2>1. Head(outcome.queue) \in Item /\ Tail(outcome.queue) \in Seq(Item)
    BY <1>5, <1>8
  <2>2. /\ batchingQueue' = Tail(outcome.queue)
        /\ Submit(Head(outcome.queue)) \/ SubmitRaises(Head(outcome.queue))
    BY <1>4, <1>8 DEF GetAndSubmit
  <2>3. /\ MeasurementsTypeOK' /\ experimentsRequested' \in Nat
        /\ \/ experimentsRequested' > experimentsRequested /\ walk' = walk
           \/ experimentsRequested' = experimentsRequested /\ walk' = "raised"
    BY <1>0, <1>1, <2>1, <2>2, SubmitType, SubmitRaisesType
  <2>4. WalkTypeOK'
    BY <1>0, <1>1, <1>2, <1>3, <1>5, <1>6, <2>1, <2>2, <2>3 DEF WalkTypeOK
  <2>5. WalkInv'
    BY <1>0, <1>1, <1>5, <1>6, <2>3 DEF WalkInv
  <2>. QED
    BY <2>3, <2>4, <2>5 DEF RunInv
<1>. QED
  BY <1>7, <1>8

\* The other steps of run(), and the callbacks.
LEMMA InternalStep ==
  ASSUME RunInv, RunInternal \/ RunStarts, UNCHANGED measurementVars
  PROVE  RunInv'
<1>0. MeasurementsTypeOK /\ WalkTypeOK /\ WalkInv
  BY DEF RunInv
<1>1. MeasurementsTypeOK'
  BY <1>0 DEF MeasurementsTypeOK, measurementVars
<1>2. CASE InitialSample
  <2>1. entitiesSampled \in Indices /\ entitiesSampled < BatchSize /\ walk = "initial"
    BY <1>0, <1>2, Constants
       DEF InitialSample, MoreInitialEntities, WalkTypeOK, Indices
  <2>2. initialItems' \in Seq(Item)
    BY <1>2, <2>1, Constants, ItemsOfType DEF InitialSample
  <2>3. WalkTypeOK' /\ WalkInv'
    BY <1>0, <1>2, <2>1, <2>2 DEF InitialSample, WalkTypeOK, WalkInv, NothingLeft
  <2>. QED
    BY <1>1, <2>3 DEF RunInv
<1>3. CASE InitialExhausted
  BY <1>0, <1>1, <1>3
     DEF InitialExhausted, MoreInitialEntities, WalkTypeOK, WalkInv, RunInv
<1>4. CASE InitialBatchSubmitted
  <2>1. WalkTypeOK' /\ initialItems' = <<>>
    BY <1>0, <1>4 DEF InitialBatchSubmitted, WalkTypeOK
  <2>2. finishedRequests < experimentsRequested \/ NothingLeft
    <3>1. CASE exhausted
      BY <1>0, <1>4, <3>1 DEF InitialBatchSubmitted, WalkInv, NothingLeft
    <3>2. CASE entitiesSampled = BatchSize
      BY <1>0, <1>4, <3>2, Constants DEF InitialBatchSubmitted, WalkInv, WalkTypeOK
    <3>. QED
      BY <1>4, <3>1, <3>2 DEF InitialBatchSubmitted
  <2>3. WalkInv'
    BY <1>0, <1>4, <2>1, <2>2 DEF InitialBatchSubmitted, WalkInv, NothingLeft
  <2>. QED
    BY <1>1, <2>1, <2>3 DEF RunInv
<1>5. CASE ProcessError
  <2>1. updateQueue' \in Seq(Update)
    BY <1>0, <1>5 DEF ProcessError, WalkTypeOK
  <2>2. WalkTypeOK' /\ WalkInv'
    BY <1>0, <1>5, <2>1
       DEF ProcessError, WaitingOnRequests, WalkTypeOK, WalkInv, NothingLeft
  <2>. QED
    BY <1>1, <2>2 DEF RunInv
<1>6. CASE RunReturns
  <2>1. initialItems = <<>>
    BY <1>0, <1>6 DEF RunReturns, WalkInv
  <2>2. ~criticalError => finishedRequests = experimentsRequested /\ NothingLeft
    BY <1>0, <1>6 DEF RunReturns, WalkInv, WalkTypeOK
  <2>3. WalkTypeOK' /\ WalkInv'
    BY <1>0, <1>6, <2>1, <2>2 DEF RunReturns, WalkTypeOK, WalkInv, NothingLeft
  <2>. QED
    BY <1>1, <2>3 DEF RunInv
<1>7. CASE RunStarts
  BY <1>0, <1>1, <1>7 DEF RunStarts, WalkTypeOK, WalkInv, RunInv, NothingLeft
<1>. QED
  BY <1>2, <1>3, <1>4, <1>5, <1>6, <1>7 DEF RunInternal

\* onUpdate and onError only move a call to the update queue.
LEMMA CallbackStep ==
  ASSUME RunInv, NEW update \in sent[Operator], ExecuteCall(update),
         UNCHANGED measurementVars
  PROVE  RunInv'
<1>0. MeasurementsTypeOK /\ WalkTypeOK /\ WalkInv
  BY DEF RunInv
<1>1. MeasurementsTypeOK'
  BY <1>0 DEF MeasurementsTypeOK, measurementVars
<1>2. update \in Update /\ updateQueue' = Append(updateQueue, update)
  BY <1>0, Constants DEF WalkTypeOK, ExecuteCall
<1>3. updateQueue' \in Seq(Update)
  BY <1>0, <1>2, AppendType DEF WalkTypeOK
<1>4. sent' \in [Subscribers -> SUBSET Update]
  BY <1>0 DEF WalkTypeOK, ExecuteCall
<1>5. WalkTypeOK' /\ WalkInv'
  BY <1>0, <1>3, <1>4 DEF ExecuteCall, WalkTypeOK, WalkInv, NothingLeft
<1>. QED
  BY <1>1, <1>5 DEF RunInv

-----------------------------------------------------------------------------
(* Steps of the manager and the driver.                                    *)

ManagerTypes ==
  /\ measurementQueue \in Seq(Answered)
  /\ sent \in [Subscribers -> SUBSET Update]
  /\ Manager!ManagerTypeOK

\* The monitoring loop keeps the types of what it changes.
LEMMA MonitorType ==
  ASSUME ManagerTypes, Manager!MonitorStep
  PROVE  ManagerTypes'
<1>. USE DEF ManagerTypes, Manager!ManagerTypeOK, Manager!Call, Update
<1>1. CASE Manager!TestIsAlive
  BY <1>1 DEF Manager!TestIsAlive
<1>2. CASE Manager!GetTimesOut
  BY <1>2 DEF Manager!GetTimesOut
<1>3. CASE Manager!StoreAndNotify
  <2>. USE <1>3 DEF Manager!StoreAndNotify
  <2>1. Head(measurementQueue) \in Answered /\ Tail(measurementQueue) \in Seq(Answered)
    OBVIOUS
  <2>2. measurementQueue' \in Seq(Answered) /\ stored' \in Seq(Answered)
    BY <2>1
  <2>3. sent' \in [Subscribers -> SUBSET Update]
    BY <2>1
  <2>4. subscribed' \in SUBSET Subscribers /\ promiseBroken' \in BOOLEAN
    OBVIOUS
  <2>. QED
    BY <2>2, <2>3, <2>4
<1>4. CASE Manager!StoreFails
  <2>. USE <1>4 DEF Manager!StoreFails
  <2>1. measurementQueue' \in Seq(Answered)
    OBVIOUS
  <2>2. sent' \in [Subscribers -> SUBSET Update]
    OBVIOUS
  <2>. QED
    BY <2>1, <2>2
<1>5. CASE Manager!MonitoringCompletes
  BY <1>5 DEF Manager!MonitoringCompletes
<1>6. CASE Manager!GatherRaises
  BY <1>6 DEF Manager!GatherRaises
<1>. QED
  BY <1>1, <1>2, <1>3, <1>4, <1>5, <1>6 DEF Manager!MonitorStep

\* So do the calls made on the manager, and the death of an operator.
LEMMA ManagerCallType ==
  ASSUME ManagerTypes,
         \/ Manager!StartMonitoring
         \/ Manager!Shutdown
         \/ Manager!UnsubscribeFromUpdates(Operator)
         \/ Manager!SubscriberCrashes(Operator)
  PROVE  ManagerTypes'
BY Constants
   DEF ManagerTypes, Manager!ManagerTypeOK, Manager!Call, Update,
       Manager!StartMonitoring, Manager!Shutdown,
       Manager!UnsubscribeFromUpdates, Manager!SubscriberCrashes

\* A step that leaves the operator alone keeps what is known of it.
LEMMA OperatorUntouched ==
  ASSUME RunInv, ManagerTypes', UNCHANGED operatorVars
  PROVE  RunInv'
BY DEF RunInv, MeasurementsTypeOK, WalkTypeOK, WalkInv, NothingLeft,
       ManagerTypes, operatorVars

-----------------------------------------------------------------------------
(* The whole operation.                                                    *)

OperationInv == TypeOK /\ WalkInv

\* Every step of the operation keeps the types and WalkInv.
LEMMA OperationStep == OperationInv /\ [Next]_vars => OperationInv'
<1>. SUFFICES ASSUME OperationInv, [Next]_vars PROVE OperationInv'
  OBVIOUS
<1>0. /\ RunInv /\ ManagerTypes
      /\ driver \in {"setup", "running", "shutdown", "done"}
      /\ exitState \in {"none", "SUCCESS", "ERROR"}
  BY DEF OperationInv, TypeOK, RunInv, ManagerTypes, MeasurementsTypeOK, WalkTypeOK
<1>. DEFINE DriverTypes ==
       /\ driver \in {"setup", "running", "shutdown", "done"}
       /\ exitState \in {"none", "SUCCESS", "ERROR"}
<1>1. ASSUME RunInv', UNCHANGED managerVars, DriverTypes' PROVE OperationInv'
  BY <1>0, <1>1 DEF OperationInv, TypeOK, RunInv, ManagerTypes, managerVars,
     MeasurementsTypeOK, WalkTypeOK, Manager!ManagerTypeOK, Manager!Call, Update
<1>2. ASSUME ManagerTypes', UNCHANGED operatorVars, DriverTypes' PROVE OperationInv'
  <2>1. RunInv'
    BY <1>0, <1>2, OperatorUntouched
  <2>. QED
    BY <1>2, <2>1 DEF OperationInv, TypeOK, RunInv, ManagerTypes
<1>3. CASE ActuatorStep
  <2>1. MeasurementsTypeOK'
    BY <1>0, <1>3, ActuatorCompletesType DEF ActuatorStep, RunInv
  <2>2. RunInv'
    BY <1>0, <1>3, <2>1
       DEF ActuatorStep, walkVars, RunInv, WalkTypeOK, WalkInv, NothingLeft
  <2>. QED
    BY <1>0, <1>1, <1>3, <2>2 DEF ActuatorStep, driverVars
<1>4. CASE OperatorCallback
  BY <1>0, <1>1, <1>4, CallbackStep DEF OperatorCallback, driverVars
<1>5. CASE OperatorInternal
  BY <1>0, <1>1, <1>5, InternalStep DEF OperatorInternal, driverVars
<1>6. CASE OperatorSubmits
  BY <1>0, <1>1, <1>6, InitialSubmitStep, ProcessUpdateStep
     DEF OperatorSubmits, RunSubmits, driverVars
<1>7. CASE ManagerStep
  BY <1>0, <1>2, <1>7, MonitorType DEF ManagerStep, driverVars
<1>8. CASE OperatorUnsubscribed
  BY <1>0, <1>2, <1>8, ManagerCallType DEF OperatorUnsubscribed, driverVars
<1>9. CASE OperatorCrashes
  BY <1>0, <1>2, <1>9, ManagerCallType DEF OperatorCrashes, driverVars
<1>10. CASE DriverRuns
  <2>1. RunInv' /\ ManagerTypes'
    BY <1>0, <1>10, InternalStep, ManagerCallType DEF DriverRuns
  <2>. QED
    BY <1>0, <1>10, <2>1 DEF DriverRuns, OperationInv, TypeOK, RunInv, ManagerTypes
<1>11. CASE SetupFails
  BY <1>0, <1>2, <1>11, ManagerCallType DEF SetupFails
<1>12. CASE DriverStopsWaiting
  BY <1>0, <1>2, <1>12, ManagerCallType DEF DriverStopsWaiting
<1>13. CASE DriverInterrupted
  BY <1>0, <1>2, <1>13, ManagerCallType DEF DriverInterrupted
<1>14. CASE DriverFinishes
  <2>1. RunInv'
    BY <1>0, <1>14 DEF DriverFinishes, measurementVars, walkVars, RunInv,
       MeasurementsTypeOK, WalkTypeOK, WalkInv, NothingLeft
  <2>. QED
    BY <1>0, <1>1, <1>14, <2>1 DEF DriverFinishes
<1>15. CASE UNCHANGED vars
  <2>1. RunInv'
    BY <1>0, <1>15 DEF vars, measurementVars, walkVars, RunInv,
       MeasurementsTypeOK, WalkTypeOK, WalkInv, NothingLeft
  <2>. QED
    BY <1>0, <1>1, <1>15, <2>1 DEF vars, driverVars
<1>. QED
  BY <1>3, <1>4, <1>5, <1>6, <1>7, <1>8, <1>9, <1>10, <1>11, <1>12, <1>13,
     <1>14, <1>15 DEF Next

\* The initial states satisfy both.
LEMMA OperationInit == Init => OperationInv
<1>. SUFFICES ASSUME Init PROVE OperationInv
  OBVIOUS
<1>1. MeasurementsTypeOK
  BY DEF Init, MeasurementsInit, Held, MeasurementsTypeOK
<1>2. WalkTypeOK /\ WalkInv
  <2>. USE DEF Init, WalkInit
  <2>1. initialItems \in Seq(Item) /\ batchingQueue \in Seq(Item)
    OBVIOUS
  <2>2. updateQueue \in Seq(Update)
    OBVIOUS
  <2>. sent \in [Subscribers -> SUBSET Update]
    OBVIOUS
  <2>3. retries \in [Indices -> 0 .. MaxRetries]
    BY Constants
  <2>4. /\ walk \in {"created", "initial", "batching", "returned", "raised"}
        /\ entitiesSampled \in 0 .. NumberEntities
        /\ experimentsRequested \in Nat /\ finishedRequests \in Nat
    BY Constants
  <2>. exhausted \in BOOLEAN /\ criticalError \in BOOLEAN
    OBVIOUS
  <2>5. WalkInv
    BY Constants DEF WalkInv
  <2>. HIDE DEF Init, WalkInit
  <2>6. WalkTypeOK
    BY <2>1, <2>2, <2>3, <2>4 DEF WalkTypeOK
  <2>. QED
    BY <2>5, <2>6
<1>3. stored \in Seq(Answered) /\ sent \in [Subscribers -> SUBSET Update]
  BY DEF Init, Manager!ManagerInit
<1>4. Manager!ManagerTypeOK
  BY <1>1, <1>3 DEF Init, Manager!ManagerInit, Manager!ManagerTypeOK,
     Manager!Call, Update, MeasurementsTypeOK
<1>. QED
  BY <1>1, <1>2, <1>4 DEF Init, OperationInv, TypeOK

(***************************************************************************)
(* Type correctness of the whole operation, whatever fails: in particular  *)
(* retries never exceed maxRetries and no more entities are sampled than   *)
(* numberEntities.                                                         *)
(***************************************************************************)
THEOREM TypeCorrect == Spec => []TypeOK
<1>1. OperationInv => TypeOK
  BY DEF OperationInv
<1>. QED
  BY <1>1, OperationInit, OperationStep, PTL DEF Spec

(***************************************************************************)
(* A run() that returns without a critical error has sampled all entities  *)
(* it could, emptied its batching queue and finished all its requests.     *)
(***************************************************************************)
THEOREM ReturnedCorrect == Spec => []ReturnedMeansSampled
<1>1. OperationInv => ReturnedMeansSampled
  BY DEF OperationInv, WalkInv, NothingLeft, ReturnedMeansSampled
<1>. QED
  BY <1>1, OperationInit, OperationStep, PTL DEF Spec

-----------------------------------------------------------------------------
(* The way of the requests.                                                *)

\* The requests that are on their way to the operator, or with an actuator.
Live == inFlight \cup Requests(measurementQueue) \cup Notified

\* Requests are numbered in the order they are made, and each is in one place.
Numbered ==
  /\ \A r \in Live : r.id <= experimentsRequested
  /\ \A r, q \in Live : r.id = q.id => r = q
  /\ \A i, j \in DOMAIN measurementQueue :
       measurementQueue[i] = measurementQueue[j] => i = j
  /\ Requests(measurementQueue) \cap Notified = {}

\* The operator is notified of a request once.
NotifiedOnce ==
  /\ \A i, j \in DOMAIN updateQueue :
       updateQueue[i] = updateQueue[j] /\ updateQueue[i] # CriticalError => i = j
  /\ sent[Operator] \cap Requests(updateQueue) \subseteq {CriticalError}

\* What was requested is with an actuator, on the measurement queue or stored,
\* except for what a failure to store has dropped.
HandedOn ==
  /\ IsFiniteSet(inFlight)
  /\ Len(stored) + Len(measurementQueue) + Cardinality(inFlight)
       <= experimentsRequested
  /\ ~monitoringError =>
       Len(stored) + Len(measurementQueue) + Cardinality(inFlight)
         = experimentsRequested

\* What is stored is notified or finished, except for what the operator was
\* not sent or lost when it died.
PassedOn ==
  /\ IsFiniteSet(Notified)
  /\ Notified \subseteq Requests(stored)
  /\ finishedRequests + Cardinality(Notified) <= Len(stored)
  /\ Operator \in subscribed \ crashed =>
       ~monitoringError /\ finishedRequests + Cardinality(Notified) = Len(stored)

\* The requests that have left the measurement queue, and those the operator
\* was notified of and did not lose.  When the latter are fewer, a request was
\* dropped on its way, and run() waits for it until an error is reported.
Passed == experimentsRequested - (Len(measurementQueue) + Cardinality(inFlight))
Seen == finishedRequests + Cardinality(Notified)
Dropped == Seen < Passed

\* The counts are numbers.
RequestCounts ==
  /\ Len(measurementQueue) \in Nat /\ Cardinality(inFlight) \in Nat
  /\ Cardinality(Notified) \in Nat /\ Len(stored) \in Nat
  /\ experimentsRequested \in Nat /\ finishedRequests \in Nat
  /\ Passed \in Int /\ Seen \in Nat

\* SUCCESS is recorded once run() has returned.
RecordedAfterReturn == exitState = "SUCCESS" => walk = "returned"

RequestsInv ==
  Numbered /\ NotifiedOnce /\ HandedOn /\ PassedOn /\ RecordedAfterReturn

\* The types of what is on the way.
LEMMA LiveTypes ==
  ASSUME OperationInv
  PROVE  /\ inFlight \subseteq Request \ Answered
         /\ measurementQueue \in Seq(Answered)
         /\ Requests(measurementQueue) \subseteq Answered
         /\ Notified \subseteq Answered
         /\ updateQueue \in Seq(Update) /\ sent[Operator] \subseteq Update
         /\ stored \in Seq(Answered) /\ Len(stored) \in Nat
         /\ Live \subseteq Request /\ CriticalError \notin Request
         /\ experimentsRequested \in Nat /\ finishedRequests \in Nat
<1>1. /\ inFlight \subseteq Request \ Answered
      /\ measurementQueue \in Seq(Answered) /\ stored \in Seq(Answered)
      /\ updateQueue \in Seq(Update) /\ sent[Operator] \subseteq Update
      /\ experimentsRequested \in Nat /\ finishedRequests \in Nat
  BY Constants DEF OperationInv, TypeOK, MeasurementsTypeOK, WalkTypeOK,
                   Manager!ManagerTypeOK
<1>2. Requests(measurementQueue) \subseteq Answered
      /\ Requests(updateQueue) \subseteq Update
  BY <1>1 DEF Requests
<1>3. Notified \subseteq Answered
  BY <1>1, <1>2 DEF Notified, Update
<1>. QED
  BY <1>1, <1>2, <1>3, Constants DEF Live, Answered

\* The counts are numbers whenever the invariants hold.
LEMMA RequestCountsType ==
  ASSUME OperationInv, IsFiniteSet(inFlight), IsFiniteSet(Notified)
  PROVE  RequestCounts
<1>1. /\ Len(stored) \in Nat /\ measurementQueue \in Seq(Answered)
      /\ experimentsRequested \in Nat /\ finishedRequests \in Nat
  BY LiveTypes
<1>2. Cardinality(inFlight) \in Nat /\ Cardinality(Notified) \in Nat
  BY FS_CardinalityType
<1>3. Len(measurementQueue) \in Nat
  BY <1>1
<1>. QED
  BY <1>1, <1>2, <1>3 DEF RequestCounts, Passed, Seen

\* The requests on a sequence that grew at its end, lost its head or was joined.
LEMMA RequestsAppend ==
  ASSUME NEW S, NEW s \in Seq(S), NEW x \in S
  PROVE  Requests(Append(s, x)) = Requests(s) \cup {x}
<1>1. /\ DOMAIN Append(s, x) = DOMAIN s \cup {Len(s) + 1}
      /\ \A k \in DOMAIN s : Append(s, x)[k] = s[k]
      /\ Append(s, x)[Len(s) + 1] = x
  OBVIOUS
<1>. QED
  BY <1>1 DEF Requests

\* The head of a sequence of requests, and those after it.
LEMMA RequestsTail ==
  ASSUME NEW S, NEW s \in Seq(S), s # <<>>
  PROVE  /\ Head(s) \in S /\ Tail(s) \in Seq(S) /\ Len(Tail(s)) = Len(s) - 1
         /\ Head(s) = s[1] /\ 1 \in DOMAIN s
         /\ \A k \in DOMAIN Tail(s) : k + 1 \in DOMAIN s /\ Tail(s)[k] = s[k + 1]
         /\ Requests(s) = {Head(s)} \cup Requests(Tail(s))
<1>1. /\ Head(s) \in S /\ Tail(s) \in Seq(S) /\ Len(Tail(s)) = Len(s) - 1
      /\ Head(s) = s[1] /\ 1 \in DOMAIN s
      /\ \A k \in DOMAIN Tail(s) : k + 1 \in DOMAIN s /\ Tail(s)[k] = s[k + 1]
  OBVIOUS
<1>2. \A k \in DOMAIN s : k # 1 => k - 1 \in DOMAIN Tail(s) /\ s[k] = Tail(s)[k - 1]
  OBVIOUS
<1>3. ASSUME NEW x \in Requests(s)
      PROVE  x \in {Head(s)} \cup Requests(Tail(s))
  <2>1. PICK k \in DOMAIN s : x = s[k]
    BY DEF Requests
  <2>2. CASE k = 1
    BY <1>1, <2>1, <2>2
  <2>3. CASE k # 1
    BY <1>2, <2>1, <2>3 DEF Requests
  <2>. QED
    BY <2>2, <2>3
<1>4. Requests(Tail(s)) \subseteq Requests(s) /\ Head(s) \in Requests(s)
  BY <1>1 DEF Requests
<1>. QED
  BY <1>1, <1>3, <1>4

\* The requests of two sequences, one after the other.
LEMMA RequestsConcat ==
  ASSUME NEW S, NEW s \in Seq(S), NEW t \in Seq(S)
  PROVE  /\ s \o t \in Seq(S) /\ Len(s \o t) = Len(s) + Len(t)
         /\ DOMAIN s \subseteq DOMAIN (s \o t) /\ \A k \in DOMAIN s : (s \o t)[k] = s[k]
         /\ \A k \in DOMAIN t : /\ Len(s) + k \in DOMAIN (s \o t)
                                /\ (s \o t)[Len(s) + k] = t[k]
         /\ \A k \in DOMAIN (s \o t) : k \notin DOMAIN s => k - Len(s) \in DOMAIN t
         /\ Requests(s \o t) = Requests(s) \cup Requests(t)
<1>1. /\ s \o t \in Seq(S) /\ Len(s \o t) = Len(s) + Len(t)
      /\ DOMAIN s \subseteq DOMAIN (s \o t) /\ \A k \in DOMAIN s : (s \o t)[k] = s[k]
      /\ \A k \in DOMAIN t : /\ Len(s) + k \in DOMAIN (s \o t)
                             /\ (s \o t)[Len(s) + k] = t[k]
      /\ \A k \in DOMAIN (s \o t) : k \notin DOMAIN s => k - Len(s) \in DOMAIN t
  OBVIOUS
<1>2. \A k \in DOMAIN (s \o t) : k \notin DOMAIN s =>
        k - Len(s) \in DOMAIN t /\ (s \o t)[k] = t[k - Len(s)]
  <2>. SUFFICES ASSUME NEW k \in DOMAIN (s \o t), k \notin DOMAIN s
                PROVE  k - Len(s) \in DOMAIN t /\ (s \o t)[k] = t[k - Len(s)]
    OBVIOUS
  <2>1. k - Len(s) \in DOMAIN t /\ Len(s) + (k - Len(s)) = k
    BY <1>1
  <2>. QED
    BY <1>1, <2>1
<1>3. ASSUME NEW x \in Requests(s \o t)
      PROVE  x \in Requests(s) \cup Requests(t)
  <2>1. PICK k \in DOMAIN (s \o t) : x = (s \o t)[k]
    BY DEF Requests
  <2>2. CASE k \in DOMAIN s
    BY <1>1, <2>1, <2>2 DEF Requests
  <2>3. CASE k \notin DOMAIN s
    BY <1>2, <2>1, <2>3 DEF Requests
  <2>. QED
    BY <2>2, <2>3
<1>4. Requests(s) \subseteq Requests(s \o t)
  BY <1>1 DEF Requests
<1>5. ASSUME NEW x \in Requests(t)
      PROVE  x \in Requests(s \o t)
  <2>1. PICK k \in DOMAIN t : x = t[k]
    BY DEF Requests
  <2>2. Len(s) + k \in DOMAIN (s \o t) /\ (s \o t)[Len(s) + k] = x
    BY <1>1, <2>1
  <2>. QED
    BY <2>2 DEF Requests
<1>. QED
  BY <1>1, <1>3, <1>4, <1>5

\* The requests one call of measure_or_replay makes: replays are queued, as is
\* the answer to an external experiment; an actuator gets one request.
Queues(item, new) ==
  /\ measurementQueue' = measurementQueue \o new /\ inFlight' = inFlight
  /\ Len(new) = NumberCreated(item)
  /\ \A k \in DOMAIN new : /\ new[k].id = experimentsRequested + k
                           /\ new[k].index = item.index
                           /\ new[k].experiment = item.experiment
Starts(item, new) ==
  /\ inFlight' = inFlight \cup {new} /\ measurementQueue' = measurementQueue
  /\ NumberCreated(item) = 1
  /\ new.id = experimentsRequested + 1
  /\ new.index = item.index /\ new.experiment = item.experiment

\* What a submission creates.
LEMMA SubmitCreates ==
  ASSUME MeasurementsTypeOK, experimentsRequested \in Nat, NEW item \in Item,
         Submit(item)
  PROVE  /\ NumberCreated(item) \in Nat \ {0}
         /\ experimentsRequested' = experimentsRequested + NumberCreated(item)
         /\ memoized' = memoized /\ walk' = walk
         /\ \/ \E new \in Seq(Answered) : Queues(item, new)
            \/ \E new \in Request \ Answered : Starts(item, new)
<1>. DEFINE last == experimentsRequested
            results == memoized[item.index][item.experiment]
<1>1. /\ NumberCreated(item) \in Nat \ {0}
      /\ experimentsRequested' = last + NumberCreated(item)
      /\ memoized' = memoized /\ walk' = walk /\ MeasureOrReplay(item, last)
  BY NumberCreatedPositive DEF Submit, MeasureOrReplay
<1>2. results \in Nat /\ last + 1 \in Nat \ {0}
  BY Constants DEF MeasurementsTypeOK, Item
<1>3. CASE Replay(item, last)
  <2>. DEFINE replays == [k \in 1 .. results |-> RequestFor(item, last + k, "Success", TRUE)]
  <2>1. ASSUME NEW k \in 1 .. results
        PROVE  RequestFor(item, last + k, "Success", TRUE) \in Answered
    <3>1. last + k \in Nat \ {0}
      BY <1>2
    <3>. QED
      BY <3>1, RequestForType DEF Status
  <2>2. replays \in Seq(Answered)
    <3>1. replays \in [1 .. results -> Answered]
      BY <2>1
    <3>. QED
      BY ONLY <1>2, <3>1, FunctionIsSeq
  <2>3. DOMAIN replays = 1 .. results /\ Len(replays) = results
    BY <1>2, <2>2
  <2>4. /\ measurementQueue' = measurementQueue \o replays /\ inFlight' = inFlight
        /\ NumberCreated(item) = results
    <3>1. measurementQueue' = measurementQueue \o replays /\ inFlight' = inFlight
      BY <1>3 DEF Replay
    <3>2. NumberCreated(item) = results
      <4>1. results # 0
        BY <1>2, <1>3 DEF Replay
      <4>. QED
        BY <4>1 DEF NumberCreated
    <3>. QED
      BY <3>1, <3>2
  <2>5. \A k \in DOMAIN replays : /\ replays[k].id = last + k
                                  /\ replays[k].index = item.index
                                  /\ replays[k].experiment = item.experiment
    BY DEF RequestFor
  <2>. HIDE DEF replays
  <2>6. Queues(item, replays)
    BY <2>3, <2>4, <2>5 DEF Queues
  <2>. QED
    BY <1>1, <2>2, <2>6
<1>4. CASE SubmitExternal(item, last)
  <2>. DEFINE answer == RequestFor(item, last + 1, "Failed", FALSE)
  <2>1. answer \in Answered
    BY <1>2, RequestForType DEF Status
  <2>2. /\ answer.id = last + 1 /\ answer.index = item.index
        /\ answer.experiment = item.experiment
    BY DEF RequestFor
  <2>3. /\ measurementQueue' = Append(measurementQueue, answer) /\ inFlight' = inFlight
        /\ NumberCreated(item) = 1
    BY <1>4 DEF SubmitExternal, NumberCreated
  <2>. HIDE DEF answer
  <2>4. <<answer>> \in Seq(Answered) /\ Len(<<answer>>) = 1
        /\ measurementQueue \in Seq(Answered)
    BY <2>1 DEF MeasurementsTypeOK
  <2>5. Append(measurementQueue, answer) = measurementQueue \o <<answer>>
    BY <2>1, <2>4
  <2>6. \A k \in DOMAIN <<answer>> : k = 1 /\ <<answer>>[k] = answer
    OBVIOUS
  <2>7. Queues(item, <<answer>>)
    BY <2>2, <2>3, <2>4, <2>5, <2>6 DEF Queues
  <2>. QED
    BY <1>1, <2>4, <2>7
<1>5. CASE SubmitToActuator(item, last)
  <2>. DEFINE new == RequestFor(item, last + 1, "Unknown", FALSE)
  <2>1. new \in Request \ Answered
    BY <1>2, RequestForType DEF Status
  <2>2. Starts(item, new)
    BY <1>5 DEF SubmitToActuator, NeedsMeasurement, NumberCreated, Starts, RequestFor
  <2>. QED
    BY <1>1, <2>1, <2>2
<1>. QED
  BY <1>1, <1>3, <1>4, <1>5 DEF MeasureOrReplay

\* New requests have numbers that no request had before.
LEMMA SubmitNumbered ==
  ASSUME OperationInv, Numbered, NEW item \in Item, Submit(item),
         Notified' \subseteq Notified
  PROVE  Numbered'
<1>. DEFINE last == experimentsRequested
            count == NumberCreated(item)
<1>0. /\ inFlight \subseteq Request \ Answered /\ measurementQueue \in Seq(Answered)
      /\ Requests(measurementQueue) \subseteq Answered /\ Notified \subseteq Answered
      /\ last \in Nat
  BY LiveTypes
<1>1. /\ count \in Nat \ {0} /\ last' = last + count
      /\ \/ \E new \in Seq(Answered) : Queues(item, new)
         \/ \E new \in Request \ Answered : Starts(item, new)
  BY <1>0, SubmitCreates DEF OperationInv, TypeOK
<1>2. /\ \A r \in Live : r.id \in Nat /\ r.id <= last
      /\ \A r, q \in Live : r.id = q.id => r = q
      /\ \A i, j \in DOMAIN measurementQueue :
           measurementQueue[i] = measurementQueue[j] => i = j
      /\ Requests(measurementQueue) \cap Notified = {}
  BY LiveTypes DEF Numbered, Request
<1>. HIDE DEF last, count
<1>3. ASSUME NEW new \in Seq(Answered), Queues(item, new)
      PROVE  Numbered'
  <2>1. /\ measurementQueue' = measurementQueue \o new /\ inFlight' = inFlight
        /\ Len(new) = count
        /\ \A k \in DOMAIN new : new[k].id = last + k /\ k \in 1 .. count
    BY <1>3 DEF Queues, last, count
  <2>2. \A r \in Requests(new) : \E k \in 1 .. count : r.id = last + k /\ r = new[k]
    BY <2>1 DEF Requests
  <2>3. /\ DOMAIN measurementQueue \subseteq DOMAIN measurementQueue'
        /\ \A k \in DOMAIN measurementQueue : measurementQueue'[k] = measurementQueue[k]
        /\ \A k \in DOMAIN new :
             measurementQueue'[Len(measurementQueue) + k] = new[k]
        /\ \A k \in DOMAIN measurementQueue' :
             k \notin DOMAIN measurementQueue => k - Len(measurementQueue) \in DOMAIN new
        /\ Requests(measurementQueue') = Requests(measurementQueue) \cup Requests(new)
        /\ measurementQueue' \in Seq(Answered)
    <3>. DEFINE joined == measurementQueue \o new
    <3>1. /\ DOMAIN measurementQueue \subseteq DOMAIN joined
          /\ \A k \in DOMAIN measurementQueue : joined[k] = measurementQueue[k]
          /\ \A k \in DOMAIN new : joined[Len(measurementQueue) + k] = new[k]
          /\ \A k \in DOMAIN joined :
               k \notin DOMAIN measurementQueue => k - Len(measurementQueue) \in DOMAIN new
          /\ Requests(joined) = Requests(measurementQueue) \cup Requests(new)
          /\ joined \in Seq(Answered)
      BY <1>0, RequestsConcat
    <3>. HIDE DEF joined
    <3>2. measurementQueue' = joined
      BY <2>1 DEF joined
    <3>. QED
      BY ONLY <3>1, <3>2
  <2>4. Live' \subseteq Live \cup Requests(new)
    BY <2>1, <2>3 DEF Live
  <2>5. \A r \in Requests(new) : r.id > last /\ r.id <= last + count
    BY <1>0, <1>1, <2>2
  <2>6. \A r, q \in Requests(new) : r.id = q.id => r = q
    <3>. SUFFICES ASSUME NEW r \in Requests(new), NEW q \in Requests(new), r.id = q.id
                  PROVE  r = q
      OBVIOUS
    <3>1. PICK k \in 1 .. count : r.id = last + k /\ r = new[k]
      BY <2>2
    <3>2. PICK j \in 1 .. count : q.id = last + j /\ q = new[j]
      BY <2>2
    <3>3. k \in Int /\ j \in Int /\ last \in Int /\ last + k = last + j
      BY ONLY <1>0, <1>1, <3>1, <3>2, r.id = q.id
    <3>4. k = j
      BY ONLY <3>3
    <3>. QED
      BY <3>1, <3>2, <3>4
  <2>7. \A r \in Live' : r.id <= last'
    <3>. SUFFICES ASSUME NEW r \in Live'
                  PROVE  r.id <= last'
      OBVIOUS
    <3>1. CASE r \in Live
      BY <1>0, <1>1, <1>2, <3>1
    <3>2. CASE r \in Requests(new)
      BY <1>1, <2>5, <3>2
    <3>. QED
      BY <2>4, <3>1, <3>2
  <2>8. \A r \in Live, q \in Requests(new) : r.id # q.id
    <3>. TAKE r \in Live, q \in Requests(new)
    <3>1. r.id \in Nat /\ r.id <= last /\ q.id > last
      BY <1>2, <2>5
    <3>2. PICK k \in 1 .. count : q.id = last + k
      BY <2>2
    <3>. QED
      BY <1>0, <1>1, <3>1, <3>2
  <2>9. \A r, q \in Live' : r.id = q.id => r = q
    BY <1>2, <2>4, <2>6, <2>8
  <2>10. Requests(measurementQueue') \cap Notified' = {}
    BY <1>2, <2>3, <2>8 DEF Live
  <2>11. \A i, j \in DOMAIN measurementQueue' :
           measurementQueue'[i] = measurementQueue'[j] => i = j
    <3>. SUFFICES ASSUME NEW i \in DOMAIN measurementQueue',
                         NEW j \in DOMAIN measurementQueue',
                         measurementQueue'[i] = measurementQueue'[j]
                  PROVE  i = j
      OBVIOUS
    <3>. DEFINE n == Len(measurementQueue)
    <3>0. n \in Nat /\ i \in Nat /\ j \in Nat
      BY <1>0, <2>3
    <3>1. \A k \in DOMAIN measurementQueue' : k \notin DOMAIN measurementQueue =>
            k - n \in DOMAIN new /\ measurementQueue'[k] = new[k - n]
      <4>. SUFFICES ASSUME NEW k \in DOMAIN measurementQueue', k \notin DOMAIN measurementQueue
                    PROVE  k - n \in DOMAIN new /\ measurementQueue'[k] = new[k - n]
        OBVIOUS
      <4>1. k - n \in DOMAIN new /\ k \in Nat
        BY <2>3
      <4>2. n + (k - n) = k
        BY <3>0, <4>1
      <4>. QED
        BY <2>3, <4>1, <4>2
    <3>2. \A k \in DOMAIN measurementQueue : measurementQueue[k] \in Live
      BY DEF Live, Requests
    <3>3. \A k \in DOMAIN new : new[k] \in Requests(new)
      BY DEF Requests
    <3>4. CASE i \in DOMAIN measurementQueue /\ j \in DOMAIN measurementQueue
      BY <1>2, <2>3, <3>4
    <3>5. CASE i \in DOMAIN measurementQueue /\ j \notin DOMAIN measurementQueue
      BY <2>3, <2>8, <3>1, <3>2, <3>3, <3>5
    <3>6. CASE i \notin DOMAIN measurementQueue /\ j \in DOMAIN measurementQueue
      BY <2>3, <2>8, <3>1, <3>2, <3>3, <3>6
    <3>7. CASE i \notin DOMAIN measurementQueue /\ j \notin DOMAIN measurementQueue
      <4>1. new[i - n] = new[j - n] /\ i - n \in DOMAIN new /\ j - n \in DOMAIN new
        BY <3>1, <3>7
      <4>2. last + (i - n) = last + (j - n)
        BY <2>1, <4>1
      <4>. QED
        BY <1>0, <3>0, <4>2
    <3>. QED
      BY <3>4, <3>5, <3>6, <3>7
  <2>. QED
    BY <2>7, <2>9, <2>10, <2>11 DEF Numbered, last
<1>4. ASSUME NEW new \in Request \ Answered, Starts(item, new)
      PROVE  Numbered'
  <2>1. /\ inFlight' = inFlight \cup {new} /\ measurementQueue' = measurementQueue
        /\ new.id = last + 1 /\ count = 1
    BY <1>4 DEF Starts, last, count
  <2>2. Live' \subseteq Live \cup {new}
    BY <2>1 DEF Live
  <2>3. \A r \in Live : r.id # new.id
    BY <1>0, <1>2, <2>1
  <2>4. \A r, q \in Live' : r.id = q.id => r = q
    BY <1>2, <2>2, <2>3
  <2>5. \A r \in Live' : r.id <= last'
    <3>. SUFFICES ASSUME NEW r \in Live'
                  PROVE  r.id <= last'
      OBVIOUS
    <3>1. CASE r \in Live
      BY <1>0, <1>1, <1>2, <3>1
    <3>2. CASE r = new
      BY <1>0, <1>1, <2>1, <3>2
    <3>. QED
      BY <2>2, <3>1, <3>2
  <2>6. Requests(measurementQueue)' \cap Notified' = {}
    BY <1>2, <2>1
  <2>. QED
    BY <1>2, <2>1, <2>4, <2>5, <2>6 DEF Numbered, last
<1>. QED
  BY <1>1, <1>3, <1>4

\* What the operator's submission adds to one side it adds to the other.
LEMMA AddedOnBothSides ==
  ASSUME NEW s \in Nat, NEW q \in Nat, NEW f \in Nat, NEW q1 \in Nat, NEW f1 \in Nat,
         NEW total \in Nat, NEW count \in Nat, q1 + f1 = q + f + count
  PROVE  /\ s + q + f <= total => s + q1 + f1 <= total + count
         /\ s + q + f = total => s + q1 + f1 = total + count
OBVIOUS

\* A submission hands on what it requests.
LEMMA SubmitHandedOn ==
  ASSUME OperationInv, Numbered, HandedOn, NEW item \in Item, Submit(item),
         UNCHANGED <<stored, monitoringError>>
  PROVE  HandedOn' /\ Passed' = Passed
<1>. DEFINE count == NumberCreated(item)
<1>0. /\ inFlight \subseteq Request \ Answered /\ measurementQueue \in Seq(Answered)
      /\ Len(stored) \in Nat /\ experimentsRequested \in Nat
      /\ Len(measurementQueue) \in Nat
      /\ IsFiniteSet(inFlight) /\ Cardinality(inFlight) \in Nat
  BY LiveTypes, FS_CardinalityType DEF HandedOn
<1>1. /\ count \in Nat \ {0} /\ experimentsRequested' = experimentsRequested + count
      /\ \/ \E new \in Seq(Answered) : Queues(item, new)
         \/ \E new \in Request \ Answered : Starts(item, new)
  BY <1>0, SubmitCreates DEF OperationInv, TypeOK
<1>2. ASSUME NEW new \in Seq(Answered), Queues(item, new)
      PROVE  /\ IsFiniteSet(inFlight')
             /\ Len(measurementQueue') + Cardinality(inFlight')
                  = Len(measurementQueue) + Cardinality(inFlight) + count
  <2>1. /\ measurementQueue' = measurementQueue \o new /\ inFlight' = inFlight
        /\ Len(new) = count
    BY <1>2 DEF Queues
  <2>2. Len(measurementQueue \o new) = Len(measurementQueue) + Len(new)
    BY <1>0, RequestsConcat
  <2>3. Len(measurementQueue') = Len(measurementQueue) + count
    BY <2>1, <2>2
  <2>4. /\ IsFiniteSet(inFlight')
        /\ Cardinality(inFlight') = Cardinality(inFlight)
    BY <1>0, <2>1
  <2>. HIDE DEF count
  <2>. QED
    BY ONLY <1>0, <1>1, <2>3, <2>4
<1>3. ASSUME NEW new \in Request \ Answered, Starts(item, new)
      PROVE  /\ IsFiniteSet(inFlight')
             /\ Len(measurementQueue') + Cardinality(inFlight')
                  = Len(measurementQueue) + Cardinality(inFlight) + count
  <2>1. /\ inFlight' = inFlight \cup {new} /\ measurementQueue' = measurementQueue
        /\ new.id = experimentsRequested + 1 /\ count = 1
    BY <1>3 DEF Starts
  <2>2. new \notin inFlight
    BY <1>0, <2>1 DEF Numbered, Live
  <2>3. IsFiniteSet(inFlight') /\ Cardinality(inFlight') = Cardinality(inFlight) + 1
    BY <1>0, <2>1, <2>2, FS_AddElement
  <2>. QED
    BY <1>0, <2>1, <2>3
<1>5. /\ IsFiniteSet(inFlight')
      /\ Len(measurementQueue') + Cardinality(inFlight')
           = Len(measurementQueue) + Cardinality(inFlight) + count
  BY <1>1, <1>2, <1>3
<1>6. Cardinality(inFlight') \in Nat /\ Len(measurementQueue') \in Nat
  <2>1. MeasurementsTypeOK'
    BY <1>0, SubmitType DEF OperationInv, TypeOK
  <2>. QED
    BY <1>5, <2>1, FS_CardinalityType DEF MeasurementsTypeOK
<1>7. Len(stored') = Len(stored) /\ monitoringError' = monitoringError
  OBVIOUS
<1>. DEFINE s == Len(stored)
            q == Len(measurementQueue)
            f == Cardinality(inFlight)
            q1 == Len(measurementQueue')
            f1 == Cardinality(inFlight')
<1>. HIDE DEF count
<1>8. /\ s \in Nat /\ q \in Nat /\ f \in Nat /\ q1 \in Nat /\ f1 \in Nat
      /\ experimentsRequested \in Nat /\ count \in Nat
      /\ q1 + f1 = q + f + count
  BY <1>0, <1>1, <1>5, <1>6
<1>9. /\ s + q + f <= experimentsRequested
      /\ ~monitoringError => s + q + f = experimentsRequested
  BY DEF HandedOn
<1>. HIDE DEF s, q, f, q1, f1
<1>10. /\ s + q1 + f1 <= experimentsRequested + count
       /\ ~monitoringError => s + q1 + f1 = experimentsRequested + count
  BY <1>8, <1>9, AddedOnBothSides
<1>11. HandedOn'
  BY <1>1, <1>5, <1>7, <1>10 DEF HandedOn, s, q1, f1
<1>12. Passed' = Passed
  BY <1>1, <1>8 DEF Passed, q, f, q1, f1
<1>. QED
  BY <1>11, <1>12

\* Fewer notifications, and nothing else that moves.
LEMMA FewerNotified ==
  ASSUME OperationInv, Numbered, NotifiedOnce, HandedOn, PassedOn,
         UNCHANGED <<inFlight, measurementQueue, experimentsRequested,
                     finishedRequests, stored, monitoringError, updateQueue>>,
         sent'[Operator] \subseteq sent[Operator],
         subscribed' \subseteq subscribed, crashed \subseteq crashed',
         sent'[Operator] = sent[Operator] \/ Operator \in crashed'
  PROVE  /\ Numbered' /\ NotifiedOnce' /\ HandedOn' /\ PassedOn'
         /\ Dropped => Dropped'
         /\ Live' = Live \/ Dropped'
<1>1. Notified' \subseteq Notified /\ Requests(updateQueue)' = Requests(updateQueue)
      /\ Requests(measurementQueue)' = Requests(measurementQueue)
      /\ Requests(stored)' = Requests(stored)
  BY DEF Notified, Requests
<1>2. Live' \subseteq Live
  BY <1>1 DEF Live
<1>3. Numbered'
  BY <1>1, <1>2 DEF Numbered
<1>4. NotifiedOnce' /\ HandedOn'
  BY <1>1 DEF NotifiedOnce, HandedOn
<1>5. /\ IsFiniteSet(Notified) /\ IsFiniteSet(Notified')
      /\ Cardinality(Notified) \in Nat /\ Cardinality(Notified') \in Nat
      /\ Cardinality(Notified') <= Cardinality(Notified)
  BY <1>1, FS_Subset, FS_CardinalityType DEF PassedOn
<1>6. sent'[Operator] = sent[Operator] => Notified' = Notified
  BY DEF Notified, Requests
<1>7. Operator \in subscribed' \ crashed' => Notified' = Notified
  BY <1>6
<1>8. finishedRequests \in Nat /\ Len(stored) \in Nat
  BY LiveTypes
<1>9. PassedOn'
  BY <1>1, <1>5, <1>7, <1>8 DEF PassedOn
<1>10. RequestCounts /\ Passed' = Passed /\ Seen' \in Nat /\ Seen' <= Seen
  BY <1>5, <1>8, RequestCountsType DEF HandedOn, Passed, Seen
<1>11. Dropped => Dropped'
  BY <1>10 DEF Dropped, RequestCounts
<1>12. Live' = Live \/ Dropped'
  <2>1. CASE Notified' = Notified
    BY <1>1, <2>1 DEF Live
  <2>2. CASE Notified' # Notified
    <3>1. Cardinality(Notified') < Cardinality(Notified)
      BY <1>1, <1>5, <2>2, FS_Subset
    <3>2. Seen' < Seen
      BY <1>5, <1>8, <3>1 DEF Seen
    <3>3. Seen <= Passed
      BY <1>10 DEF HandedOn, PassedOn, RequestCounts, Seen, Passed
    <3>. QED
      BY <1>10, <3>2, <3>3 DEF Dropped, RequestCounts
  <2>. QED
    BY <2>1, <2>2
<1>. QED
  BY <1>3, <1>4, <1>9, <1>11, <1>12

\* run() takes a notification off its queue.
LEMMA NotificationTaken ==
  ASSUME OperationInv, NotifiedOnce, updateQueue # <<>>,
         updateQueue' = Tail(updateQueue), sent' = sent
  PROVE  /\ NotifiedOnce'
         /\ Head(updateQueue) = CriticalError => Notified' = Notified
         /\ Head(updateQueue) # CriticalError =>
              /\ Head(updateQueue) \in Notified \cap Answered
              /\ Notified' = Notified \ {Head(updateQueue)}
<1>. DEFINE head == Head(updateQueue)
            rest == Tail(updateQueue)
<1>1. /\ updateQueue \in Seq(Update) /\ head \in Update
      /\ head = updateQueue[1] /\ 1 \in DOMAIN updateQueue
      /\ \A k \in DOMAIN rest : k + 1 \in DOMAIN updateQueue /\ rest[k] = updateQueue[k + 1]
      /\ Requests(updateQueue) = {head} \cup Requests(rest)
      /\ rest \in Seq(Update)
  BY LiveTypes, RequestsTail
<1>2. \A k \in DOMAIN rest : k \in Nat /\ k # 0
  BY <1>1
<1>. HIDE DEF head, rest
<1>3. updateQueue' = rest /\ sent' = sent /\ Requests(updateQueue)' = Requests(rest)
  BY DEF rest, Requests
<1>4. head # CriticalError => head \notin Requests(rest)
  <2>. SUFFICES ASSUME head # CriticalError, NEW k \in DOMAIN rest, head = rest[k]
                PROVE  FALSE
    BY DEF Requests
  <2>1. updateQueue[1] = updateQueue[k + 1] /\ k + 1 \in DOMAIN updateQueue
    BY <1>1
  <2>2. 1 = k + 1
    BY <1>1, <2>1 DEF NotifiedOnce
  <2>. QED
    BY <1>2, <2>2
<1>5. head # CriticalError => head \notin sent[Operator]
  BY <1>1 DEF NotifiedOnce
<1>6. NotifiedOnce'
  <2>1. ASSUME NEW i \in DOMAIN rest, NEW j \in DOMAIN rest,
               rest[i] = rest[j], rest[i] # CriticalError
        PROVE  i = j
    <3>1. i + 1 = j + 1
      BY <1>1, <2>1 DEF NotifiedOnce
    <3>. QED
      BY <1>2, <3>1
  <2>2. sent[Operator] \cap Requests(rest) \subseteq {CriticalError}
    BY <1>1 DEF NotifiedOnce
  <2>. QED
    BY <1>3, <2>1, <2>2 DEF NotifiedOnce
<1>7. head = CriticalError => Notified' = Notified
  BY <1>1, <1>3 DEF Notified
<1>8. head # CriticalError => head \in Notified /\ Notified' = Notified \ {head}
  BY <1>1, <1>3, <1>4, <1>5 DEF Notified
<1>9. head # CriticalError => head \in Answered
  BY <1>1 DEF Update
<1>. QED
  BY <1>6, <1>7, <1>8, <1>9 DEF head

\* The operator's callback moves a notification to the update queue.
LEMMA NotificationQueued ==
  ASSUME OperationInv, NotifiedOnce, NEW update \in sent[Operator],
         sent' = [sent EXCEPT ![Operator] = @ \ {update}],
         updateQueue' = Append(updateQueue, update)
  PROVE  NotifiedOnce' /\ Notified' = Notified
<1>1. /\ updateQueue \in Seq(Update) /\ update \in Update
      /\ sent'[Operator] = sent[Operator] \ {update}
  BY LiveTypes, Constants DEF OperationInv, TypeOK, WalkTypeOK
<1>2. Requests(updateQueue)' = Requests(updateQueue) \cup {update}
  BY <1>1, RequestsAppend DEF Requests
<1>3. Notified' = Notified
  BY <1>1, <1>2 DEF Notified
<1>4. sent'[Operator] \cap Requests(updateQueue)' \subseteq {CriticalError}
  BY <1>1, <1>2 DEF NotifiedOnce
<1>5. /\ DOMAIN updateQueue' = DOMAIN updateQueue \cup {Len(updateQueue) + 1}
      /\ \A k \in DOMAIN updateQueue : updateQueue'[k] = updateQueue[k]
      /\ updateQueue'[Len(updateQueue) + 1] = update
  BY <1>1
<1>6. \A k \in DOMAIN updateQueue : updateQueue[k] = update => update = CriticalError
  BY DEF NotifiedOnce, Requests
<1>7. \A i, j \in DOMAIN updateQueue' :
        updateQueue'[i] = updateQueue'[j] /\ updateQueue'[i] # CriticalError => i = j
  BY <1>5, <1>6 DEF NotifiedOnce
<1>. QED
  BY <1>3, <1>4, <1>7 DEF NotifiedOnce

\* Once the manager has taken a request off the measurement queue, it may
\* notify the operator of it; the numbering holds either way.
LEMMA TakenNumbered ==
  ASSUME OperationInv, Numbered, measurementQueue # <<>>,
         measurementQueue' = Tail(measurementQueue),
         UNCHANGED <<inFlight, experimentsRequested>>,
         Notified' \subseteq Notified \cup {Head(measurementQueue)}
  PROVE  /\ Numbered'
         /\ Head(measurementQueue) \in Answered \ Notified
         /\ Len(measurementQueue) \in Nat \ {0}
         /\ Len(measurementQueue') = Len(measurementQueue) - 1
<1>. DEFINE head == Head(measurementQueue)
            rest == Tail(measurementQueue)
<1>1. /\ measurementQueue \in Seq(Answered) /\ head \in Answered
      /\ head = measurementQueue[1] /\ 1 \in DOMAIN measurementQueue
      /\ \A k \in DOMAIN rest :
           k + 1 \in DOMAIN measurementQueue /\ rest[k] = measurementQueue[k + 1]
      /\ Requests(measurementQueue) = {head} \cup Requests(rest)
      /\ rest \in Seq(Answered)
      /\ Len(measurementQueue) \in Nat \ {0} /\ Len(rest) = Len(measurementQueue) - 1
  BY LiveTypes, RequestsTail
<1>2. \A k \in DOMAIN rest : k \in Nat /\ k # 0
  BY <1>1
<1>. HIDE DEF head, rest
<1>3. /\ measurementQueue' = rest /\ Requests(measurementQueue)' = Requests(rest)
      /\ Notified' \subseteq Notified \cup {head}
  BY DEF rest, head, Requests
<1>4. Live' \subseteq Live
  BY <1>1, <1>3 DEF Live
<1>5. head \notin Requests(rest)
  <2>. SUFFICES ASSUME NEW k \in DOMAIN rest, head = rest[k]
                PROVE  FALSE
    BY DEF Requests
  <2>1. 1 = k + 1
    BY <1>1 DEF Numbered
  <2>. QED
    BY <1>2, <2>1
<1>6. ASSUME NEW i \in DOMAIN rest, NEW j \in DOMAIN rest, rest[i] = rest[j]
      PROVE  i = j
  <2>1. i + 1 = j + 1
    BY <1>1, <1>6 DEF Numbered
  <2>. QED
    BY <1>2, <2>1
<1>7. Requests(rest) \cap Notified' = {}
  BY <1>1, <1>3, <1>5 DEF Numbered
<1>8. Numbered'
  BY <1>3, <1>4, <1>6, <1>7 DEF Numbered
<1>9. head \notin Notified
  BY <1>1 DEF Numbered
<1>. QED
  BY <1>1, <1>8, <1>9 DEF head, rest

\* A request is stored, and the operator is notified unless it cannot be.
LEMMA StoreAndNotifyStep ==
  ASSUME OperationInv, Numbered, NotifiedOnce, HandedOn, PassedOn,
         Manager!StoreAndNotify,
         UNCHANGED <<inFlight, experimentsRequested, finishedRequests, updateQueue>>
  PROVE  /\ Numbered' /\ NotifiedOnce' /\ HandedOn' /\ PassedOn'
         /\ Dropped => Dropped'
         /\ Live \subseteq Live' \/ Dropped'
<1>. DEFINE head == Head(measurementQueue)
<1>1. /\ measurementQueue # <<>> /\ measurementQueue' = Tail(measurementQueue)
      /\ stored' = Append(stored, head)
      /\ UNCHANGED <<crashed, monitoringError>>
      /\ subscribed' \subseteq subscribed
      /\ sent'[Operator] \subseteq sent[Operator] \cup {CriticalError, head}
      /\ Operator \in subscribed' \ crashed' => sent'[Operator] = sent[Operator] \cup {head}
  BY Constants DEF Manager!StoreAndNotify
<1>2. /\ stored \in Seq(Answered) /\ Len(stored) \in Nat
      /\ finishedRequests \in Nat /\ experimentsRequested \in Nat
      /\ measurementQueue \in Seq(Answered) /\ head \in Answered
      /\ CriticalError \notin Request /\ inFlight \subseteq Request
  BY <1>1, LiveTypes, RequestsTail
<1>. HIDE DEF head
<1>3. Requests(updateQueue)' = Requests(updateQueue)
  BY DEF Requests
<1>4. head # CriticalError
  BY <1>2 DEF Answered
<1>5. /\ Notified' \subseteq Notified \cup {head}
      /\ Operator \in subscribed' \ crashed' => Notified' = Notified \cup {head}
  BY <1>1, <1>3, <1>4 DEF Notified
<1>6. /\ Numbered' /\ head \notin Notified
      /\ Len(measurementQueue) \in Nat \ {0}
      /\ Len(measurementQueue') = Len(measurementQueue) - 1
  BY <1>1, <1>5, TakenNumbered DEF head
<1>7. NotifiedOnce'
  <2>1. head \notin Requests(updateQueue)
    BY <1>4, <1>6 DEF Notified
  <2>2. sent'[Operator] \cap Requests(updateQueue)' \subseteq {CriticalError}
    BY <1>1, <1>3, <2>1 DEF NotifiedOnce
  <2>. QED
    BY <2>2 DEF NotifiedOnce
<1>8. Len(stored') = Len(stored) + 1 /\ Requests(stored)' = Requests(stored) \cup {head}
  <2>1. Requests(Append(stored, head)) = Requests(stored) \cup {head}
    BY <1>2, RequestsAppend
  <2>2. Len(Append(stored, head)) = Len(stored) + 1
    BY <1>2
  <2>. QED
    BY <1>1, <2>1, <2>2 DEF Requests
<1>9. HandedOn'
  <2>1. Cardinality(inFlight) \in Nat /\ inFlight' = inFlight
    BY FS_CardinalityType DEF HandedOn
  <2>. QED
    BY <1>1, <1>2, <1>6, <1>8, <2>1 DEF HandedOn
<1>10. PassedOn'
  <2>1. /\ IsFiniteSet(Notified) /\ Cardinality(Notified) \in Nat
        /\ IsFiniteSet(Notified \cup {head})
        /\ Cardinality(Notified \cup {head}) = Cardinality(Notified) + 1
    BY <1>6, FS_CardinalityType, FS_AddElement DEF PassedOn
  <2>2. /\ IsFiniteSet(Notified') /\ Cardinality(Notified') \in Nat
        /\ Cardinality(Notified') <= Cardinality(Notified) + 1
    BY <1>5, <2>1, FS_Subset, FS_CardinalityType
  <2>3. Notified' \subseteq Requests(stored)'
    BY <1>5, <1>8 DEF PassedOn
  <2>4. finishedRequests + Cardinality(Notified) <= Len(stored)
    BY DEF PassedOn
  <2>5. finishedRequests' + Cardinality(Notified') <= Len(stored')
    BY <1>2, <1>8, <2>1, <2>2, <2>4
  <2>6. ASSUME Operator \in subscribed' \ crashed'
        PROVE  /\ ~monitoringError'
               /\ finishedRequests' + Cardinality(Notified') = Len(stored')
    <3>1. Operator \in subscribed \ crashed
      BY <1>1, <2>6
    <3>2. ~monitoringError /\ finishedRequests + Cardinality(Notified) = Len(stored)
      BY <3>1 DEF PassedOn
    <3>3. Cardinality(Notified') = Cardinality(Notified) + 1
      BY <1>5, <2>1, <2>6
    <3>. QED
      BY <1>1, <1>2, <1>8, <2>1, <3>2, <3>3
  <2>. QED
    BY <2>2, <2>3, <2>5, <2>6 DEF PassedOn
<1>11. /\ RequestCounts /\ Seen' \in Nat /\ Passed' = Passed + 1
       /\ Cardinality(Notified') <= Cardinality(Notified) + 1
       /\ Seen <= Passed /\ Seen' <= Seen + 1
  <2>1. /\ Cardinality(Notified) \in Nat /\ Cardinality(inFlight) \in Nat
        /\ IsFiniteSet(Notified \cup {head})
        /\ Cardinality(Notified \cup {head}) = Cardinality(Notified) + 1
    BY <1>6, FS_CardinalityType, FS_AddElement DEF HandedOn, PassedOn
  <2>2. /\ Cardinality(Notified') \in Nat
        /\ Cardinality(Notified') <= Cardinality(Notified) + 1
    BY <1>5, <1>10, <2>1, FS_Subset, FS_CardinalityType DEF PassedOn
  <2>3. RequestCounts
    BY RequestCountsType DEF HandedOn, PassedOn
  <2>4. Passed' = Passed + 1
    BY <1>2, <1>6, <2>1 DEF Passed
  <2>5. Seen' \in Nat /\ Seen' <= Seen + 1
    BY <1>2, <2>1, <2>2 DEF Seen
  <2>6. Seen <= Passed
    BY <2>3 DEF RequestCounts, Passed, Seen, HandedOn, PassedOn
  <2>. QED
    BY <2>2, <2>3, <2>4, <2>5, <2>6
<1>12. Dropped => Dropped'
  BY <1>11 DEF Dropped, RequestCounts
<1>13. Live \subseteq Live' \/ Dropped'
  <2>1. Requests(measurementQueue) = {head} \cup Requests(measurementQueue)'
    <3>1. Requests(measurementQueue) = {head} \cup Requests(Tail(measurementQueue))
      BY <1>1, <1>2, RequestsTail DEF head
    <3>2. Requests(measurementQueue)' = Requests(Tail(measurementQueue))
      BY <1>1 DEF Requests
    <3>. QED
      BY <3>1, <3>2
  <2>2. Notified \subseteq Notified'
    <3>1. sent[Operator] \subseteq sent'[Operator]
      BY Constants DEF Manager!StoreAndNotify
    <3>. QED
      BY <1>3, <3>1 DEF Notified
  <2>3. CASE head \in Notified'
    BY <2>1, <2>2, <2>3 DEF Live
  <2>4. CASE head \notin Notified'
    <3>1. Notified' = Notified
      BY <1>5, <2>2, <2>4
    <3>2. Seen' = Seen
      BY <3>1 DEF Seen
    <3>. QED
      BY <1>11, <3>2 DEF Dropped, RequestCounts
  <2>. QED
    BY <2>3, <2>4
<1>. QED
  BY <1>6, <1>7, <1>9, <1>10, <1>12, <1>13

\* A request that cannot be stored is dropped, and all are unsubscribed.
LEMMA StoreFailsStep ==
  ASSUME OperationInv, Numbered, NotifiedOnce, HandedOn, PassedOn,
         Manager!StoreFails,
         UNCHANGED <<inFlight, experimentsRequested, finishedRequests, updateQueue>>
  PROVE  /\ Numbered' /\ NotifiedOnce' /\ HandedOn' /\ PassedOn'
         /\ Dropped'
<1>1. /\ measurementQueue # <<>> /\ measurementQueue' = Tail(measurementQueue)
      /\ monitoringError' /\ subscribed' = {} /\ stored' = stored
      /\ sent'[Operator] = sent[Operator] \/ sent'[Operator] = sent[Operator] \cup {CriticalError}
  BY Constants DEF Manager!StoreFails
<1>2. Requests(updateQueue)' = Requests(updateQueue) /\ Requests(stored)' = Requests(stored)
  BY <1>1 DEF Requests
<1>3. Notified' = Notified
  BY <1>1, <1>2 DEF Notified
<1>4. /\ Numbered' /\ Len(measurementQueue) \in Nat \ {0}
      /\ Len(measurementQueue') = Len(measurementQueue) - 1
  BY <1>1, <1>3, TakenNumbered
<1>5. NotifiedOnce'
  BY <1>1, <1>2 DEF NotifiedOnce
<1>6. HandedOn'
  <2>1. /\ Cardinality(inFlight) \in Nat /\ inFlight' = inFlight
        /\ Len(stored) \in Nat /\ experimentsRequested \in Nat
    BY LiveTypes, FS_CardinalityType DEF HandedOn
  <2>. QED
    BY <1>1, <1>4, <2>1 DEF HandedOn
<1>7. PassedOn'
  BY <1>1, <1>2, <1>3 DEF PassedOn
<1>8. Dropped'
  <2>1. RequestCounts
    BY RequestCountsType DEF HandedOn, PassedOn
  <2>2. Passed' = Passed + 1 /\ Seen' = Seen /\ Seen <= Passed
    BY <1>3, <1>4, <2>1 DEF RequestCounts, HandedOn, PassedOn, Passed, Seen
  <2>. QED
    BY <2>1, <2>2 DEF Dropped, RequestCounts
<1>. QED
  BY <1>4, <1>5, <1>6, <1>7, <1>8

\* An actuator's answer is put on the measurement queue with the number of the
\* request it answers.
LEMMA AnswerStep ==
  ASSUME OperationInv, Numbered, NotifiedOnce, HandedOn, PassedOn,
         NEW request \in inFlight, ActuatorCompletes(request),
         UNCHANGED <<experimentsRequested, finishedRequests, updateQueue, sent,
                     stored, monitoringError, subscribed, crashed>>
  PROVE  /\ Numbered' /\ NotifiedOnce' /\ HandedOn' /\ PassedOn'
         /\ Dropped => Dropped'
         /\ \A r \in Live : \E q \in Live' :
              q.index = r.index /\ q.experiment = r.experiment
<1>1. PICK status \in {"Success", "Failed"} :
        measurementQueue' =
          Append(measurementQueue, [request EXCEPT !.status = status])
  BY DEF ActuatorCompletes
<1>. DEFINE answer == [request EXCEPT !.status = status]
<1>2. /\ inFlight \subseteq Request \ Answered /\ measurementQueue \in Seq(Answered)
      /\ Requests(measurementQueue) \subseteq Answered /\ Notified \subseteq Answered
      /\ Live \subseteq Request
      /\ Len(stored) \in Nat /\ experimentsRequested \in Nat
  BY LiveTypes
<1>3. /\ answer \in Answered /\ answer.id = request.id
      /\ answer.index = request.index /\ answer.experiment = request.experiment
  BY <1>2 DEF Request, Status, Answered
<1>. HIDE DEF answer
<1>4. /\ measurementQueue' = Append(measurementQueue, answer)
      /\ inFlight' = inFlight \ {request}
  BY <1>1 DEF answer, ActuatorCompletes
<1>5. /\ Requests(measurementQueue)' = Requests(measurementQueue) \cup {answer}
      /\ Len(measurementQueue') = Len(measurementQueue) + 1
      /\ Len(measurementQueue) \in Nat
  <2>1. Requests(Append(measurementQueue, answer)) = Requests(measurementQueue) \cup {answer}
    BY <1>2, <1>3, RequestsAppend
  <2>. QED
    BY <1>2, <1>4, <2>1 DEF Requests
<1>6. Notified' = Notified /\ Requests(stored)' = Requests(stored)
  BY DEF Notified, Requests
<1>7. /\ request \in Live /\ request \notin Answered
      /\ request \notin Requests(measurementQueue) /\ request \notin Notified
  BY <1>2 DEF Live
<1>8. Live' \subseteq (Live \ {request}) \cup {answer}
  BY <1>4, <1>5, <1>6, <1>7 DEF Live
<1>9. \A r \in Live \ {request} : r.id # answer.id
  BY <1>3, <1>7 DEF Numbered
<1>10. answer \notin Requests(measurementQueue) /\ answer \notin Notified
  BY <1>7, <1>9 DEF Live
<1>11. Numbered'
  <2>1. \A r \in Live' : r.id <= experimentsRequested
    BY <1>3, <1>7, <1>8 DEF Numbered
  <2>2. \A r, q \in Live' : r.id = q.id => r = q
    BY <1>8, <1>9 DEF Numbered
  <2>3. Requests(measurementQueue)' \cap Notified' = {}
    BY <1>5, <1>6, <1>10 DEF Numbered
  <2>4. /\ DOMAIN measurementQueue' = DOMAIN measurementQueue \cup {Len(measurementQueue) + 1}
        /\ \A k \in DOMAIN measurementQueue : measurementQueue'[k] = measurementQueue[k]
        /\ measurementQueue'[Len(measurementQueue) + 1] = answer
    BY <1>2, <1>4
  <2>5. \A k \in DOMAIN measurementQueue : measurementQueue[k] # answer
    BY <1>10 DEF Requests
  <2>6. \A i, j \in DOMAIN measurementQueue' :
          measurementQueue'[i] = measurementQueue'[j] => i = j
    BY <2>4, <2>5 DEF Numbered
  <2>. QED
    BY <2>1, <2>2, <2>3, <2>6 DEF Numbered
<1>12. NotifiedOnce'
  BY DEF NotifiedOnce, Requests
<1>13. /\ IsFiniteSet(inFlight') /\ Cardinality(inFlight) \in Nat \ {0}
       /\ Cardinality(inFlight') = Cardinality(inFlight) - 1
  <2>1. IsFiniteSet(inFlight) /\ Cardinality(inFlight) \in Nat
    BY FS_CardinalityType DEF HandedOn
  <2>2. inFlight # {}
    OBVIOUS
  <2>. QED
    BY <1>4, <2>1, <2>2, FS_RemoveElement, FS_EmptySet
<1>14. HandedOn'
  BY <1>2, <1>5, <1>13 DEF HandedOn
<1>15. PassedOn'
  BY <1>6 DEF PassedOn
<1>16. Dropped => Dropped'
  <2>1. Seen' = Seen /\ Passed' = Passed
    BY <1>2, <1>5, <1>6, <1>13 DEF Seen, Passed
  <2>. QED
    BY <2>1 DEF Dropped
<1>17. Live \subseteq Live' \cup {request} /\ answer \in Live'
  BY <1>4, <1>5, <1>6 DEF Live
<1>. QED
  BY <1>3, <1>11, <1>12, <1>14, <1>15, <1>16, <1>17

\* run() submits an item, or fails to, or has nothing to submit.
LEMMA SubmittedRequests ==
  ASSUME OperationInv, Numbered, HandedOn,
         \/ \E item \in Item : Submit(item) \/ SubmitRaises(item)
         \/ UNCHANGED <<measurementVars, experimentsRequested>>,
         Notified' \subseteq Notified, UNCHANGED <<stored, monitoringError>>
  PROVE  Numbered' /\ HandedOn' /\ Passed' = Passed
<1>1. CASE \E item \in Item : Submit(item)
  BY <1>1, SubmitNumbered, SubmitHandedOn
<1>2. CASE UNCHANGED <<measurementVars, experimentsRequested>>
  <2>1. UNCHANGED <<inFlight, measurementQueue, experimentsRequested>>
    BY <1>2 DEF measurementVars
  <2>2. Live' \subseteq Live
    BY <2>1 DEF Live, Requests
  <2>. QED
    BY <2>1, <2>2 DEF Numbered, HandedOn, Requests, Passed
<1>3. CASE \E item \in Item : SubmitRaises(item)
  BY <1>2, <1>3 DEF SubmitRaises
<1>. QED
  BY <1>1, <1>2, <1>3

\* A turn of run()'s loop takes one notification and submits one item at most.
LEMMA TurnOfLoop ==
  ASSUME OperationInv, ProcessUpdate
  PROVE  /\ \/ \E item \in Item : Submit(item) \/ SubmitRaises(item)
            \/ UNCHANGED <<measurementVars, experimentsRequested>>
         /\ Head(updateQueue) \in Answered
<1>1. Head(updateQueue) \in Answered
  BY LiveTypes DEF ProcessUpdate, Update
<1>2. WalkTypeOK
  BY DEF OperationInv, TypeOK
<1>3. PICK outcome \in SamplingOutcomes(QueueAfter(Head(updateQueue))) :
        GetAndSubmit(outcome.queue)
  BY DEF ProcessUpdate
<1>4. outcome.queue \in Seq(Item)
  BY <1>1, <1>2, <1>3, ProcessCompletedType, SamplingType
<1>5. outcome.queue # <<>> => Head(outcome.queue) \in Item
  BY <1>4
<1>. QED
  BY <1>1, <1>3, <1>5 DEF GetAndSubmit

\* The operator's submissions.
LEMMA SubmissionStep ==
  ASSUME OperationInv, Numbered, NotifiedOnce, HandedOn, PassedOn,
         InitialSubmit \/ ProcessUpdate,
         UNCHANGED <<stored, monitoringError, subscribed, crashed>>
  PROVE  /\ Numbered' /\ NotifiedOnce' /\ HandedOn' /\ PassedOn'
         /\ Dropped => Dropped'
<1>1. CASE InitialSubmit
  <2>1. Notified' = Notified /\ NotifiedOnce' /\ PassedOn'
    BY <1>1 DEF InitialSubmit, Notified, NotifiedOnce, PassedOn, Requests
  <2>2. Head(initialItems) \in Item
    BY <1>1 DEF InitialSubmit, OperationInv, TypeOK, WalkTypeOK
  <2>3. \E item \in Item : Submit(item) \/ SubmitRaises(item)
    BY <1>1, <2>2 DEF InitialSubmit
  <2>4. Seen' = Seen
    BY <1>1, <2>1 DEF InitialSubmit, Seen
  <2>. QED
    BY <2>1, <2>3, <2>4, SubmittedRequests DEF Dropped
<1>2. CASE ProcessUpdate
  <2>. DEFINE head == Head(updateQueue)
  <2>1. /\ NotifiedOnce' /\ head \in Notified /\ Notified' = Notified \ {head}
        /\ finishedRequests' = finishedRequests + 1
    BY <1>2, NotificationTaken DEF ProcessUpdate
  <2>2. Numbered' /\ HandedOn' /\ Passed' = Passed
    BY <1>2, <2>1, TurnOfLoop, SubmittedRequests
  <2>. HIDE DEF head
  <2>3. /\ IsFiniteSet(Notified') /\ Cardinality(Notified) \in Nat
        /\ Cardinality(Notified') = Cardinality(Notified) - 1
    BY <2>1, FS_CardinalityType, FS_RemoveElement DEF PassedOn
  <2>4. Requests(stored)' = Requests(stored)
    BY DEF Requests
  <2>5. finishedRequests \in Nat /\ Len(stored) \in Nat
    BY LiveTypes
  <2>6. finishedRequests' + Cardinality(Notified') = finishedRequests + Cardinality(Notified)
    BY <2>1, <2>3, <2>5
  <2>7. PassedOn'
    BY <2>1, <2>3, <2>4, <2>6 DEF PassedOn
  <2>8. Dropped => Dropped'
    BY <2>2, <2>6 DEF Dropped, Seen
  <2>. QED
    BY <2>1, <2>2, <2>7, <2>8
<1>. QED
  BY <1>1, <1>2

\* Steps of run() that submit nothing.
LEMMA InternalRequestsStep ==
  ASSUME OperationInv, Numbered, NotifiedOnce, HandedOn, PassedOn,
         RunInternal \/ RunStarts,
         UNCHANGED <<measurementVars, stored, monitoringError>>,
         subscribed' = subscribed, crashed' = crashed
  PROVE  Numbered' /\ NotifiedOnce' /\ HandedOn' /\ PassedOn'
<1>1. UNCHANGED <<inFlight, measurementQueue, experimentsRequested,
                  finishedRequests, sent>>
  BY DEF RunInternal, RunStarts, measurementVars, InitialSample, InitialExhausted,
         InitialBatchSubmitted, ProcessError, RunReturns
<1>2. CASE ProcessError
  <2>1. NotifiedOnce' /\ Notified' = Notified
    BY <1>2, NotificationTaken DEF ProcessError
  <2>. QED
    BY <1>1, <2>1 DEF Numbered, HandedOn, PassedOn, Live, Requests
<1>3. CASE ~ProcessError
  <2>1. updateQueue' = updateQueue
    BY <1>3 DEF RunInternal, RunStarts, InitialSample, InitialExhausted,
                InitialBatchSubmitted, RunReturns
  <2>. QED
    BY <1>1, <2>1, FewerNotified
<1>. QED
  BY <1>2, <1>3

\* Every step of the operation keeps track of the requests.
LEMMA RequestsStep ==
  OperationInv /\ RequestsInv /\ [Next]_vars => RequestsInv'
<1>. SUFFICES ASSUME OperationInv, RequestsInv, [Next]_vars PROVE RequestsInv'
  OBVIOUS
<1>0. Numbered /\ NotifiedOnce /\ HandedOn /\ PassedOn /\ RecordedAfterReturn
  BY DEF RequestsInv
<1>. DEFINE Tracked == Numbered /\ NotifiedOnce /\ HandedOn /\ PassedOn
<1>1. ASSUME UNCHANGED <<operatorVars, measurementQueue, stored, sent, monitoringError>>,
             subscribed' \subseteq subscribed, crashed' = crashed
      PROVE  Tracked'
  BY <1>0, <1>1, FewerNotified DEF operatorVars
<1>2. ASSUME walk = "returned" => walk' = "returned", exitState' = exitState
      PROVE  RecordedAfterReturn'
  BY <1>0, <1>2 DEF RecordedAfterReturn
<1>3. CASE ActuatorStep
  <2>1. Tracked'
    BY <1>0, <1>3, AnswerStep DEF ActuatorStep, walkVars, managerVars
  <2>. QED
    BY <1>2, <1>3, <2>1 DEF ActuatorStep, walkVars, driverVars, RequestsInv
<1>4. CASE OperatorCallback
  <2>1. PICK update \in sent[Operator] : ExecuteCall(update)
    BY <1>4 DEF OperatorCallback
  <2>2. NotifiedOnce' /\ Notified' = Notified
    BY <1>0, <2>1, NotificationQueued DEF ExecuteCall
  <2>3. UNCHANGED <<inFlight, measurementQueue, experimentsRequested, finishedRequests,
                    stored, monitoringError, subscribed, crashed>>
    BY <1>4, <2>1 DEF OperatorCallback, ExecuteCall, measurementVars, managerVars
  <2>4. Numbered' /\ HandedOn' /\ PassedOn'
    BY <1>0, <2>2, <2>3 DEF Numbered, HandedOn, PassedOn, Live, Requests
  <2>. QED
    BY <1>2, <1>4, <2>1, <2>2, <2>4
       DEF OperatorCallback, ExecuteCall, driverVars, RequestsInv
<1>5. CASE OperatorInternal
  <2>1. Tracked'
    BY <1>0, <1>5, InternalRequestsStep DEF OperatorInternal, managerVars
  <2>2. walk = "returned" => walk' = "returned"
    BY <1>5 DEF OperatorInternal, RunInternal, InitialSample, InitialExhausted,
         MoreInitialEntities, InitialBatchSubmitted, ProcessError,
         WaitingOnRequests, RunReturns
  <2>. QED
    BY <1>2, <1>5, <2>1, <2>2 DEF OperatorInternal, driverVars, RequestsInv
<1>6. CASE OperatorSubmits
  <2>1. Tracked'
    BY <1>0, <1>6, SubmissionStep DEF OperatorSubmits, RunSubmits, managerVars
  <2>2. walk # "returned"
    BY <1>6 DEF OperatorSubmits, RunSubmits, InitialSubmit, ProcessUpdate,
         WaitingOnRequests
  <2>. QED
    BY <1>2, <1>6, <2>1, <2>2 DEF OperatorSubmits, driverVars, RequestsInv
<1>7. CASE ManagerStep
  <2>1. ASSUME Manager!StoreAndNotify PROVE Tracked'
    BY <1>0, <1>7, <2>1, StoreAndNotifyStep DEF ManagerStep, operatorVars
  <2>2. ASSUME Manager!StoreFails PROVE Tracked'
    BY <1>0, <1>7, <2>2, StoreFailsStep DEF ManagerStep, operatorVars
  <2>3. ASSUME \/ Manager!TestIsAlive \/ Manager!GetTimesOut
               \/ Manager!MonitoringCompletes \/ Manager!GatherRaises
        PROVE  Tracked'
    BY <1>1, <1>7, <2>3
       DEF ManagerStep, Manager!TestIsAlive, Manager!GetTimesOut,
           Manager!MonitoringCompletes, Manager!GatherRaises
  <2>4. Tracked'
    BY <1>7, <2>1, <2>2, <2>3 DEF ManagerStep, Manager!MonitorStep
  <2>. QED
    BY <1>2, <1>7, <2>4 DEF ManagerStep, operatorVars, driverVars, RequestsInv
<1>8. CASE OperatorUnsubscribed
  <2>1. Tracked'
    BY <1>1, <1>8 DEF OperatorUnsubscribed, Manager!UnsubscribeFromUpdates
  <2>. QED
    BY <1>2, <1>8, <2>1 DEF OperatorUnsubscribed, operatorVars, driverVars, RequestsInv
<1>9. CASE OperatorCrashes
  <2>1. /\ sent'[Operator] = {} /\ crashed' = crashed \cup {Operator}
        /\ UNCHANGED <<measurementQueue, stored, monitoringError, subscribed>>
    BY <1>9, Constants
       DEF OperatorCrashes, Manager!SubscriberCrashes, OperationInv, TypeOK, WalkTypeOK
  <2>2. Tracked'
    BY <1>0, <1>9, <2>1, FewerNotified DEF OperatorCrashes, operatorVars
  <2>. QED
    BY <1>2, <1>9, <2>2 DEF OperatorCrashes, operatorVars, driverVars, RequestsInv
<1>10. CASE DriverRuns
  <2>1. Tracked'
    BY <1>0, <1>10, InternalRequestsStep
       DEF DriverRuns, Manager!StartMonitoring
  <2>. QED
    BY <1>2, <1>10, <2>1 DEF DriverRuns, RunStarts, RequestsInv
<1>11. CASE SetupFails
  <2>1. Tracked'
    BY <1>1, <1>11 DEF SetupFails, Manager!Shutdown
  <2>. QED
    BY <1>2, <1>11, <2>1 DEF SetupFails, operatorVars, RequestsInv
<1>12. CASE DriverStopsWaiting
  <2>1. Tracked'
    BY <1>1, <1>12 DEF DriverStopsWaiting, Manager!Shutdown
  <2>2. RecordedAfterReturn'
    BY <1>0, <1>12 DEF DriverStopsWaiting, operatorVars, RecordedAfterReturn
  <2>. QED
    BY <2>1, <2>2 DEF RequestsInv
<1>13. CASE DriverInterrupted
  <2>1. Tracked'
    BY <1>1, <1>13 DEF DriverInterrupted, Manager!Shutdown
  <2>2. RecordedAfterReturn'
    BY <1>0, <1>13 DEF DriverInterrupted, operatorVars, RecordedAfterReturn
  <2>. QED
    BY <2>1, <2>2 DEF RequestsInv
<1>14. CASE DriverFinishes \/ UNCHANGED vars
  <2>1. UNCHANGED <<measurementVars, walkVars, managerVars, exitState>>
    BY <1>14 DEF DriverFinishes, vars, driverVars
  <2>2. Tracked'
    BY <1>0, <2>1, FewerNotified DEF measurementVars, walkVars, managerVars
  <2>. QED
    BY <1>2, <2>1, <2>2 DEF walkVars, RequestsInv
<1>. QED
  BY <1>3, <1>4, <1>5, <1>6, <1>7, <1>8, <1>9, <1>10, <1>11, <1>12, <1>13,
     <1>14 DEF Next

\* Nothing is requested at first.
LEMMA RequestsInit == Init => RequestsInv
<1>. SUFFICES ASSUME Init PROVE RequestsInv
  OBVIOUS
<1>1. /\ inFlight = {} /\ measurementQueue = <<>> /\ stored = <<>>
      /\ updateQueue = <<>> /\ sent[Operator] = {}
      /\ experimentsRequested = 0 /\ finishedRequests = 0
      /\ ~monitoringError /\ exitState = "none"
  BY Constants DEF Init, MeasurementsInit, WalkInit, Manager!ManagerInit
<1>2. Notified = {} /\ Live = {} /\ Requests(measurementQueue) = {}
  BY <1>1 DEF Notified, Live, Requests
<1>3. IsFiniteSet({}) /\ Cardinality({}) = 0
  BY FS_EmptySet
<1>4. HandedOn
  BY <1>1, <1>3 DEF HandedOn
<1>5. PassedOn
  BY <1>1, <1>2, <1>3 DEF PassedOn
<1>. QED
  BY <1>1, <1>2, <1>4, <1>5
     DEF RequestsInv, Numbered, NotifiedOnce, RecordedAfterReturn

(***************************************************************************)
(* While nothing has failed, every request the operator has made and not   *)
(* finished is with an actuator, on the measurement queue or on its way    *)
(* back, and is there once.                                                *)
(***************************************************************************)
THEOREM NothingLost == Spec => []NoRequestLost
<1>1. OperationInv /\ RequestsInv => NoRequestLost
  <2>. SUFFICES ASSUME OperationInv, RequestsInv,
                       ~monitoringError, Operator \in subscribed \ crashed
                PROVE  Outstanding = Cardinality(inFlight) + Len(measurementQueue)
                                       + Cardinality(Notified)
    BY DEF NoRequestLost
  <2>1. /\ Len(stored) + Len(measurementQueue) + Cardinality(inFlight)
             = experimentsRequested
        /\ finishedRequests + Cardinality(Notified) = Len(stored)
        /\ Cardinality(inFlight) \in Nat /\ Cardinality(Notified) \in Nat
    BY FS_CardinalityType DEF RequestsInv, HandedOn, PassedOn
  <2>2. /\ Len(stored) \in Nat /\ Len(measurementQueue) \in Nat
        /\ experimentsRequested \in Nat /\ finishedRequests \in Nat
    BY LiveTypes
  <2>. QED
    BY <2>1, <2>2 DEF Outstanding
<1>. QED
  BY <1>1, OperationInit, OperationStep, RequestsInit, RequestsStep, PTL DEF Spec

(***************************************************************************)
(* An operation recorded as a success, if run() met no critical error, has *)
(* everything it requested in the sample store when it is shut down.       *)
(***************************************************************************)
THEOREM SuccessStored == Spec => []SuccessMeansStored
<1>1. OperationInv /\ RequestsInv => SuccessMeansStored
  <2>. SUFFICES ASSUME OperationInv, RequestsInv, exitState = "SUCCESS", ~criticalError
                PROVE  /\ Len(stored) = experimentsRequested
                       /\ inFlight = {} /\ measurementQueue = <<>>
    BY DEF SuccessMeansStored
  <2>1. finishedRequests = experimentsRequested
    BY DEF RequestsInv, RecordedAfterReturn, OperationInv, WalkInv
  <2>2. /\ Len(stored) + Len(measurementQueue) + Cardinality(inFlight)
             <= experimentsRequested
        /\ finishedRequests + Cardinality(Notified) <= Len(stored)
        /\ Cardinality(inFlight) \in Nat /\ Cardinality(Notified) \in Nat
        /\ IsFiniteSet(inFlight)
    BY FS_CardinalityType DEF RequestsInv, HandedOn, PassedOn
  <2>3. /\ Len(stored) \in Nat /\ Len(measurementQueue) \in Nat
        /\ experimentsRequested \in Nat /\ measurementQueue \in Seq(Answered)
    BY LiveTypes
  <2>4. /\ Len(stored) = experimentsRequested
        /\ Cardinality(inFlight) = 0 /\ Len(measurementQueue) = 0
    BY <2>1, <2>2, <2>3
  <2>. QED
    BY <2>2, <2>3, <2>4, FS_EmptySet, ZeroLength
<1>. QED
  BY <1>1, OperationInit, OperationStep, RequestsInit, RequestsStep, PTL DEF Spec

-----------------------------------------------------------------------------
(* What becomes of the experiments of an entity.                           *)

ItemOf(i, k) == [index |-> i, experiment |-> IndependentExperiments[k]]

\* A request for the item is on its way.
Requested(item) ==
  \E r \in Live : r.index = item.index /\ r.experiment = item.experiment

Queued(item, seq) == \E k \in DOMAIN seq : seq[k] = item

\* The experiment was measured, or has failed and is not tried again.
Settled(item) ==
  \/ StoredWith(item.index, item.experiment, "Success") # {}
  \/ /\ StoredWith(item.index, item.experiment, "Failed") # {}
     /\ retries[item.index] = MaxRetries

\* The item waits to be submitted, is being measured or was settled, or run()
\* waits for a request that was dropped.
Followed(item) ==
  Queued(item, batchingQueue) \/ Requested(item) \/ Settled(item) \/ Dropped

\* How many experiments of the initial entity have been submitted.
InitialDone == Len(IndependentExperiments) - Len(initialItems)

\* Unless run() has raised, every experiment of every entity that was sampled
\* is followed up, those of the entity of the initial batch as far as they are
\* submitted.
FollowUp ==
  walk # "raised" =>
    /\ \A i \in 0 .. entitiesSampled - 1, k \in DOMAIN IndependentExperiments :
         Followed(ItemOf(i, k))
    /\ initialItems # <<>> =>
         /\ InitialDone >= 0
         /\ \A k \in DOMAIN initialItems :
              initialItems[k] = ItemOf(entitiesSampled, InitialDone + k)
         /\ \A k \in 1 .. InitialDone : Followed(ItemOf(entitiesSampled, k))

\* What a step does to the items that are followed up.
Kept == \A item \in Item : Followed(item) => Followed(item)'

\* The item of an experiment of an entity.
LEMMA ItemOfType ==
  ASSUME NEW i \in Indices, NEW k \in DOMAIN IndependentExperiments
  PROVE  ItemOf(i, k) \in Item
BY Constants DEF ItemOf, Item

\* What is stored stays stored.
LEMMA StoredStays ==
  ASSUME stored \in Seq(Answered),
         stored' = stored \/ \E h \in Answered : stored' = Append(stored, h),
         NEW i, NEW e, NEW s
  PROVE  StoredWith(i, e, s) \subseteq StoredWith(i, e, s)'
BY DEF StoredWith

\* An item is settled for good.
LEMMA SettledStays ==
  ASSUME stored \in Seq(Answered),
         stored' = stored \/ \E h \in Answered : stored' = Append(stored, h),
         NEW item \in Item, Settled(item),
         retries[item.index] = MaxRetries => retries'[item.index] = MaxRetries
  PROVE  Settled(item)'
<1>1. /\ StoredWith(item.index, item.experiment, "Success")
           \subseteq StoredWith(item.index, item.experiment, "Success")'
      /\ StoredWith(item.index, item.experiment, "Failed")
           \subseteq StoredWith(item.index, item.experiment, "Failed")'
  BY StoredStays
<1>. QED
  BY <1>1 DEF Settled

\* A step outside run() keeps every item followed if it loses no request, or
\* drops it.
LEMMA KeptElsewhere ==
  ASSUME stored \in Seq(Answered),
         stored' = stored \/ \E h \in Answered : stored' = Append(stored, h),
         UNCHANGED <<batchingQueue, retries>>,
         Dropped => Dropped',
         \/ Dropped'
         \/ \A r \in Live : \E q \in Live' :
              q.index = r.index /\ q.experiment = r.experiment
  PROVE  Kept
<1>. SUFFICES ASSUME NEW item \in Item, Followed(item), ~Dropped'
              PROVE  Followed(item)'
  BY DEF Kept, Followed
<1>1. CASE Queued(item, batchingQueue)
  BY <1>1 DEF Queued, Followed
<1>2. CASE Requested(item)
  BY <1>2 DEF Requested, Followed
<1>3. CASE Settled(item)
  BY <1>3, SettledStays DEF Followed
<1>. QED
  BY <1>1, <1>2, <1>3 DEF Followed

\* If nothing is sampled, keeping the items is all there is to do.
LEMMA FollowUpKept ==
  ASSUME OperationInv, FollowUp, Kept, UNCHANGED <<entitiesSampled, initialItems>>,
         walk = "raised" => walk' = "raised"
  PROVE  FollowUp'
<1>. SUFFICES ASSUME walk' # "raised" PROVE FollowUp'
  BY DEF FollowUp
<1>1. walk # "raised"
  OBVIOUS
<1>2. /\ entitiesSampled \in 0 .. NumberEntities
      /\ initialItems # <<>> => entitiesSampled < NumberEntities
  BY Constants DEF OperationInv, TypeOK, WalkTypeOK, WalkInv
<1>3. ASSUME NEW i \in 0 .. entitiesSampled - 1, NEW k \in DOMAIN IndependentExperiments
      PROVE  Followed(ItemOf(i, k))'
  <2>1. i \in Indices
    BY <1>2, Constants DEF Indices
  <2>2. Followed(ItemOf(i, k))
    BY <1>1 DEF FollowUp
  <2>. QED
    BY <2>1, <2>2, ItemOfType DEF Kept
<1>4. ASSUME initialItems # <<>>
      PROVE  /\ InitialDone >= 0
             /\ \A k \in DOMAIN initialItems :
                  initialItems[k] = ItemOf(entitiesSampled, InitialDone + k)
             /\ \A k \in 1 .. InitialDone : Followed(ItemOf(entitiesSampled, k))'
  <2>1. /\ InitialDone >= 0
        /\ \A k \in DOMAIN initialItems :
             initialItems[k] = ItemOf(entitiesSampled, InitialDone + k)
        /\ \A k \in 1 .. InitialDone : Followed(ItemOf(entitiesSampled, k))
    BY <1>1, <1>4 DEF FollowUp
  <2>2. entitiesSampled \in Indices
    BY <1>2, <1>4, Constants DEF Indices
  <2>3. \A k \in 1 .. InitialDone : k \in DOMAIN IndependentExperiments
    <3>1. Len(initialItems) \in Nat /\ Len(IndependentExperiments) \in Nat
      BY Constants DEF OperationInv, TypeOK, WalkTypeOK
    <3>2. DOMAIN IndependentExperiments = 1 .. Len(IndependentExperiments)
      BY Constants
    <3>. QED
      BY <3>1, <3>2 DEF InitialDone
  <2>. QED
    BY <2>1, <2>2, <2>3, ItemOfType DEF Kept
<1>5. InitialDone' = InitialDone
  BY DEF InitialDone
<1>. QED
  BY <1>3, <1>4, <1>5 DEF FollowUp, ItemOf

\* A submission makes a request for its item, and loses none.
LEMMA SubmitRequests ==
  ASSUME OperationInv, NEW item \in Item, Submit(item)
  PROVE  /\ \E r \in inFlight' \cup Requests(measurementQueue)' :
              r.index = item.index /\ r.experiment = item.experiment
         /\ inFlight \subseteq inFlight'
         /\ Requests(measurementQueue) \subseteq Requests(measurementQueue)'
<1>1. measurementQueue \in Seq(Answered) /\ experimentsRequested \in Nat
  BY LiveTypes
<1>2. /\ NumberCreated(item) \in Nat \ {0}
      /\ \/ \E new \in Seq(Answered) : Queues(item, new)
         \/ \E new \in Request \ Answered : Starts(item, new)
  BY <1>1, SubmitCreates DEF OperationInv, TypeOK
<1>3. CASE \E new \in Seq(Answered) : Queues(item, new)
  <2>1. PICK new \in Seq(Answered) : Queues(item, new)
    BY <1>3
  <2>2. Requests(measurementQueue \o new) = Requests(measurementQueue) \cup Requests(new)
    BY <1>1, RequestsConcat
  <2>3. Requests(measurementQueue)' = Requests(measurementQueue) \cup Requests(new)
    BY <2>1, <2>2 DEF Queues, Requests
  <2>4. 1 \in DOMAIN new
    BY <1>2, <2>1 DEF Queues
  <2>5. /\ new[1] \in Requests(new)
        /\ new[1].index = item.index /\ new[1].experiment = item.experiment
    BY <2>1, <2>4 DEF Queues, Requests
  <2>. QED
    BY <2>1, <2>3, <2>5 DEF Queues
<1>4. CASE \E new \in Request \ Answered : Starts(item, new)
  BY <1>4 DEF Starts, Requests
<1>. QED
  BY <1>2, <1>3, <1>4

\* Sampling an entity of the initial batch.
LEMMA InitialSampleFollowed ==
  ASSUME OperationInv, FollowUp, Kept, InitialSample
  PROVE  FollowUp'
<1>1. /\ walk = "initial" /\ walk' = walk /\ entitiesSampled' = entitiesSampled
      /\ initialItems' = ItemsOf(entitiesSampled, IndependentExperiments)
  BY DEF InitialSample, MoreInitialEntities
<1>2. entitiesSampled \in 0 .. NumberEntities
  BY DEF OperationInv, TypeOK, WalkTypeOK
<1>3. ASSUME NEW i \in 0 .. entitiesSampled - 1, NEW k \in DOMAIN IndependentExperiments
      PROVE  Followed(ItemOf(i, k))'
  <2>1. i \in Indices
    BY <1>2, Constants DEF Indices
  <2>2. Followed(ItemOf(i, k))
    BY <1>1 DEF FollowUp
  <2>. QED
    BY <2>1, <2>2, ItemOfType DEF Kept
<1>4. /\ DOMAIN IndependentExperiments = 1 .. Len(IndependentExperiments)
      /\ Len(IndependentExperiments) \in Nat
  BY Constants
<1>5. /\ DOMAIN initialItems' = DOMAIN IndependentExperiments
      /\ \A k \in DOMAIN initialItems' : initialItems'[k] = ItemOf(entitiesSampled, k)
  BY <1>1 DEF ItemsOf, ItemOf
<1>6. Len(initialItems') = Len(IndependentExperiments)
  BY <1>4, <1>5
<1>7. InitialDone' = 0
  BY <1>4, <1>6 DEF InitialDone
<1>8. \A k \in DOMAIN initialItems' : 0 + k = k
  BY <1>4, <1>5
<1>9. ASSUME initialItems' # <<>>
      PROVE  /\ InitialDone' >= 0
             /\ \A k \in DOMAIN initialItems' :
                  initialItems'[k] = ItemOf(entitiesSampled', InitialDone' + k)
             /\ \A k \in 1 .. InitialDone' : Followed(ItemOf(entitiesSampled, k))'
  BY <1>1, <1>5, <1>7, <1>8
<1>. QED
  BY <1>1, <1>3, <1>9 DEF FollowUp, ItemOf

\* Submitting an experiment of an entity of the initial batch.
LEMMA InitialSubmitFollowed ==
  ASSUME OperationInv, FollowUp, Kept, InitialSubmit, walk' # "raised",
         NEW head, head = Head(initialItems), Followed(head)'
  PROVE  FollowUp'
<1>. DEFINE n == Len(initialItems)
            all == Len(IndependentExperiments)
<1>0. PICK es : es = entitiesSampled
  OBVIOUS
<1>1. /\ walk = "initial" /\ initialItems # <<>> /\ initialItems' = Tail(initialItems)
      /\ entitiesSampled' = IF n = 1 THEN entitiesSampled + 1 ELSE entitiesSampled
  BY DEF InitialSubmit, SubmitRaises
<1>2. /\ entitiesSampled \in 0 .. NumberEntities /\ entitiesSampled < NumberEntities
      /\ initialItems \in Seq(Item)
  BY <1>1, Constants DEF OperationInv, TypeOK, WalkTypeOK, WalkInv
<1>3. /\ n \in Nat \ {0} /\ all \in Nat /\ 1 \in DOMAIN initialItems
      /\ Head(initialItems) = initialItems[1]
      /\ Tail(initialItems) \in Seq(Item) /\ Len(Tail(initialItems)) = n - 1
      /\ \A k \in DOMAIN Tail(initialItems) :
           /\ k + 1 \in DOMAIN initialItems /\ k \in Nat
           /\ Tail(initialItems)[k] = initialItems[k + 1]
      /\ DOMAIN IndependentExperiments = 1 .. all
  BY <1>1, <1>2, Constants
<1>4. /\ InitialDone = all - n /\ InitialDone >= 0
      /\ \A k \in DOMAIN initialItems :
           initialItems[k] = ItemOf(entitiesSampled, InitialDone + k)
      /\ \A k \in 1 .. InitialDone : Followed(ItemOf(entitiesSampled, k))
  BY <1>1 DEF FollowUp, InitialDone
<1>. HIDE DEF n, all
<1>5. entitiesSampled \in Indices
  BY <1>2, Constants DEF Indices
<1>6. ASSUME NEW i \in 0 .. entitiesSampled - 1, NEW k \in DOMAIN IndependentExperiments
      PROVE  Followed(ItemOf(i, k))'
  <2>1. i \in Indices
    BY <1>2, Constants DEF Indices
  <2>2. Followed(ItemOf(i, k))
    BY <1>1 DEF FollowUp
  <2>. QED
    BY <2>1, <2>2, ItemOfType DEF Kept
<1>7. ASSUME NEW k \in 1 .. InitialDone + 1
      PROVE  Followed(ItemOf(es, k))'
  <2>1. CASE k = InitialDone + 1
    <3>1. head = ItemOf(es, k)
      BY <1>0, <1>3, <1>4, <2>1
    <3>. QED
      BY <3>1
  <2>2. CASE k # InitialDone + 1
    <3>1. k \in 1 .. InitialDone /\ k \in DOMAIN IndependentExperiments
      BY <1>3, <1>4, <2>2
    <3>2. Followed(ItemOf(es, k)) /\ ItemOf(es, k) \in Item
      BY <1>0, <1>4, <1>5, <3>1, ItemOfType
    <3>. QED
      BY <3>2 DEF Kept
  <2>. QED
    BY <2>1, <2>2
<1>8. InitialDone' = InitialDone + 1
  BY <1>1, <1>3, <1>4 DEF InitialDone, all
<1>9. CASE n = 1
  <2>1. initialItems' = <<>> /\ entitiesSampled' = entitiesSampled + 1
    BY <1>1, <1>3, <1>9, ZeroLength
  <2>2. InitialDone + 1 = all
    BY <1>3, <1>4, <1>9
  <2>3. ASSUME NEW i \in 0 .. entitiesSampled' - 1, NEW k \in DOMAIN IndependentExperiments
        PROVE  Followed(ItemOf(i, k))'
    <3>1. CASE i = es
      BY <1>3, <1>7, <2>2, <3>1
    <3>2. CASE i # es
      <4>1. i \in 0 .. entitiesSampled - 1
        BY <1>0, <1>2, <2>1, <3>2
      <4>. QED
        BY <1>6, <4>1
    <3>. QED
      BY <3>1, <3>2
  <2>. QED
    BY <2>1, <2>3 DEF FollowUp, ItemOf
<1>10. CASE n # 1
  <2>1. entitiesSampled' = entitiesSampled
    BY <1>1, <1>10
  <2>2. InitialDone' >= 0
    BY <1>3, <1>4, <1>8
  <2>3. ASSUME NEW k \in DOMAIN initialItems'
        PROVE  initialItems'[k] = ItemOf(entitiesSampled', InitialDone' + k)
    <3>1. initialItems'[k] = initialItems[k + 1] /\ k + 1 \in DOMAIN initialItems
      BY <1>1, <1>3, <2>3
    <3>2. InitialDone + (k + 1) = InitialDone' + k
      BY <1>1, <1>3, <1>4, <1>8, <2>3
    <3>. QED
      BY <1>4, <2>1, <3>1, <3>2
  <2>4. \A k \in 1 .. InitialDone' : Followed(ItemOf(es, k))'
    BY <1>7, <1>8
  <2>5. entitiesSampled' = es
    BY <1>0, <2>1
  <2>. QED
    BY <1>6, <2>1, <2>2, <2>3, <2>4, <2>5 DEF FollowUp, ItemOf
<1>. QED
  BY <1>9, <1>10

\* What a turn of the loop leaves of an item is on the queue that is submitted
\* from, or is kept otherwise.
LEMMA TurnKeeps ==
  ASSUME OperationInv, RequestsInv, ProcessUpdate, stored' = stored,
         Notified' = Notified \ {Head(updateQueue)},
         inFlight \subseteq inFlight',
         Requests(measurementQueue) \subseteq Requests(measurementQueue)',
         Dropped => Dropped',
         NEW item \in Item, Followed(item)
  PROVE  \/ Queued(item, QueueAfter(Head(updateQueue)))
         \/ Requested(item)' \/ Settled(item)' \/ Dropped'
<1>. DEFINE head == Head(updateQueue)
<1>1. /\ head \in Answered /\ retries' = RetriesAfter(head)
      /\ batchingQueue \in Seq(Item) /\ stored \in Seq(Answered)
      /\ retries \in [Indices -> 0 .. MaxRetries]
  BY TurnOfLoop, LiveTypes DEF ProcessUpdate, OperationInv, TypeOK, WalkTypeOK
<1>2. head.index \in Indices /\ head.experiment \in Experiments /\ item.index \in Indices
  BY <1>1 DEF Answered, Request, Item
<1>3. head \in Requests(stored)
  <2>1. head \in Notified
    BY NotificationTaken DEF RequestsInv, ProcessUpdate
  <2>. QED
    BY <2>1 DEF RequestsInv, PassedOn
<1>. HIDE DEF head
<1>4. retries[item.index] = MaxRetries => retries'[item.index] = MaxRetries
  BY <1>1, <1>2, Constants DEF RetriesAfter
<1>5. CASE Queued(item, batchingQueue)
  <2>1. PICK k \in DOMAIN batchingQueue : batchingQueue[k] = item
    BY <1>5 DEF Queued
  <2>2. ItemsOf(head.index, DependentsOf[head.experiment]) \in Seq(Item)
    BY <1>2, Constants, ItemsOfType
  <2>3. [index |-> head.index, experiment |-> head.experiment] \in Item
    BY <1>2 DEF Item
  <2>4. ASSUME NEW s \in Seq(Item)
        PROVE  k \in DOMAIN (batchingQueue \o s) /\ (batchingQueue \o s)[k] = item
    BY <1>1, <2>1
  <2>5. ASSUME NEW x \in Item
        PROVE  k \in DOMAIN Append(batchingQueue, x) /\ Append(batchingQueue, x)[k] = item
    BY <1>1, <2>1
  <2>6. k \in DOMAIN QueueAfter(head) /\ QueueAfter(head)[k] = item
    BY <2>1, <2>2, <2>3, <2>4, <2>5 DEF QueueAfter
  <2>. QED
    BY <2>6 DEF Queued, head
<1>6. CASE Requested(item)
  <2>1. PICK r \in Live : r.index = item.index /\ r.experiment = item.experiment
    BY <1>6 DEF Requested
  <2>2. CASE r # head
    <3>1. r \in Live'
      BY <2>1, <2>2 DEF Live, head
    <3>. QED
      BY <2>1, <3>1 DEF Requested
  <2>3. CASE r = head /\ head.status = "Success"
    <3>1. StoredWith(item.index, item.experiment, "Success") # {}
      BY <1>3, <2>1, <2>3 DEF Requests, StoredWith
    <3>2. StoredWith(item.index, item.experiment, "Success")'
            = StoredWith(item.index, item.experiment, "Success")
      BY DEF StoredWith
    <3>. QED
      BY <3>1, <3>2 DEF Settled
  <2>4. CASE r = head /\ head.status # "Success" /\ retries[item.index] = MaxRetries
    <3>1. head.status = "Failed"
      BY <1>1, <2>4 DEF Answered, Request, Status
    <3>2. StoredWith(item.index, item.experiment, "Failed") # {}
      BY <1>3, <2>1, <2>4, <3>1 DEF Requests, StoredWith
    <3>3. StoredWith(item.index, item.experiment, "Failed")'
            = StoredWith(item.index, item.experiment, "Failed")
      BY DEF StoredWith
    <3>. QED
      BY <1>4, <2>4, <3>2, <3>3 DEF Settled
  <2>5. CASE r = head /\ head.status # "Success" /\ retries[item.index] # MaxRetries
    <3>1. item = [index |-> head.index, experiment |-> head.experiment]
      BY <2>1, <2>5 DEF Item
    <3>2. QueueAfter(head) = Append(batchingQueue, item)
      BY <2>1, <2>5, <3>1 DEF QueueAfter
    <3>3. /\ Len(batchingQueue) + 1 \in DOMAIN Append(batchingQueue, item)
          /\ Append(batchingQueue, item)[Len(batchingQueue) + 1] = item
      BY <1>1
    <3>. QED
      BY <3>2, <3>3 DEF Queued, head
  <2>. QED
    BY <2>2, <2>3, <2>4, <2>5
<1>7. CASE Settled(item)
  BY <1>1, <1>4, <1>7, SettledStays
<1>. QED
  BY <1>5, <1>6, <1>7 DEF Followed

\* What is sampled is put on an empty queue.
LEMMA SamplingQueues ==
  ASSUME WalkTypeOK, NEW queue \in Seq(Item), NEW outcome \in SamplingOutcomes(queue)
  PROVE  \/ outcome.queue = queue /\ outcome.sampled = entitiesSampled
         \/ /\ queue = <<>> /\ outcome.sampled = entitiesSampled + 1
            /\ entitiesSampled \in Indices
            /\ outcome.queue = ItemsOf(entitiesSampled, IndependentExperiments)
<1>1. CASE queue # <<>> \/ entitiesSampled >= NumberEntities \/ exhausted
  BY <1>1 DEF SamplingOutcomes, Outcome
<1>2. CASE ~(queue # <<>> \/ entitiesSampled >= NumberEntities \/ exhausted)
  <2>1. entitiesSampled \in Indices
    BY <1>2, Constants DEF WalkTypeOK, Indices
  <2>. QED
    BY <1>2, <2>1 DEF SamplingOutcomes, Outcome
<1>. QED
  BY <1>1, <1>2

\* The first item of the queue is submitted, the others stay on it.
LEMMA SubmittedFollowed ==
  ASSUME OperationInv, NEW queue \in Seq(Item), GetAndSubmit(queue), walk = "batching",
         walk' # "raised", NEW item \in Item, Queued(item, queue)
  PROVE  Followed(item)'
<1>1. PICK k \in DOMAIN queue : queue[k] = item
  BY DEF Queued
<1>2. /\ queue # <<>> /\ batchingQueue' = Tail(queue) /\ Head(queue) \in Item
      /\ Submit(Head(queue))
  BY <1>1 DEF GetAndSubmit, SubmitRaises
<1>3. CASE k = 1
  <2>1. Head(queue) = item
    BY <1>1, <1>3
  <2>2. \E r \in inFlight' \cup Requests(measurementQueue)' :
          r.index = item.index /\ r.experiment = item.experiment
    BY <1>2, <2>1, SubmitRequests
  <2>. QED
    BY <2>2 DEF Followed, Requested, Live
<1>4. CASE k # 1
  <2>1. k - 1 \in DOMAIN Tail(queue) /\ Tail(queue)[k - 1] = item
    BY <1>1, <1>2, <1>4
  <2>. QED
    BY <1>2, <2>1 DEF Followed, Queued
<1>. QED
  BY <1>3, <1>4

\* One turn of the loop.
LEMMA ProcessUpdateFollowed ==
  ASSUME OperationInv, RequestsInv, FollowUp, ProcessUpdate,
         UNCHANGED <<stored, monitoringError, subscribed, crashed>>
  PROVE  FollowUp'
<1>. SUFFICES ASSUME walk' # "raised" PROVE FollowUp'
  BY DEF FollowUp
<1>1. /\ walk = "batching" /\ initialItems = <<>> /\ initialItems' = <<>>
      /\ entitiesSampled \in 0 .. NumberEntities /\ WalkTypeOK
  BY DEF ProcessUpdate, WaitingOnRequests, OperationInv, WalkInv, TypeOK, WalkTypeOK
<1>. DEFINE queue == QueueAfter(Head(updateQueue))
<1>2. queue \in Seq(Item)
  BY <1>1, TurnOfLoop, ProcessCompletedType
<1>3. PICK outcome \in SamplingOutcomes(queue) :
        entitiesSampled' = outcome.sampled /\ GetAndSubmit(outcome.queue)
  BY DEF ProcessUpdate
<1>4. \/ outcome.queue = queue /\ entitiesSampled' = entitiesSampled
      \/ /\ queue = <<>> /\ entitiesSampled' = entitiesSampled + 1
         /\ entitiesSampled \in Indices
         /\ outcome.queue = ItemsOf(entitiesSampled, IndependentExperiments)
  BY <1>1, <1>2, <1>3, SamplingQueues
<1>5. outcome.queue \in Seq(Item)
  BY <1>1, <1>2, <1>3, SamplingType
<1>6. /\ inFlight \subseteq inFlight'
      /\ Requests(measurementQueue) \subseteq Requests(measurementQueue)'
  <2>1. CASE outcome.queue = <<>>
    BY <1>3, <2>1 DEF GetAndSubmit, measurementVars, Requests
  <2>2. CASE outcome.queue # <<>>
    <3>1. Head(outcome.queue) \in Item /\ Submit(Head(outcome.queue))
      BY <1>3, <1>5, <2>2 DEF GetAndSubmit, SubmitRaises
    <3>. QED
      BY <3>1, SubmitRequests
  <2>. QED
    BY <2>1, <2>2
<1>7. Notified' = Notified \ {Head(updateQueue)} /\ (Dropped => Dropped')
  BY NotificationTaken, SubmissionStep DEF ProcessUpdate, RequestsInv
<1>. HIDE DEF queue
<1>8. ASSUME NEW item \in Item, Followed(item)
      PROVE  Followed(item)'
  <2>1. Queued(item, queue) \/ Requested(item)' \/ Settled(item)' \/ Dropped'
    BY <1>6, <1>7, <1>8, TurnKeeps DEF queue
  <2>2. CASE Queued(item, queue)
    <3>1. queue # <<>>
      BY <2>2 DEF Queued
    <3>2. Queued(item, outcome.queue)
      BY <1>4, <2>2, <3>1
    <3>. QED
      BY <1>1, <1>3, <1>5, <3>2, SubmittedFollowed
  <2>. QED
    BY <2>1, <2>2 DEF Followed
<1>9. ASSUME NEW i \in 0 .. entitiesSampled' - 1, NEW k \in DOMAIN IndependentExperiments
      PROVE  Followed(ItemOf(i, k))'
  <2>1. CASE i < entitiesSampled
    <3>1. i \in Indices /\ i \in 0 .. entitiesSampled - 1
      BY <1>1, <2>1, Constants DEF Indices
    <3>2. Followed(ItemOf(i, k)) /\ ItemOf(i, k) \in Item
      BY <1>1, <3>1, ItemOfType DEF FollowUp
    <3>. QED
      BY <1>8, <3>2
  <2>2. CASE i >= entitiesSampled
    <3>1. /\ i = entitiesSampled /\ i \in Indices
          /\ outcome.queue = ItemsOf(i, IndependentExperiments)
      BY <1>1, <1>4, <2>2
    <3>2. ItemOf(i, k) \in Item /\ Queued(ItemOf(i, k), outcome.queue)
      BY <3>1, ItemOfType DEF Queued, ItemsOf, ItemOf
    <3>. QED
      BY <1>1, <1>3, <1>5, <3>2, SubmittedFollowed
  <2>. QED
    BY <1>1, <2>1, <2>2
<1>. QED
  BY <1>1, <1>9 DEF FollowUp

\* Every step of the operation follows the experiments up.
LEMMA FollowUpStep ==
  OperationInv /\ RequestsInv /\ FollowUp /\ [Next]_vars => FollowUp'
<1>. SUFFICES ASSUME OperationInv, RequestsInv, FollowUp, [Next]_vars PROVE FollowUp'
  OBVIOUS
<1>0. Numbered /\ NotifiedOnce /\ HandedOn /\ PassedOn
  BY DEF RequestsInv
<1>1. stored \in Seq(Answered)
  BY LiveTypes
<1>. DEFINE Still == UNCHANGED <<entitiesSampled, initialItems>>
                     /\ (walk = "raised" => walk' = "raised")
<1>2. ASSUME Still, Kept PROVE FollowUp'
  BY <1>2, FollowUpKept
<1>3. CASE ActuatorStep
  <2>1. Kept
    BY <1>0, <1>1, <1>3, AnswerStep, KeptElsewhere DEF ActuatorStep, walkVars, managerVars
  <2>. QED
    BY <1>2, <1>3, <2>1 DEF ActuatorStep, walkVars
<1>4. CASE OperatorCallback
  <2>1. PICK update \in sent[Operator] : ExecuteCall(update)
    BY <1>4 DEF OperatorCallback
  <2>2. Notified' = Notified
    BY <1>0, <2>1, NotificationQueued DEF ExecuteCall
  <2>3. UNCHANGED <<inFlight, measurementQueue, experimentsRequested, finishedRequests,
                    stored, batchingQueue, retries>>
    BY <1>4, <2>1 DEF OperatorCallback, ExecuteCall, measurementVars, managerVars
  <2>4. Live' = Live /\ (Dropped => Dropped')
    BY <2>2, <2>3 DEF Live, Requests, Dropped, Seen, Passed
  <2>5. Kept
    BY <1>1, <2>3, <2>4, KeptElsewhere
  <2>. QED
    BY <1>2, <1>4, <2>1, <2>5 DEF OperatorCallback, ExecuteCall
<1>5. ASSUME RunInternal \/ RunStarts, UNCHANGED <<measurementVars, stored>>
      PROVE  FollowUp'
  <2>1. UNCHANGED <<inFlight, measurementQueue, experimentsRequested,
                    finishedRequests, sent, batchingQueue, retries, stored>>
    BY <1>5 DEF RunInternal, RunStarts, measurementVars, InitialSample, InitialExhausted,
         InitialBatchSubmitted, ProcessError, RunReturns
  <2>2. Notified' = Notified
    <3>1. CASE ProcessError
      BY <1>0, <3>1, NotificationTaken DEF ProcessError
    <3>2. CASE ~ProcessError
      BY <1>5, <2>1, <3>2
         DEF RunInternal, RunStarts, InitialSample, InitialExhausted,
             InitialBatchSubmitted, RunReturns, Notified, Requests
    <3>. QED
      BY <3>1, <3>2
  <2>3. Live' = Live /\ (Dropped => Dropped')
    BY <2>1, <2>2 DEF Live, Requests, Dropped, Seen, Passed
  <2>4. Kept
    BY <1>1, <2>1, <2>3, KeptElsewhere
  <2>5. CASE InitialSample
    BY <2>4, <2>5, InitialSampleFollowed
  <2>6. CASE ~InitialSample
    BY <1>2, <1>5, <2>4, <2>6
       DEF RunInternal, RunStarts, InitialExhausted, MoreInitialEntities,
           InitialBatchSubmitted, ProcessError, WaitingOnRequests, RunReturns
  <2>. QED
    BY <2>5, <2>6
<1>6. CASE OperatorInternal
  BY <1>5, <1>6 DEF OperatorInternal, managerVars
<1>7. CASE OperatorSubmits
  <2>0. UNCHANGED <<stored, monitoringError, subscribed, crashed>>
    BY <1>7 DEF OperatorSubmits, managerVars
  <2>1. CASE ProcessUpdate
    BY <2>0, <2>1, ProcessUpdateFollowed
  <2>2. CASE InitialSubmit /\ walk' = "raised"
    BY <2>2 DEF FollowUp
  <2>3. CASE InitialSubmit /\ walk' # "raised"
    <3>1. PICK head : head = Head(initialItems)
      OBVIOUS
    <3>2. head \in Item /\ Submit(head)
      BY <2>3, <3>1
         DEF InitialSubmit, SubmitRaises, OperationInv, TypeOK, WalkTypeOK
    <3>3. /\ \E r \in inFlight' \cup Requests(measurementQueue)' :
               r.index = head.index /\ r.experiment = head.experiment
          /\ inFlight \subseteq inFlight'
          /\ Requests(measurementQueue) \subseteq Requests(measurementQueue)'
      BY <3>2, SubmitRequests
    <3>4. Notified' = Notified /\ UNCHANGED <<batchingQueue, retries>>
      BY <2>3 DEF InitialSubmit, Notified, Requests
    <3>5. Live \subseteq Live'
      BY <3>3, <3>4 DEF Live
    <3>6. Dropped => Dropped'
      BY <1>0, <2>0, <2>3, SubmissionStep
    <3>7. Kept
      BY <1>1, <2>0, <3>4, <3>5, <3>6, KeptElsewhere
    <3>8. Followed(head)'
      BY <3>3 DEF Followed, Requested, Live
    <3>. QED
      BY <2>3, <3>1, <3>7, <3>8, InitialSubmitFollowed
  <2>. QED
    BY <1>7, <2>1, <2>2, <2>3 DEF OperatorSubmits, RunSubmits
<1>8. ASSUME UNCHANGED operatorVars, Kept PROVE FollowUp'
  BY <1>2, <1>8 DEF operatorVars
<1>9. ASSUME UNCHANGED <<operatorVars, measurementQueue, stored, monitoringError>>,
             sent'[Operator] \subseteq sent[Operator],
             subscribed' \subseteq subscribed, crashed \subseteq crashed',
             sent'[Operator] = sent[Operator] \/ Operator \in crashed'
      PROVE  FollowUp'
  <2>1. (Dropped => Dropped') /\ (Live' = Live \/ Dropped')
    BY <1>0, <1>9, FewerNotified DEF operatorVars
  <2>2. Kept
    BY <1>1, <1>9, <2>1, KeptElsewhere DEF operatorVars
  <2>. QED
    BY <1>8, <1>9, <2>2
<1>10. CASE ManagerStep
  <2>1. CASE Manager!StoreAndNotify
    <3>1. (Dropped => Dropped') /\ (Live \subseteq Live' \/ Dropped')
      BY <1>0, <1>10, <2>1, StoreAndNotifyStep DEF ManagerStep, operatorVars
    <3>2. \E h \in Answered : stored' = Append(stored, h)
      BY <2>1, LiveTypes DEF Manager!StoreAndNotify
    <3>3. Kept
      BY <1>1, <1>10, <3>1, <3>2, KeptElsewhere DEF ManagerStep, operatorVars
    <3>. QED
      BY <1>8, <1>10, <3>3 DEF ManagerStep
  <2>2. CASE Manager!StoreFails
    <3>1. Dropped' /\ stored' = stored
      BY <1>0, <1>10, <2>2, StoreFailsStep DEF ManagerStep, operatorVars, Manager!StoreFails
    <3>2. Kept
      BY <1>1, <1>10, <3>1, KeptElsewhere DEF ManagerStep, operatorVars
    <3>. QED
      BY <1>8, <1>10, <3>2 DEF ManagerStep
  <2>3. CASE \/ Manager!TestIsAlive \/ Manager!GetTimesOut
             \/ Manager!MonitoringCompletes \/ Manager!GatherRaises
    BY <1>9, <1>10, <2>3
       DEF ManagerStep, Manager!TestIsAlive, Manager!GetTimesOut,
           Manager!MonitoringCompletes, Manager!GatherRaises
  <2>. QED
    BY <1>10, <2>1, <2>2, <2>3 DEF ManagerStep, Manager!MonitorStep
<1>11. CASE OperatorUnsubscribed
  BY <1>9, <1>11 DEF OperatorUnsubscribed, Manager!UnsubscribeFromUpdates
<1>12. CASE OperatorCrashes
  <2>1. /\ sent'[Operator] = {} /\ crashed' = crashed \cup {Operator}
        /\ UNCHANGED <<measurementQueue, stored, monitoringError, subscribed>>
    BY <1>12, Constants
       DEF OperatorCrashes, Manager!SubscriberCrashes, OperationInv, TypeOK, WalkTypeOK
  <2>. QED
    BY <1>9, <1>12, <2>1 DEF OperatorCrashes
<1>13. CASE DriverRuns
  BY <1>5, <1>13 DEF DriverRuns, Manager!StartMonitoring
<1>14. CASE SetupFails
  BY <1>9, <1>14 DEF SetupFails, Manager!Shutdown
<1>15. CASE DriverStopsWaiting
  BY <1>9, <1>15 DEF DriverStopsWaiting, Manager!Shutdown
<1>16. CASE DriverInterrupted
  BY <1>9, <1>16 DEF DriverInterrupted, Manager!Shutdown
<1>17. CASE DriverFinishes \/ UNCHANGED vars
  BY <1>9, <1>17 DEF DriverFinishes, vars, driverVars, measurementVars, walkVars,
     managerVars, operatorVars
<1>. QED
  BY <1>3, <1>4, <1>6, <1>7, <1>10, <1>11, <1>12, <1>13, <1>14, <1>15, <1>16,
     <1>17 DEF Next

\* No entity is sampled at first.
LEMMA FollowUpInit == Init => FollowUp
BY DEF Init, WalkInit, FollowUp

(***************************************************************************)
(* What run() promises when it returns without a critical error: all       *)
(* entities were sampled, and each of their independent experiments was    *)
(* measured, or failed until the retries were used up.                     *)
(***************************************************************************)
THEOREM ReturnedDone == Spec => []ReturnedMeansDone
<1>1. OperationInv /\ RequestsInv /\ FollowUp => ReturnedMeansDone
  <2>. SUFFICES ASSUME OperationInv, RequestsInv, FollowUp,
                       walk = "returned", ~criticalError
                PROVE  ReturnedMeansSampled /\ ReturnedMeansMeasured
    BY DEF ReturnedMeansDone, ReturnedMeansSampled, ReturnedMeansMeasured
  <2>1. /\ finishedRequests = experimentsRequested /\ batchingQueue = <<>>
        /\ entitiesSampled = NumberEntities \/ exhausted
    BY DEF OperationInv, WalkInv, NothingLeft
  <2>2. ReturnedMeansSampled
    BY <2>1 DEF ReturnedMeansSampled
  <2>3. RequestCounts
    BY RequestCountsType DEF RequestsInv, HandedOn, PassedOn
  <2>4. Seen >= Passed
    BY <2>1, <2>3 DEF RequestCounts, Seen, Passed
  <2>5. Seen <= Passed
    BY <2>3 DEF RequestCounts, RequestsInv, HandedOn, PassedOn, Seen, Passed
  <2>6. /\ Cardinality(inFlight) = 0 /\ Len(measurementQueue) = 0
        /\ Cardinality(Notified) = 0
    BY <2>1, <2>3, <2>5 DEF RequestCounts, Seen, Passed
  <2>7. inFlight = {} /\ measurementQueue = <<>> /\ Notified = {}
    BY <2>6, LiveTypes, FS_EmptySet, ZeroLength DEF RequestsInv, HandedOn, PassedOn
  <2>8. Live = {}
    BY <2>7 DEF Live, Requests
  <2>9. ASSUME NEW i \in 0 .. entitiesSampled - 1, NEW k \in DOMAIN IndependentExperiments
        PROVE  Settled(ItemOf(i, k))
    <3>1. Followed(ItemOf(i, k))
      BY DEF FollowUp
    <3>2. ~Queued(ItemOf(i, k), batchingQueue) /\ ~Requested(ItemOf(i, k))
      BY <2>1, <2>8 DEF Queued, Requested
    <3>3. ~Dropped
      BY <2>3, <2>4 DEF Dropped, RequestCounts
    <3>. QED
      BY <3>1, <3>2, <3>3 DEF Followed
  <2>10. ReturnedMeansMeasured
    BY <2>9 DEF ReturnedMeansMeasured, Settled, ItemOf
  <2>. QED
    BY <2>2, <2>10
<1>. QED
  BY <1>1, OperationInit, OperationStep, RequestsInit, RequestsStep,
     FollowUpInit, FollowUpStep, PTL DEF Spec

-----------------------------------------------------------------------------
(* Continuous batching.                                                    *)

\* How many requests the initial batch has made so far, if each of its items
\* makes one.
InitialLevel ==
  entitiesSampled * Len(IndependentExperiments)
    + (IF initialItems = <<>> THEN 0 ELSE InitialDone)

InitialItemsFit ==
  initialItems # <<>> => Len(initialItems) <= Len(IndependentExperiments)

\* The upper side, when no entity holds more than one result of an experiment.
LevelInv ==
  /\ walk \in {"created", "initial"} => experimentsRequested = InitialLevel
  /\ Outstanding <= BatchLevel
  /\ InitialItemsFit

\* The lower side, when a success enables one experiment at most: run() lets
\* the level drop only when it has nothing left to submit.
LowerLevelInv ==
  /\ walk \in {"created", "initial"} => experimentsRequested >= InitialLevel
  /\ walk = "batching" => entitiesSampled >= BatchSize \/ exhausted
  /\ (walk = "batching" /\ entitiesSampled >= BatchSize) =>
        Outstanding >= BatchLevel \/ NothingLeft
  /\ InitialItemsFit

\* One entity more makes so many requests more.
LEMMA OneEntityMore ==
  ASSUME NEW sampled \in Nat, NEW experiments \in Nat
  PROVE  /\ sampled * experiments \in Nat
         /\ (sampled + 1) * experiments = sampled * experiments + experiments
OBVIOUS

\* More entities make more requests.
LEMMA MoreEntities ==
  ASSUME NEW sampled \in Nat, NEW batch \in Nat, NEW experiments \in Nat,
         sampled <= batch
  PROVE  sampled * experiments <= batch * experiments
<1>1. PICK more \in Nat : batch = sampled + more
  OBVIOUS
<1>2. batch * experiments = sampled * experiments + more * experiments
  BY <1>1
<1>3. more * experiments \in Nat /\ sampled * experiments \in Nat
  BY OneEntityMore
<1>. QED
  BY <1>2, <1>3

\* The numbers the level is made of.
LEMMA LevelTypes ==
  ASSUME OperationInv
  PROVE  /\ entitiesSampled \in Nat /\ BatchSize \in Nat \ {0}
         /\ Len(IndependentExperiments) \in Nat \ {0}
         /\ entitiesSampled * Len(IndependentExperiments) \in Nat
         /\ experimentsRequested \in Nat /\ finishedRequests \in Nat
         /\ initialItems \in Seq(Item) /\ Len(initialItems) \in Nat
         /\ initialItems # <<>> => Len(initialItems) # 0
         /\ InitialLevel \in Int /\ BatchLevel \in Nat
<1>1. /\ entitiesSampled \in Nat /\ BatchSize \in Nat \ {0}
      /\ Len(IndependentExperiments) \in Nat \ {0}
      /\ experimentsRequested \in Nat /\ finishedRequests \in Nat
      /\ initialItems \in Seq(Item)
  BY Constants, ZeroLength DEF OperationInv, TypeOK, WalkTypeOK
<1>2. /\ entitiesSampled * Len(IndependentExperiments) \in Nat
      /\ BatchLevel \in Nat
  BY <1>1, OneEntityMore DEF BatchLevel
<1>3. Len(initialItems) \in Nat /\ (initialItems # <<>> => Len(initialItems) # 0)
  BY <1>1, ZeroLength
<1>4. InitialLevel \in Int
  BY <1>1, <1>2, <1>3 DEF InitialLevel, InitialDone
<1>. QED
  BY <1>1, <1>2, <1>3, <1>4

\* The initial batch never makes more requests than a full one.
LEMMA InitialLevelBounded ==
  ASSUME NEW sampled \in Nat, NEW items \in Seq(Item), sampled <= BatchSize,
         items # <<>> => sampled < BatchSize
  PROVE  sampled * Len(IndependentExperiments)
           + (IF items = <<>> THEN 0 ELSE Len(IndependentExperiments) - Len(items))
           <= BatchLevel
<1>. DEFINE experiments == Len(IndependentExperiments)
            level == sampled * experiments
<1>1. /\ BatchSize \in Nat /\ experiments \in Nat
      /\ level \in Nat /\ BatchSize * experiments \in Nat /\ Len(items) \in Nat
      /\ (sampled + 1) * experiments = level + experiments
  BY Constants, OneEntityMore
<1>2. level <= BatchLevel
  BY <1>1, MoreEntities DEF BatchLevel
<1>3. items # <<>> => level + experiments <= BatchLevel
  <2>1. items # <<>> => (sampled + 1) * experiments <= BatchLevel
    BY <1>1, MoreEntities DEF BatchLevel
  <2>. QED
    BY <1>1, <2>1
<1>. HIDE DEF level, experiments
<1>4. BatchLevel \in Nat
  BY <1>1 DEF BatchLevel, experiments
<1>5. level + (IF items = <<>> THEN 0 ELSE experiments - Len(items)) <= BatchLevel
  BY <1>1, <1>2, <1>3, <1>4
<1>. QED
  BY <1>5 DEF level, experiments

\* An item submitted in the initial batch raises its level by one.
LEMMA InitialSubmitLevel ==
  ASSUME OperationInv, InitialItemsFit, InitialSubmit, walk' # "raised"
  PROVE  InitialLevel' = InitialLevel + 1 /\ InitialItemsFit'
<1>. DEFINE experiments == Len(IndependentExperiments)
            level == entitiesSampled * experiments
            n == Len(initialItems)
<1>1. /\ entitiesSampled \in Nat /\ experiments \in Nat /\ level \in Nat
      /\ n \in Nat \ {0} /\ initialItems \in Seq(Item) /\ n <= experiments
      /\ initialItems # <<>>
  BY LevelTypes DEF InitialSubmit, InitialItemsFit
<1>2. /\ initialItems' = Tail(initialItems) /\ Len(Tail(initialItems)) = n - 1
      /\ Tail(initialItems) \in Seq(Item)
      /\ entitiesSampled' = IF n = 1 THEN entitiesSampled + 1 ELSE entitiesSampled
  BY <1>1 DEF InitialSubmit, SubmitRaises
<1>3. InitialLevel = level + (experiments - n)
  BY <1>1 DEF InitialLevel, InitialDone
<1>4. CASE n = 1
  <2>1. initialItems' = <<>> /\ entitiesSampled' = entitiesSampled + 1
    BY <1>2, <1>4, ZeroLength
  <2>2. InitialLevel' = (entitiesSampled + 1) * experiments
    <3>1. (entitiesSampled + 1) * experiments \in Nat
      BY <1>1, OneEntityMore
    <3>. QED
      BY <2>1, <3>1 DEF InitialLevel
  <2>3. (entitiesSampled + 1) * experiments = level + experiments
    BY <1>1, OneEntityMore
  <2>4. InitialItemsFit'
    BY <2>1 DEF InitialItemsFit
  <2>. HIDE DEF level, experiments, n
  <2>. QED
    BY <1>1, <1>3, <1>4, <2>2, <2>3, <2>4
<1>5. CASE n # 1
  <2>1. /\ initialItems' # <<>> /\ Len(initialItems') = n - 1
        /\ entitiesSampled' = entitiesSampled
    <3>1. Len(initialItems') = n - 1 /\ n - 1 # 0 /\ entitiesSampled' = entitiesSampled
      BY <1>1, <1>2, <1>5
    <3>2. Len(<<>>) = 0
      OBVIOUS
    <3>. QED
      BY <3>1, <3>2
  <2>2. InitialLevel' = level + (experiments - (n - 1))
    BY <2>1 DEF InitialLevel, InitialDone
  <2>3. InitialItemsFit'
    BY <1>1, <2>1 DEF InitialItemsFit
  <2>. HIDE DEF level, experiments, n
  <2>. QED
    BY <1>1, <1>3, <2>2, <2>3
<1>. QED
  BY <1>4, <1>5

\* The steps that move the level, and what the others leave alone.
levelVars == <<walk, entitiesSampled, exhausted, initialItems,
               experimentsRequested, finishedRequests, batchingQueue>>

\* The steps that change how many experiments are outstanding.
LEMMA LevelSteps ==
  ASSUME [Next]_vars
  PROVE  \/ InitialSubmit \/ ProcessUpdate
         \/ InitialSample \/ InitialExhausted \/ InitialBatchSubmitted
         \/ RunReturns \/ RunStarts
         \/ UNCHANGED levelVars
<1>. USE DEF levelVars, operatorVars, walkVars, vars
<1>1. CASE ActuatorStep
  BY <1>1 DEF ActuatorStep
<1>2. CASE OperatorCallback
  BY <1>2 DEF OperatorCallback, ExecuteCall
<1>3. CASE OperatorInternal
  BY <1>3 DEF OperatorInternal, RunInternal, ProcessError
<1>4. CASE OperatorSubmits
  BY <1>4 DEF OperatorSubmits, RunSubmits
<1>5. CASE ManagerStep \/ OperatorUnsubscribed \/ OperatorCrashes
  BY <1>5 DEF ManagerStep, OperatorUnsubscribed, OperatorCrashes
<1>6. CASE DriverRuns
  BY <1>6 DEF DriverRuns
<1>7. CASE SetupFails \/ DriverStopsWaiting \/ DriverInterrupted \/ DriverFinishes
  BY <1>7 DEF SetupFails, DriverStopsWaiting, DriverInterrupted, DriverFinishes
<1>8. CASE UNCHANGED vars
  BY <1>8
<1>. QED
  BY <1>1, <1>2, <1>3, <1>4, <1>5, <1>6, <1>7, <1>8 DEF Next

\* An entity of the initial batch is sampled with all its experiments to come.
LEMMA InitialSampleLevel ==
  ASSUME OperationInv, InitialSample
  PROVE  InitialLevel' = InitialLevel /\ InitialItemsFit'
<1>1. /\ initialItems = <<>> /\ entitiesSampled' = entitiesSampled
      /\ initialItems' = ItemsOf(entitiesSampled, IndependentExperiments)
  BY DEF InitialSample, MoreInitialEntities
<1>2. /\ DOMAIN IndependentExperiments = 1 .. Len(IndependentExperiments)
      /\ Len(IndependentExperiments) \in Nat
  BY Constants
<1>3. Len(initialItems') = Len(IndependentExperiments)
  BY <1>1, <1>2 DEF ItemsOf
<1>4. InitialLevel' = InitialLevel
  BY <1>1, <1>2, <1>3, LevelTypes DEF InitialLevel, InitialDone
<1>. QED
  BY <1>2, <1>3, <1>4 DEF InitialItemsFit

\* With one result of an experiment at most, a submission makes one request.
LEMMA SubmitsOne ==
  ASSUME MaxMemoized <= 1, OperationInv, NEW item \in Item, Submit(item)
  PROVE  experimentsRequested' = experimentsRequested + 1
<1>1. memoized[item.index][item.experiment] \in {0, 1}
  BY Constants DEF OperationInv, TypeOK, MeasurementsTypeOK, Item
<1>. QED
  BY <1>1 DEF Submit, NumberCreated

\* Every step keeps the level at or below that of a full initial batch.
LEMMA LevelStep ==
  ASSUME MaxMemoized <= 1
  PROVE  OperationInv /\ LevelInv /\ [Next]_vars => LevelInv'
<1>. SUFFICES ASSUME OperationInv, LevelInv, [Next]_vars PROVE LevelInv'
  OBVIOUS
<1>0. /\ experimentsRequested \in Nat /\ finishedRequests \in Nat
      /\ InitialLevel \in Int /\ BatchLevel \in Nat
      /\ Outstanding <= BatchLevel /\ InitialItemsFit
      /\ walk \in {"created", "initial"} => finishedRequests = 0
  BY LevelTypes DEF LevelInv, OperationInv, WalkInv
<1>1. OperationInv'
  BY OperationStep
<1>2. CASE InitialSubmit
  <2>1. /\ walk = "initial" /\ finishedRequests' = finishedRequests
        /\ Head(initialItems) \in Item
    BY <1>2 DEF InitialSubmit, OperationInv, TypeOK, WalkTypeOK
  <2>2. CASE walk' = "raised"
    <3>1. experimentsRequested' = experimentsRequested
      BY <1>2, <2>1, <2>2 DEF InitialSubmit, Submit, SubmitRaises
    <3>2. InitialItemsFit'
      <4>1. /\ initialItems \in Seq(Item) /\ initialItems # <<>>
            /\ initialItems' = Tail(initialItems)
            /\ Len(IndependentExperiments) \in Nat
            /\ Len(initialItems) <= Len(IndependentExperiments)
        BY <1>0, <1>2, LevelTypes DEF InitialSubmit, InitialItemsFit
      <4>. QED
        BY <4>1 DEF InitialItemsFit
    <3>. QED
      BY <1>0, <2>1, <2>2, <3>1, <3>2 DEF LevelInv, Outstanding
  <2>3. CASE walk' # "raised"
    <3>1. InitialLevel' = InitialLevel + 1 /\ InitialItemsFit'
      BY <1>0, <1>2, <2>3, InitialSubmitLevel
    <3>2. experimentsRequested' = experimentsRequested + 1 /\ walk' = walk
      BY <1>2, <2>1, <2>3, SubmitsOne DEF InitialSubmit, Submit, SubmitRaises
    <3>3. experimentsRequested' = InitialLevel'
      BY <2>1, <3>1, <3>2 DEF LevelInv
    <3>4. InitialLevel' <= BatchLevel
      <4>1. /\ entitiesSampled' \in Nat /\ initialItems' \in Seq(Item)
            /\ entitiesSampled' <= BatchSize
            /\ initialItems' # <<>> => entitiesSampled' < BatchSize
        BY <1>1, <2>1, <3>2 DEF OperationInv, TypeOK, WalkTypeOK, WalkInv
      <4>. QED
        BY <4>1, InitialLevelBounded DEF InitialLevel, InitialDone
    <3>5. Outstanding' <= BatchLevel
      BY <1>0, <2>1, <3>2, <3>3, <3>4 DEF Outstanding
    <3>. QED
      BY <3>1, <3>3, <3>5 DEF LevelInv, BatchLevel
  <2>. QED
    BY <2>2, <2>3
<1>3. CASE ProcessUpdate
  <2>1. /\ walk = "batching" /\ finishedRequests' = finishedRequests + 1
        /\ initialItems' = initialItems
    BY <1>3 DEF ProcessUpdate, WaitingOnRequests
  <2>2. /\ experimentsRequested' \in {experimentsRequested, experimentsRequested + 1}
        /\ walk' \in {walk, "raised"}
    <3>1. CASE \E item \in Item : Submit(item)
      BY <3>1, SubmitsOne DEF Submit
    <3>2. CASE \E item \in Item : SubmitRaises(item)
      BY <3>2 DEF SubmitRaises
    <3>3. CASE UNCHANGED <<measurementVars, experimentsRequested>>
      <4>1. walk' \in {walk, "raised"}
        BY <1>3 DEF ProcessUpdate, GetAndSubmit, Submit, SubmitRaises
      <4>. QED
        BY <3>3, <4>1
    <3>. QED
      BY <1>3, <3>1, <3>2, <3>3, TurnOfLoop
  <2>3. Outstanding' <= Outstanding /\ Outstanding \in Int /\ Outstanding' \in Int
    <3>1. CASE experimentsRequested' = experimentsRequested
      BY <1>0, <2>1, <3>1 DEF Outstanding
    <3>2. CASE experimentsRequested' = experimentsRequested + 1
      BY <1>0, <2>1, <3>2 DEF Outstanding
    <3>. QED
      BY <2>2, <3>1, <3>2
  <2>4. Outstanding' <= BatchLevel
    BY <1>0, <2>3
  <2>. QED
    BY <1>0, <2>1, <2>2, <2>4 DEF LevelInv, BatchLevel, InitialItemsFit
<1>4. CASE InitialSample
  <2>1. /\ InitialLevel' = InitialLevel /\ InitialItemsFit'
        /\ UNCHANGED <<walk, experimentsRequested, finishedRequests>>
    BY <1>4, InitialSampleLevel DEF InitialSample
  <2>. QED
    BY <1>0, <2>1 DEF LevelInv, Outstanding, BatchLevel
<1>5. CASE \/ InitialExhausted \/ InitialBatchSubmitted \/ RunReturns \/ RunStarts
           \/ UNCHANGED levelVars
  <2>1. UNCHANGED <<entitiesSampled, initialItems, experimentsRequested, finishedRequests>>
    BY <1>5 DEF InitialExhausted, InitialBatchSubmitted, RunReturns, RunStarts, levelVars
  <2>2. walk' \in {"created", "initial"} => walk \in {"created", "initial"}
    BY <1>5 DEF InitialExhausted, InitialBatchSubmitted, RunReturns, RunStarts,
                levelVars, MoreInitialEntities
  <2>. QED
    BY <2>1, <2>2
       DEF LevelInv, Outstanding, BatchLevel, InitialItemsFit, InitialLevel, InitialDone
<1>. QED
  BY <1>2, <1>3, <1>4, <1>5, LevelSteps

\* With one dependent experiment at most, a finished request queues one item at
\* most.
LEMMA QueuesOne ==
  ASSUME OperationInv, \A e \in Experiments : Len(DependentsOf[e]) <= 1,
         NEW request \in Answered, batchingQueue = <<>>
  PROVE  Len(QueueAfter(request)) <= 1
<1>. DEFINE dependents == DependentsOf[request.experiment]
            items == ItemsOf(request.index, dependents)
<1>1. /\ request.index \in Indices /\ dependents \in Seq(Experiments)
      /\ Len(dependents) <= 1
  BY Constants DEF Answered, Request
<1>2. items \in Seq(Item)
  BY <1>1, ItemsOfType
<1>3. Len(items) <= 1
  <2>1. DOMAIN items = 1 .. Len(dependents) /\ Len(dependents) \in Nat
    BY <1>1 DEF ItemsOf
  <2>2. Len(items) = Len(dependents)
    BY <2>1
  <2>. QED
    BY <1>1, <2>2
<1>. HIDE DEF dependents
<1>4. <<>> \o items = items
  BY <1>2
<1>5. Len(Append(<<>>, [index |-> request.index, experiment |-> request.experiment])) = 1
  OBVIOUS
<1>. QED
  BY <1>3, <1>4, <1>5 DEF QueueAfter, dependents

\* Every step keeps the level up while there is something to submit.
LEMMA LowerLevelStep ==
  ASSUME \A e \in Experiments : Len(DependentsOf[e]) <= 1
  PROVE  OperationInv /\ LowerLevelInv /\ [Next]_vars => LowerLevelInv'
<1>. SUFFICES ASSUME OperationInv, LowerLevelInv, [Next]_vars PROVE LowerLevelInv'
  OBVIOUS
<1>0. /\ experimentsRequested \in Nat /\ finishedRequests \in Nat
      /\ InitialLevel \in Int /\ BatchLevel \in Nat
      /\ entitiesSampled \in 0 .. NumberEntities /\ BatchSize \in 1 .. NumberEntities
      /\ InitialItemsFit /\ NumberEntities \in Nat
      /\ walk \in {"created", "initial"} => finishedRequests = 0
  BY LevelTypes, Constants DEF LowerLevelInv, OperationInv, WalkInv, TypeOK, WalkTypeOK
<1>2. CASE InitialSubmit
  <2>1. /\ walk = "initial" /\ Head(initialItems) \in Item
        /\ experimentsRequested >= InitialLevel
    BY <1>2 DEF InitialSubmit, OperationInv, TypeOK, WalkTypeOK, LowerLevelInv
  <2>2. CASE walk' = "raised"
    <3>1. /\ initialItems \in Seq(Item) /\ initialItems # <<>>
          /\ initialItems' = Tail(initialItems)
          /\ Len(IndependentExperiments) \in Nat
          /\ Len(initialItems) <= Len(IndependentExperiments)
      BY <1>0, <1>2, LevelTypes DEF InitialSubmit, InitialItemsFit
    <3>2. InitialItemsFit'
      BY <3>1 DEF InitialItemsFit
    <3>. QED
      BY <2>2, <3>2 DEF LowerLevelInv
  <2>3. CASE walk' # "raised"
    <3>1. InitialLevel' = InitialLevel + 1 /\ InitialItemsFit'
      BY <1>0, <1>2, <2>3, InitialSubmitLevel
    <3>2. Submit(Head(initialItems)) /\ walk' = walk
      BY <1>2, <2>3 DEF InitialSubmit, Submit, SubmitRaises
    <3>3. experimentsRequested' \in Nat /\ experimentsRequested' > experimentsRequested
      BY <1>0, <2>1, <3>2, SubmitType DEF OperationInv, TypeOK
    <3>4. experimentsRequested' >= InitialLevel'
      BY <1>0, <2>1, <3>1, <3>3
    <3>. QED
      BY <2>1, <3>1, <3>2, <3>4 DEF LowerLevelInv
  <2>. QED
    BY <2>2, <2>3
<1>3. CASE ProcessUpdate
  <2>. SUFFICES ASSUME walk' # "raised" PROVE LowerLevelInv'
    BY <1>0, <1>3 DEF LowerLevelInv, ProcessUpdate, InitialItemsFit
  <2>. DEFINE head == Head(updateQueue)
              queue == QueueAfter(head)
  <2>1. /\ walk = "batching" /\ finishedRequests' = finishedRequests + 1
        /\ initialItems' = initialItems /\ head \in Answered /\ WalkTypeOK
    BY <1>3, TurnOfLoop
       DEF ProcessUpdate, WaitingOnRequests, OperationInv, TypeOK
  <2>2. queue \in Seq(Item)
    BY <2>1, ProcessCompletedType
  <2>3. PICK outcome \in SamplingOutcomes(queue) :
          /\ entitiesSampled' = outcome.sampled /\ exhausted' = outcome.over
          /\ GetAndSubmit(outcome.queue)
    BY <1>3 DEF ProcessUpdate
  <2>4. batchingQueue = <<>> => Len(queue) <= 1
    BY <2>1, QueuesOne
  <2>. HIDE DEF queue
  <2>5. /\ outcome.queue \in Seq(Item)
        /\ outcome.queue = <<>> => entitiesSampled' = NumberEntities \/ exhausted'
        /\ entitiesSampled' >= entitiesSampled /\ entitiesSampled' \in 0 .. NumberEntities
    BY <2>1, <2>2, <2>3, SamplingType
  <2>6. entitiesSampled = NumberEntities \/ exhausted =>
          /\ outcome.queue = queue
          /\ entitiesSampled' = entitiesSampled /\ exhausted' = exhausted
    BY <1>0, <2>3 DEF SamplingOutcomes, Outcome
  <2>7. /\ walk' = walk /\ experimentsRequested' \in Nat
        /\ outcome.queue = <<>> =>
             batchingQueue' = <<>> /\ experimentsRequested' = experimentsRequested
        /\ outcome.queue # <<>> =>
             /\ batchingQueue' = Tail(outcome.queue)
             /\ experimentsRequested' > experimentsRequested
    <3>1. outcome.queue # <<>> => Head(outcome.queue) \in Item
      BY <2>5
    <3>2. outcome.queue # <<>> => Submit(Head(outcome.queue))
      BY <2>3 DEF GetAndSubmit, SubmitRaises
    <3>3. outcome.queue # <<>> =>
            /\ experimentsRequested' \in Nat
            /\ experimentsRequested' > experimentsRequested
            /\ walk' = walk
      BY <1>0, <3>1, <3>2, SubmitType DEF OperationInv, TypeOK
    <3>. QED
      BY <1>0, <2>3, <3>3 DEF GetAndSubmit
  <2>8. entitiesSampled' >= BatchSize \/ exhausted'
    BY <1>0, <2>1, <2>5, <2>6 DEF LowerLevelInv
  <2>9. entitiesSampled' >= BatchSize => Outstanding' >= BatchLevel \/ NothingLeft'
    <3>. SUFFICES ASSUME entitiesSampled' >= BatchSize
                  PROVE  Outstanding' >= BatchLevel \/ NothingLeft'
      OBVIOUS
    <3>1. CASE outcome.queue = <<>>
      BY <2>5, <2>7, <3>1 DEF NothingLeft
    <3>2. CASE outcome.queue # <<>>
      <4>1. entitiesSampled >= BatchSize
        BY <1>0, <2>1, <2>5, <2>6 DEF LowerLevelInv
      <4>2. CASE Outstanding >= BatchLevel
        BY <1>0, <2>1, <2>7, <3>2, <4>2 DEF Outstanding
      <4>3. CASE NothingLeft
        <5>1. outcome.queue = queue /\ Len(queue) <= 1
          BY <2>4, <2>6, <4>3 DEF NothingLeft
        <5>2. Tail(queue) \in Seq(Item) /\ Len(Tail(queue)) = 0
          <6>1. Tail(queue) \in Seq(Item) /\ Len(Tail(queue)) = Len(queue) - 1
            BY <2>2, <3>2, <5>1, RequestsTail
          <6>2. Len(queue) \in Nat /\ Len(Tail(queue)) \in Nat
            BY <2>2, <6>1
          <6>. QED
            BY <5>1, <6>1, <6>2
        <5>3. batchingQueue' = <<>>
          BY <2>7, <3>2, <5>1, <5>2, ZeroLength
        <5>. QED
          BY <2>6, <4>3, <5>3 DEF NothingLeft
      <4>. QED
        BY <2>1, <4>1, <4>2, <4>3 DEF LowerLevelInv
    <3>. QED
      BY <3>1, <3>2
  <2>. QED
    BY <1>0, <2>1, <2>7, <2>8, <2>9 DEF LowerLevelInv, InitialItemsFit, BatchLevel
<1>4. CASE InitialSample
  <2>1. /\ InitialLevel' = InitialLevel /\ InitialItemsFit'
        /\ walk = "initial" /\ UNCHANGED <<walk, experimentsRequested>>
    BY <1>4, InitialSampleLevel DEF InitialSample, MoreInitialEntities
  <2>. QED
    BY <2>1 DEF LowerLevelInv
<1>5. CASE InitialBatchSubmitted
  <2>1. /\ walk = "initial" /\ initialItems = <<>>
        /\ entitiesSampled = BatchSize \/ exhausted
        /\ walk' = "batching"
        /\ UNCHANGED <<entitiesSampled, exhausted, initialItems,
                       experimentsRequested, finishedRequests>>
    BY <1>5 DEF InitialBatchSubmitted
  <2>2. entitiesSampled = BatchSize => InitialLevel = BatchLevel
    BY <2>1, LevelTypes DEF InitialLevel, BatchLevel
  <2>3. entitiesSampled >= BatchSize => entitiesSampled = BatchSize
    BY <1>0, <2>1 DEF OperationInv, WalkInv
  <2>4. entitiesSampled >= BatchSize => Outstanding' >= BatchLevel
    BY <1>0, <2>1, <2>2, <2>3 DEF LowerLevelInv, Outstanding
  <2>5. entitiesSampled' >= BatchSize \/ exhausted'
    BY <1>0, <2>1
  <2>. QED
    BY <1>0, <2>1, <2>4, <2>5 DEF LowerLevelInv, InitialItemsFit, BatchLevel
<1>6. CASE InitialExhausted \/ RunStarts
  <2>1. /\ walk \in {"created", "initial"} /\ walk' \in {"initial", "raised"}
        /\ UNCHANGED <<entitiesSampled, initialItems, experimentsRequested>>
    BY <1>6 DEF InitialExhausted, RunStarts, MoreInitialEntities
  <2>. QED
    BY <2>1 DEF LowerLevelInv, InitialItemsFit, InitialLevel, InitialDone
<1>7. CASE RunReturns
  BY <1>7 DEF RunReturns, LowerLevelInv, InitialItemsFit
<1>8. CASE UNCHANGED levelVars
  BY <1>8 DEF levelVars, LowerLevelInv, InitialItemsFit, InitialLevel, InitialDone,
     Outstanding, BatchLevel, NothingLeft
<1>. QED
  BY <1>2, <1>3, <1>4, <1>5, <1>6, <1>7, <1>8, LevelSteps

\* At first nothing is requested, and the level is zero.
LEMMA LevelInit == Init => LevelInv /\ LowerLevelInv
<1>. SUFFICES ASSUME Init PROVE LevelInv /\ LowerLevelInv
  OBVIOUS
<1>1. /\ walk = "created" /\ entitiesSampled = 0 /\ initialItems = <<>>
      /\ experimentsRequested = 0 /\ finishedRequests = 0
  BY DEF Init, WalkInit
<1>2. Len(IndependentExperiments) \in Nat /\ BatchLevel \in Nat
  BY OperationInit, LevelTypes
<1>3. InitialLevel = 0
  BY <1>1, <1>2 DEF InitialLevel
<1>. QED
  BY <1>1, <1>2, <1>3 DEF LevelInv, LowerLevelInv, Outstanding, InitialItemsFit

(***************************************************************************)
(* Continuous batching never has more requests outstanding than a full     *)
(* initial batch, whatever fails, is retried or enabled, if no entity      *)
(* holds more than one result of an experiment.                            *)
(***************************************************************************)
THEOREM BatchingBounded ==
  ASSUME MaxMemoized <= 1
  PROVE  Spec => []ConcurrencyBounded
<1>1. LevelInv => ConcurrencyBounded
  BY DEF LevelInv, ConcurrencyBounded
<1>2. OperationInv /\ LevelInv /\ [Next]_vars => LevelInv'
  BY LevelStep
<1>. QED
  BY <1>1, <1>2, OperationInit, OperationStep, LevelInit, PTL DEF Spec

(***************************************************************************)
(* If moreover a success enables one experiment at most, run() never waits *)
(* below that level while an experiment is ready to be submitted.          *)
(***************************************************************************)
THEOREM BatchingKept ==
  ASSUME MaxMemoized <= 1, \A e \in Experiments : Len(DependentsOf[e]) <= 1
  PROVE  Spec => []ConcurrencyKept
<1>1. OperationInv /\ LevelInv /\ LowerLevelInv => ConcurrencyKept
  BY DEF LevelInv, LowerLevelInv, NothingLeft, WaitingOnRequests, ConcurrencyKept,
         ConcurrencyBounded, ConcurrencyMaintained
<1>2. OperationInv /\ LevelInv /\ [Next]_vars => LevelInv'
  BY LevelStep
<1>3. OperationInv /\ LowerLevelInv /\ [Next]_vars => LowerLevelInv'
  BY LowerLevelStep
<1>. QED
  BY <1>1, <1>2, <1>3, OperationInit, OperationStep, LevelInit, PTL DEF Spec

-----------------------------------------------------------------------------
(* Sums.                                                                   *)

\* What Total counts: each argument as often as its value.
Counted(f) == UNION {{x} \X (1 .. f[x]) : x \in DOMAIN f}

\* A sum of finitely many naturals is a natural.
LEMMA TotalType ==
  ASSUME NEW D, IsFiniteSet(D), NEW f \in [D -> Nat]
  PROVE  IsFiniteSet(Counted(f)) /\ Total(f) = Cardinality(Counted(f)) /\ Total(f) \in Nat
<1>. DEFINE parts == {{x} \X (1 .. f[x]) : x \in D}
            part == [x \in D |-> {x} \X (1 .. f[x])]
<1>1. part \in Surjection(D, parts)
  BY DEF Surjection
<1>2. IsFiniteSet(parts)
  BY <1>1, FS_Surjection
<1>3. ASSUME NEW x \in D PROVE IsFiniteSet({x} \X (1 .. f[x]))
  <2>1. 1 \in Int /\ f[x] \in Int
    OBVIOUS
  <2>2. IsFiniteSet({x}) /\ IsFiniteSet(1 .. f[x])
    BY <2>1, FS_Singleton, FS_Interval
  <2>. QED
    BY <2>2, FS_Product
<1>4. \A part1 \in parts : IsFiniteSet(part1)
  BY <1>3
<1>5. IsFiniteSet(UNION parts)
  BY <1>2, <1>4, FS_UNION
<1>6. Counted(f) = UNION parts
  BY DEF Counted
<1>7. IsFiniteSet(Counted(f)) /\ Total(f) = Cardinality(Counted(f))
  BY <1>5, <1>6 DEF Total, Counted
<1>. QED
  BY <1>7, FS_CardinalityType

\* The sum over no arguments.
LEMMA TotalOfNone ==
  ASSUME NEW f, DOMAIN f = {}
  PROVE  Total(f) = 0
<1>1. Counted(f) = {}
  BY DEF Counted
<1>. QED
  BY <1>1, FS_EmptySet DEF Total, Counted

\* A function with finitely many values, all natural numbers.
Summable(f) == IsFiniteSet(DOMAIN f) /\ f \in [DOMAIN f -> Nat]

\* The function is put together from two others.
Splits(h, f, g) ==
  /\ Summable(f) /\ Summable(g)
  /\ DOMAIN f \cap DOMAIN g = {}
  /\ h \in [DOMAIN f \cup DOMAIN g -> Nat]
  /\ \A x \in DOMAIN f : h[x] = f[x]
  /\ \A x \in DOMAIN g : h[x] = g[x]

\* The functions have the same values, as often.
Renames(f, g) ==
  /\ Summable(f) /\ g \in [DOMAIN g -> Nat]
  /\ \E b \in Bijection(DOMAIN f, DOMAIN g) : \A x \in DOMAIN f : f[x] = g[b[x]]

\* The sum of what is put together from two.
LEMMA TotalOfUnion ==
  \A f, g, h : Splits(h, f, g) => Total(h) = Total(f) + Total(g)
<1>. SUFFICES ASSUME NEW f, NEW g, NEW h, Splits(h, f, g)
              PROVE  Total(h) = Total(f) + Total(g)
  OBVIOUS
<1>. DEFINE D == DOMAIN f
            E == DOMAIN g
<1>1. /\ IsFiniteSet(D) /\ IsFiniteSet(E) /\ IsFiniteSet(D \cup E) /\ D \cap E = {}
      /\ f \in [D -> Nat] /\ g \in [E -> Nat] /\ h \in [D \cup E -> Nat]
      /\ \A x \in D : h[x] = f[x]
      /\ \A x \in E : h[x] = g[x]
  BY FS_Union DEF Splits, Summable
<1>2. /\ IsFiniteSet(Counted(f)) /\ Total(f) = Cardinality(Counted(f)) /\ Total(f) \in Nat
      /\ IsFiniteSet(Counted(g)) /\ Total(g) = Cardinality(Counted(g)) /\ Total(g) \in Nat
      /\ Total(h) = Cardinality(Counted(h))
  BY <1>1, TotalType
<1>3. Counted(h) = Counted(f) \cup Counted(g) /\ Counted(f) \cap Counted(g) = {}
  BY <1>1 DEF Counted
<1>4. Cardinality(Counted(f) \cup Counted(g))
        = Cardinality(Counted(f)) + Cardinality(Counted(g)) - 0
  <2>1. Cardinality(Counted(f) \cap Counted(g)) = 0
    BY <1>3, FS_EmptySet
  <2>. QED
    BY <1>2, <2>1, FS_Union
<1>. QED
  BY <1>2, <1>3, <1>4

\* The sum over one argument.
LEMMA TotalOfOne ==
  ASSUME NEW x, NEW f \in [{x} -> Nat]
  PROVE  Total(f) = f[x]
<1>. DEFINE at == [n \in 1 .. f[x] |-> <<x, n>>]
<1>1. Counted(f) = {x} \X (1 .. f[x])
  BY DEF Counted
<1>2. at \in Bijection(1 .. f[x], Counted(f))
  <2>1. at \in [1 .. f[x] -> Counted(f)]
    BY <1>1
  <2>2. \A m, n \in 1 .. f[x] : at[m] = at[n] => m = n
    OBVIOUS
  <2>3. ASSUME NEW p \in Counted(f) PROVE \E n \in 1 .. f[x] : at[n] = p
    <3>1. p = <<x, p[2]>> /\ p[2] \in 1 .. f[x]
      BY <1>1
    <3>. QED
      BY <3>1
  <2>. HIDE DEF at
  <2>. QED
    BY <2>1, <2>2, <2>3 DEF Bijection, Injection, Surjection, IsInjective
<1>3. IsFiniteSet(1 .. f[x]) /\ Cardinality(1 .. f[x]) = f[x]
  BY FS_Interval
<1>4. Cardinality(Counted(f)) = f[x]
  BY <1>2, <1>3, FS_Bijection DEF ExistsBijection
<1>. QED
  BY <1>4 DEF Total, Counted

\* The sum does not depend on what the arguments are.
LEMMA TotalRenamed ==
  \A f, g : Renames(f, g) => Total(f) = Total(g)
<1>. SUFFICES ASSUME NEW f, NEW g, Renames(f, g)
              PROVE  Total(f) = Total(g)
  OBVIOUS
<1>. DEFINE D == DOMAIN f
            E == DOMAIN g
<1>0. PICK b \in Bijection(D, E) : \A x \in D : f[x] = g[b[x]]
  BY DEF Renames
<1>1. /\ IsFiniteSet(Counted(f)) /\ Total(f) = Cardinality(Counted(f))
      /\ f \in [D -> Nat] /\ g \in [E -> Nat]
  BY TotalType DEF Renames, Summable
<1>. DEFINE c == [p \in Counted(f) |-> <<b[p[1]], p[2]>>]
<1>2. /\ \A p \in Counted(f) : /\ p = <<p[1], p[2]>> /\ p[1] \in D
                               /\ p[2] \in 1 .. f[p[1]]
      /\ \A p \in Counted(g) : /\ p = <<p[1], p[2]>> /\ p[1] \in E
                               /\ p[2] \in 1 .. g[p[1]]
      /\ \A x \in D : \A n \in 1 .. f[x] : <<x, n>> \in Counted(f)
      /\ \A x \in E : \A n \in 1 .. g[x] : <<x, n>> \in Counted(g)
  BY <1>1 DEF Counted
<1>3. /\ b \in [D -> E] /\ (\A x \in D : f[x] = g[b[x]])
      /\ \A x, y \in D : b[x] = b[y] => x = y
      /\ \A y \in E : \E x \in D : b[x] = y
  BY <1>0 DEF Bijection, Injection, Surjection, IsInjective
<1>4. \A p \in Counted(f) : <<b[p[1]], p[2]>> \in Counted(g)
  BY <1>2, <1>3
<1>5. \A p, q \in Counted(f) : <<b[p[1]], p[2]>> = <<b[q[1]], q[2]>> => p = q
  BY <1>2, <1>3
<1>6. ASSUME NEW q \in Counted(g)
      PROVE  \E p \in Counted(f) : <<b[p[1]], p[2]>> = q
  <2>1. PICK x \in D : b[x] = q[1]
    BY <1>2, <1>3
  <2>2. <<x, q[2]>> \in Counted(f)
    BY <1>2, <1>3, <2>1
  <2>. QED
    BY <1>2, <2>1, <2>2
<1>7. c \in Bijection(Counted(f), Counted(g))
  BY <1>4, <1>5, <1>6 DEF Bijection, Injection, Surjection, IsInjective
<1>8. Cardinality(Counted(g)) = Cardinality(Counted(f))
  BY <1>1, <1>7, FS_Bijection DEF ExistsBijection
<1>. QED
  BY <1>1, <1>8 DEF Total, Counted

\* The sums over a sequence and over a set of what their members weigh.
SeqTotal(s, weight) == Total([k \in DOMAIN s |-> weight[s[k]]])
SetTotal(R, weight) == Total([r \in R |-> weight[r]])

\* The weights of the members of a sequence.
LEMMA SeqWeights ==
  ASSUME NEW S, NEW s \in Seq(S), NEW weight \in [S -> Nat]
  PROVE  /\ DOMAIN s = 1 .. Len(s) /\ Len(s) \in Nat /\ IsFiniteSet(DOMAIN s)
         /\ [k \in DOMAIN s |-> weight[s[k]]] \in [DOMAIN s -> Nat]
         /\ SeqTotal(s, weight) \in Nat
<1>1. /\ DOMAIN s = 1 .. Len(s) /\ Len(s) \in Nat
      /\ [k \in DOMAIN s |-> weight[s[k]]] \in [DOMAIN s -> Nat]
  OBVIOUS
<1>2. IsFiniteSet(DOMAIN s)
  BY <1>1, FS_Interval
<1>. QED
  BY <1>1, <1>2, TotalType DEF SeqTotal

\* The sum over an interval that is cut in two.
LEMMA TotalOfParts ==
  ASSUME NEW m \in Nat, NEW n \in Nat, NEW h \in [1 .. m + n -> Nat]
  PROVE  Total(h) = Total([k \in 1 .. m |-> h[k]]) + Total([k \in 1 .. n |-> h[m + k]])
<1>. DEFINE later == m + 1 .. m + n
            f == [k \in 1 .. m |-> h[k]]
            g == [k \in 1 .. n |-> h[m + k]]
            rest == [k \in later |-> h[k]]
            b == [k \in 1 .. n |-> m + k]
<1>1. m + 1 \in Int /\ m + n \in Int /\ n \in Int /\ m \in Int /\ 1 \in Int
  OBVIOUS
<1>2. IsFiniteSet(1 .. m) /\ IsFiniteSet(1 .. n) /\ IsFiniteSet(later)
  BY <1>1, FS_Interval
<1>3. Summable(f) /\ Summable(g) /\ Summable(rest)
  BY <1>2 DEF Summable
<1>4. Splits(h, f, rest)
  <2>1. DOMAIN f = 1 .. m /\ DOMAIN rest = later
    OBVIOUS
  <2>2. 1 .. m + n = (1 .. m) \cup later /\ (1 .. m) \cap later = {}
    OBVIOUS
  <2>3. \A k \in 1 .. m : h[k] = f[k]
    OBVIOUS
  <2>4. \A k \in later : h[k] = rest[k]
    OBVIOUS
  <2>. HIDE DEF f, rest
  <2>. QED
    BY <1>3, <2>1, <2>2, <2>3, <2>4 DEF Splits
<1>5. Renames(g, rest)
  <2>1. /\ b \in [1 .. n -> later] /\ \A j, k \in 1 .. n : b[j] = b[k] => j = k
        /\ \A k \in 1 .. n : g[k] = rest[b[k]]
    OBVIOUS
  <2>2. ASSUME NEW k \in later PROVE \E j \in 1 .. n : b[j] = k
    <3>1. k - m \in 1 .. n /\ b[k - m] = k
      OBVIOUS
    <3>. QED
      BY <3>1
  <2>3. b \in Bijection(1 .. n, later)
    BY <2>1, <2>2 DEF Bijection, Injection, Surjection, IsInjective
  <2>4. DOMAIN g = 1 .. n /\ DOMAIN rest = later
    OBVIOUS
  <2>. HIDE DEF g, rest, b, later
  <2>. QED
    BY <1>3, <2>1, <2>3, <2>4 DEF Renames, Summable
<1>. HIDE DEF f, g, rest
<1>6. Total(f) \in Nat
  BY <1>3, TotalType DEF Summable
<1>7. Total(h) = Total(f) + Total(rest) /\ Total(g) = Total(rest)
  BY <1>4, <1>5, TotalOfUnion, TotalRenamed
<1>. QED
  BY <1>7 DEF f, g

\* The sum over two joined sequences.
LEMMA SeqTotalConcat ==
  ASSUME NEW S, NEW s \in Seq(S), NEW t \in Seq(S), NEW weight \in [S -> Nat]
  PROVE  SeqTotal(s \o t, weight) = SeqTotal(s, weight) + SeqTotal(t, weight)
<1>. DEFINE m == Len(s)
            n == Len(t)
            h == [k \in DOMAIN (s \o t) |-> weight[(s \o t)[k]]]
<1>1. /\ m \in Nat /\ n \in Nat /\ DOMAIN s = 1 .. m /\ DOMAIN t = 1 .. n
      /\ DOMAIN (s \o t) = 1 .. m + n /\ s \o t \in Seq(S)
      /\ \A k \in 1 .. m : (s \o t)[k] = s[k]
      /\ \A k \in 1 .. n : (s \o t)[m + k] = t[k]
  OBVIOUS
<1>2. h \in [1 .. m + n -> Nat]
  BY <1>1, SeqWeights
<1>. HIDE DEF m, n
<1>3. \A k \in 1 .. m : k \in 1 .. m + n
  BY <1>1
<1>4. \A k \in 1 .. n : m + k \in 1 .. m + n
  BY <1>1
<1>5. [k \in 1 .. m |-> h[k]] = [k \in DOMAIN s |-> weight[s[k]]]
  BY <1>1, <1>3
<1>6. [k \in 1 .. n |-> h[m + k]] = [k \in DOMAIN t |-> weight[t[k]]]
  BY <1>1, <1>4
<1>7. Total(h) = Total([k \in 1 .. m |-> h[k]]) + Total([k \in 1 .. n |-> h[m + k]])
  <2>. HIDE DEF h
  <2>. QED
    BY <1>1, <1>2, TotalOfParts
<1>. QED
  BY <1>5, <1>6, <1>7 DEF SeqTotal

\* The sum over a sequence of one member, and over none.
LEMMA SeqTotalOne ==
  ASSUME NEW S, NEW x \in S, NEW weight \in [S -> Nat]
  PROVE  SeqTotal(<<x>>, weight) = weight[x] /\ SeqTotal(<<>>, weight) = 0
<1>. DEFINE f == [k \in DOMAIN <<x>> |-> weight[<<x>>[k]]]
<1>1. DOMAIN <<x>> = {1} /\ f \in [{1} -> Nat] /\ f[1] = weight[x]
  OBVIOUS
<1>2. Total(f) = f[1]
  <2>. HIDE DEF f
  <2>. QED
    BY <1>1, TotalOfOne
<1>3. SeqTotal(<<x>>, weight) = weight[x]
  BY <1>1, <1>2 DEF SeqTotal
<1>4. DOMAIN [k \in DOMAIN <<>> |-> weight[<<>>[k]]] = {}
  OBVIOUS
<1>5. SeqTotal(<<>>, weight) = 0
  BY <1>4, TotalOfNone DEF SeqTotal
<1>. QED
  BY <1>3, <1>5

\* A sequence that grows at its end, and one that loses its head.
LEMMA SeqTotalAppend ==
  ASSUME NEW S, NEW s \in Seq(S), NEW x \in S, NEW weight \in [S -> Nat]
  PROVE  SeqTotal(Append(s, x), weight) = SeqTotal(s, weight) + weight[x]
<1>1. Append(s, x) = s \o <<x>> /\ <<x>> \in Seq(S)
  OBVIOUS
<1>2. SeqTotal(<<x>>, weight) = weight[x]
  BY SeqTotalOne
<1>3. SeqTotal(s \o <<x>>, weight) = SeqTotal(s, weight) + SeqTotal(<<x>>, weight)
  BY <1>1, SeqTotalConcat
<1>. QED
  BY <1>1, <1>2, <1>3

LEMMA SeqTotalTail ==
  ASSUME NEW S, NEW s \in Seq(S), s # <<>>, NEW weight \in [S -> Nat]
  PROVE  SeqTotal(s, weight) = weight[Head(s)] + SeqTotal(Tail(s), weight)
<1>1. /\ s = <<Head(s)>> \o Tail(s) /\ Head(s) \in S /\ Tail(s) \in Seq(S)
      /\ <<Head(s)>> \in Seq(S)
  OBVIOUS
<1>2. SeqTotal(<<Head(s)>> \o Tail(s), weight)
        = SeqTotal(<<Head(s)>>, weight) + SeqTotal(Tail(s), weight)
  BY <1>1, SeqTotalConcat
<1>. QED
  BY <1>1, <1>2, SeqTotalOne

\* A set that a member is added to or taken from.
LEMMA SetTotalAdd ==
  ASSUME NEW S, NEW R \in SUBSET S, IsFiniteSet(R), NEW x \in S \ R,
         NEW weight \in [S -> Nat]
  PROVE  /\ SetTotal(R \cup {x}, weight) = SetTotal(R, weight) + weight[x]
         /\ SetTotal(R, weight) \in Nat
<1>. DEFINE f == [r \in R |-> weight[r]]
            g == [r \in {x} |-> weight[r]]
            h == [r \in R \cup {x} |-> weight[r]]
<1>1. /\ f \in [R -> Nat] /\ g \in [{x} -> Nat] /\ h \in [R \cup {x} -> Nat]
      /\ R \cap {x} = {} /\ IsFiniteSet({x}) /\ g[x] = weight[x]
      /\ \A r \in R : h[r] = f[r]
      /\ \A r \in {x} : h[r] = g[r]
  BY FS_Singleton
<1>2. Total(h) = Total(f) + Total(g) /\ Total(g) = g[x] /\ Total(f) \in Nat
  <2>. HIDE DEF f, g, h
  <2>1. Total(f) \in Nat
    BY <1>1, TotalType
  <2>2. Total(g) = g[x]
    BY <1>1, TotalOfOne
  <2>3. Splits(h, f, g)
    BY <1>1 DEF Splits, Summable
  <2>4. Total(h) = Total(f) + Total(g)
    BY <2>3, TotalOfUnion
  <2>. QED
    BY <2>1, <2>2, <2>4
<1>. QED
  BY <1>1, <1>2 DEF SetTotal

LEMMA SetTotalRemove ==
  ASSUME NEW S, NEW R \in SUBSET S, IsFiniteSet(R), NEW x \in R,
         NEW weight \in [S -> Nat]
  PROVE  /\ SetTotal(R, weight) = SetTotal(R \ {x}, weight) + weight[x]
         /\ SetTotal(R \ {x}, weight) \in Nat
<1>1. PICK rest : rest = R \ {x}
  OBVIOUS
<1>2. /\ rest \cup {x} = R /\ rest \in SUBSET S /\ x \in S \ rest
      /\ IsFiniteSet(rest)
  BY <1>1, FS_RemoveElement
<1>3. /\ SetTotal(rest \cup {x}, weight) = SetTotal(rest, weight) + weight[x]
      /\ SetTotal(rest, weight) \in Nat
  BY <1>2, SetTotalAdd
<1>. QED
  BY <1>1, <1>2, <1>3

LEMMA SetTotalNone ==
  ASSUME NEW S, NEW weight \in [S -> Nat]
  PROVE  SetTotal({}, weight) = 0
<1>1. DOMAIN [r \in {} |-> weight[r]] = {}
  OBVIOUS
<1>. QED
  BY <1>1, TotalOfNone DEF SetTotal

\* The sum over a finite set is a natural.
LEMMA SetTotalType ==
  ASSUME NEW S, NEW R \in SUBSET S, IsFiniteSet(R), NEW weight \in [S -> Nat]
  PROVE  SetTotal(R, weight) \in Nat
<1>1. [r \in R |-> weight[r]] \in [R -> Nat]
  OBVIOUS
<1>. QED
  BY <1>1, TotalType DEF SetTotal

\* The members that weigh something.
LEMMA SeqTotalSupport ==
  ASSUME NEW S, NEW s \in Seq(S), NEW weight \in [S -> Nat],
         NEW P \in SUBSET DOMAIN s, \A k \in DOMAIN s \ P : weight[s[k]] = 0
  PROVE  SeqTotal(s, weight) = Total([k \in P |-> weight[s[k]]])
<1>. DEFINE f == [k \in DOMAIN s |-> weight[s[k]]]
            g == [k \in P |-> weight[s[k]]]
<1>1. f \in [DOMAIN s -> Nat] /\ IsFiniteSet(DOMAIN s) /\ IsFiniteSet(P)
  BY SeqWeights, FS_Subset
<1>2. g \in [P -> Nat]
  BY <1>1
<1>3. Counted(f) = Counted(g)
  BY <1>1, <1>2 DEF Counted
<1>4. Total(f) = Total(g)
  BY <1>1, <1>2, <1>3, TotalType
<1>. QED
  BY <1>4 DEF SeqTotal

\* If they weigh one each, the sum is their number.
LEMMA SeqTotalCounts ==
  ASSUME NEW S, NEW s \in Seq(S), NEW weight \in [S -> Nat],
         NEW P \in SUBSET DOMAIN s, \A k \in DOMAIN s \ P : weight[s[k]] = 0,
         \A k \in P : weight[s[k]] = 1
  PROVE  SeqTotal(s, weight) = Cardinality(P)
<1>. DEFINE g == [k \in P |-> weight[s[k]]]
            b == [k \in P |-> <<k, 1>>]
<1>1. IsFiniteSet(P)
  BY SeqWeights, FS_Subset
<1>2. g = [k \in P |-> 1]
  OBVIOUS
<1>3. Counted(g) = {<<k, 1>> : k \in P}
  BY <1>2 DEF Counted
<1>4. b \in Bijection(P, Counted(g))
  <2>1. b \in [P -> Counted(g)] /\ \A k, l \in P : b[k] = b[l] => k = l
    BY <1>3
  <2>2. \A p \in Counted(g) : \E k \in P : b[k] = p
    BY <1>3
  <2>. HIDE DEF b
  <2>. QED
    BY <2>1, <2>2 DEF Bijection, Injection, Surjection, IsInjective
<1>5. Total(g) = Cardinality(P)
  BY <1>1, <1>4, FS_Bijection DEF ExistsBijection, Total, Counted
<1>6. g = [k \in P |-> weight[s[k]]]
  OBVIOUS
<1>7. SeqTotal(s, weight) = Total([k \in P |-> weight[s[k]]])
  BY SeqTotalSupport
<1>. QED
  BY <1>5, <1>6, <1>7

-----------------------------------------------------------------------------
(* The account of an entity's measurements.                                *)

\* What an item or a request counts for in the account of entity i: the
\* requests the item will make, the request itself, the requests that its
\* success enables, and its failure.  m stands for memoized.
Creates(m, i) ==
  [item \in Item |->
     IF item.index # i THEN 0
     ELSE IF m[item.index][item.experiment] = 0 THEN 1
     ELSE m[item.index][item.experiment]]
For(i) == [r \in Request |-> IF r.index = i THEN 1 ELSE 0]
PlannedWith(m, i, experiments) == SeqTotal(ItemsOf(i, experiments), Creates(m, i))
Enables(m, i) ==
  [r \in Request |->
     IF r.index = i /\ r.status = "Success"
     THEN PlannedWith(m, i, DependentsOf[r.experiment]) ELSE 0]
Fails(i) == [r \in Request |-> IF r.index = i /\ r.status = "Failed" THEN 1 ELSE 0]

\* The requests made for the entity, those its items wait to make, and those
\* its independent experiments take once it is sampled.
Made(i) ==
  SeqTotal(stored, For(i)) + SeqTotal(measurementQueue, For(i)) + SetTotal(inFlight, For(i))
Waiting(i) ==
  SeqTotal(initialItems, Creates(memoized, i)) + SeqTotal(batchingQueue, Creates(memoized, i))
Begun(i) == i < entitiesSampled \/ (i = entitiesSampled /\ initialItems # <<>>)
Due(i) == IF Begun(i) THEN PlannedWith(memoized, i, IndependentExperiments) ELSE 0

\* The account balances: a stored success that the operator was not notified
\* of yet has enabled nothing, a stored failure has used no retry.
Balanced(i) ==
  Made(i) + Waiting(i) + SetTotal(Notified, Enables(memoized, i))
    = Due(i) + SeqTotal(stored, Enables(memoized, i)) + retries[i]
RetriesUsed(i) ==
  \/ SeqTotal(stored, Fails(i)) <= retries[i] + SetTotal(Notified, Fails(i))
  \/ retries[i] = MaxRetries

\* Only what has no result to replay is measured, so a retry is one request.
Measures(r) == r.status # "Success" => memoized[r.index][r.experiment] = 0

\* While run() has not raised and waits for nothing that was dropped.
Accounts ==
  ~Dropped /\ walk # "raised" => \A i \in Indices : Balanced(i) /\ RetriesUsed(i)
AccountsInv == (\A r \in Live : Measures(r)) /\ Accounts

\* The weights are naturals.
LEMMA WeightTypes ==
  ASSUME MeasurementsTypeOK, NEW i \in Indices
  PROVE  /\ Creates(memoized, i) \in [Item -> Nat]
         /\ For(i) \in [Request -> Nat] /\ Fails(i) \in [Request -> Nat]
         /\ Enables(memoized, i) \in [Request -> Nat]
         /\ \A es \in Seq(Experiments) : PlannedWith(memoized, i, es) \in Nat
<1>1. memoized \in [Indices -> [Experiments -> 0 .. MaxMemoized]] /\ MaxMemoized \in Nat
  BY Constants DEF MeasurementsTypeOK
<1>2. ASSUME NEW item \in Item
      PROVE  memoized[item.index][item.experiment] \in Nat
  BY <1>1 DEF Item
<1>3. Creates(memoized, i) \in [Item -> Nat]
  BY <1>2 DEF Creates
<1>4. For(i) \in [Request -> Nat] /\ Fails(i) \in [Request -> Nat]
  BY DEF For, Fails
<1>5. ASSUME NEW es \in Seq(Experiments)
      PROVE  PlannedWith(memoized, i, es) \in Nat
  <2>1. ItemsOf(i, es) \in Seq(Item)
    BY ItemsOfType
  <2>. QED
    BY <1>3, <2>1, SeqWeights DEF PlannedWith
<1>6. ASSUME NEW r \in Request
      PROVE  DependentsOf[r.experiment] \in Seq(Experiments)
  BY Constants DEF Request
<1>7. Enables(memoized, i) \in [Request -> Nat]
  BY <1>5, <1>6 DEF Enables
<1>. QED
  BY <1>3, <1>4, <1>5, <1>7

\* What an item counts for.
LEMMA CreatesIs ==
  ASSUME NEW item \in Item, NEW i
  PROVE  Creates(memoized, i)[item] = IF item.index = i THEN NumberCreated(item) ELSE 0
BY DEF Creates, NumberCreated

\* What the account calls planned is what the property does.
LEMMA PlannedIs ==
  ASSUME NEW i \in Indices, NEW es \in Seq(Experiments)
  PROVE  Planned(i, es) = PlannedWith(memoized, i, es)
<1>. DEFINE items == ItemsOf(i, es)
<1>1. /\ DOMAIN items = DOMAIN es
      /\ \A k \in DOMAIN es : items[k].index = i
  BY DEF ItemsOf
<1>2. \A k \in DOMAIN es : items[k] \in Item
  BY <1>1, ItemsOfType
<1>. HIDE DEF items
<1>3. \A k \in DOMAIN es : Creates(memoized, i)[items[k]] = NumberCreated(items[k])
  BY <1>1, <1>2, CreatesIs
<1>4. [k \in DOMAIN es |-> NumberCreated(items[k])]
        = [k \in DOMAIN items |-> Creates(memoized, i)[items[k]]]
  BY <1>1, <1>3
<1>. QED
  BY <1>4 DEF Planned, PlannedWith, SeqTotal, items

\* Members that all weigh nothing, or one.
LEMMA SeqTotalUniform ==
  ASSUME NEW S, NEW s \in Seq(S), NEW weight \in [S -> Nat]
  PROVE  /\ (\A k \in DOMAIN s : weight[s[k]] = 0) => SeqTotal(s, weight) = 0
         /\ (\A k \in DOMAIN s : weight[s[k]] = 1) => SeqTotal(s, weight) = Len(s)
<1>1. ASSUME \A k \in DOMAIN s : weight[s[k]] = 0
      PROVE  SeqTotal(s, weight) = 0
  <2>1. PICK P : P = {}
    OBVIOUS
  <2>2. P \in SUBSET DOMAIN s /\ \A k \in DOMAIN s \ P : weight[s[k]] = 0
    BY <1>1, <2>1
  <2>3. SeqTotal(s, weight) = Total([k \in P |-> weight[s[k]]])
    BY <2>2, SeqTotalSupport
  <2>4. DOMAIN [k \in P |-> weight[s[k]]] = {}
    BY <2>1
  <2>. QED
    BY <2>3, <2>4, TotalOfNone
<1>2. ASSUME \A k \in DOMAIN s : weight[s[k]] = 1
      PROVE  SeqTotal(s, weight) = Len(s)
  <2>1. PICK P, n : P = DOMAIN s /\ n = Len(s)
    OBVIOUS
  <2>2. P = 1 .. n /\ n \in Int /\ n >= 0 /\ 1 \in Int
    BY <2>1, SeqWeights
  <2>3. Cardinality(P) = n
    BY ONLY <2>2, FS_Interval
  <2>4. P \in SUBSET DOMAIN s /\ (\A k \in DOMAIN s \ P : weight[s[k]] = 0)
        /\ \A k \in P : weight[s[k]] = 1
    BY <1>2, <2>1
  <2>5. SeqTotal(s, weight) = Cardinality(P)
    BY <2>4, SeqTotalCounts
  <2>. QED
    BY <2>1, <2>3, <2>5
<1>. QED
  BY <1>1, <1>2

\* Nothing weighs nothing.
LEMMA SeqTotalOfNone ==
  ASSUME NEW S, NEW weight \in [S -> Nat]
  PROVE  SeqTotal(<<>>, weight) = 0
<1>1. <<>> \in Seq(S) /\ \A k \in DOMAIN <<>> : weight[<<>>[k]] = 0
  OBVIOUS
<1>. QED
  BY <1>1, SeqTotalUniform

\* The items of one entity count in no other's account.
LEMMA OtherItems ==
  ASSUME MeasurementsTypeOK, NEW i \in Indices, NEW j \in Indices,
         NEW es \in Seq(Experiments)
  PROVE  SeqTotal(ItemsOf(j, es), Creates(memoized, i))
           = IF i = j THEN PlannedWith(memoized, i, es) ELSE 0
<1>1. CASE i = j
  BY <1>1 DEF PlannedWith
<1>2. CASE i # j
  <2>1. ItemsOf(j, es) \in Seq(Item) /\ Creates(memoized, i) \in [Item -> Nat]
    BY ItemsOfType, WeightTypes
  <2>2. ASSUME NEW k \in DOMAIN ItemsOf(j, es)
        PROVE  Creates(memoized, i)[ItemsOf(j, es)[k]] = 0
    <3>1. ItemsOf(j, es)[k] \in Item /\ ItemsOf(j, es)[k].index = j
      BY <2>1, <2>2 DEF ItemsOf
    <3>. QED
      BY <1>2, <3>1, CreatesIs
  <2>. QED
    BY <1>2, <2>1, <2>2, SeqTotalUniform
<1>. QED
  BY <1>1, <1>2

\* The terms of an account are naturals.
LEMMA AccountTypes ==
  ASSUME OperationInv, IsFiniteSet(inFlight), IsFiniteSet(Notified), NEW i \in Indices
  PROVE  /\ SeqTotal(stored, For(i)) \in Nat /\ SeqTotal(measurementQueue, For(i)) \in Nat
         /\ SetTotal(inFlight, For(i)) \in Nat /\ Made(i) \in Nat
         /\ SeqTotal(initialItems, Creates(memoized, i)) \in Nat
         /\ SeqTotal(batchingQueue, Creates(memoized, i)) \in Nat /\ Waiting(i) \in Nat
         /\ SetTotal(Notified, Enables(memoized, i)) \in Nat
         /\ SeqTotal(stored, Enables(memoized, i)) \in Nat
         /\ SeqTotal(stored, Fails(i)) \in Nat /\ SetTotal(Notified, Fails(i)) \in Nat
         /\ Due(i) \in Nat /\ retries[i] \in Nat
<1>1. /\ inFlight \in SUBSET Request /\ Notified \in SUBSET Request
      /\ measurementQueue \in Seq(Answered) /\ stored \in Seq(Answered)
      /\ measurementQueue \in Seq(Request) /\ stored \in Seq(Request)
  <2>1. /\ inFlight \in SUBSET Request /\ Notified \in SUBSET Request
        /\ measurementQueue \in Seq(Answered) /\ stored \in Seq(Answered)
        /\ Answered \subseteq Request
    BY LiveTypes DEF Answered
  <2>. QED
    BY <2>1
<1>2. /\ MeasurementsTypeOK
      /\ initialItems \in Seq(Item) /\ batchingQueue \in Seq(Item)
      /\ retries[i] \in Nat
  <2>1. retries[i] \in 0 .. MaxRetries /\ MaxRetries \in Nat
    BY Constants DEF OperationInv, TypeOK, WalkTypeOK
  <2>. QED
    BY <2>1 DEF OperationInv, TypeOK, WalkTypeOK
<1>3. /\ Creates(memoized, i) \in [Item -> Nat]
      /\ For(i) \in [Request -> Nat] /\ Fails(i) \in [Request -> Nat]
      /\ Enables(memoized, i) \in [Request -> Nat]
      /\ PlannedWith(memoized, i, IndependentExperiments) \in Nat
  BY <1>2, WeightTypes, Constants
<1>4. /\ SeqTotal(stored, For(i)) \in Nat /\ SeqTotal(measurementQueue, For(i)) \in Nat
      /\ SeqTotal(stored, Enables(memoized, i)) \in Nat /\ SeqTotal(stored, Fails(i)) \in Nat
  BY <1>1, <1>3, SeqWeights
<1>5. /\ SeqTotal(initialItems, Creates(memoized, i)) \in Nat
      /\ SeqTotal(batchingQueue, Creates(memoized, i)) \in Nat
  BY <1>2, <1>3, SeqWeights
<1>6. /\ SetTotal(inFlight, For(i)) \in Nat /\ SetTotal(Notified, Fails(i)) \in Nat
      /\ SetTotal(Notified, Enables(memoized, i)) \in Nat
  BY <1>1, <1>3, SetTotalType
<1>7. Made(i) \in Nat /\ Waiting(i) \in Nat /\ Due(i) \in Nat
  BY <1>3, <1>4, <1>5, <1>6 DEF Made, Waiting, Due
<1>. QED
  BY <1>2, <1>4, <1>5, <1>6, <1>7

\* A submission makes the requests its item counts for.
LEMMA SubmitMakes ==
  ASSUME OperationInv, Numbered, IsFiniteSet(inFlight), NEW item \in Item, Submit(item),
         UNCHANGED stored, NEW i \in Indices
  PROVE  Made(i)' = Made(i) + Creates(memoized, i)[item]
<1>1. /\ measurementQueue \in Seq(Answered) /\ measurementQueue \in Seq(Request)
      /\ inFlight \in SUBSET Request /\ experimentsRequested \in Nat
      /\ Answered \subseteq Request /\ MeasurementsTypeOK
  <2>1. Answered \subseteq Request
    BY DEF Answered
  <2>2. measurementQueue \in Seq(Answered) /\ inFlight \in SUBSET Request
        /\ experimentsRequested \in Nat /\ MeasurementsTypeOK
    BY LiveTypes DEF OperationInv, TypeOK
  <2>. QED
    BY <2>1, <2>2
<1>2. /\ NumberCreated(item) \in Nat \ {0}
      /\ \/ \E new \in Seq(Answered) : Queues(item, new)
         \/ \E new \in Request \ Answered : Starts(item, new)
  BY <1>1, SubmitCreates
<1>3. /\ For(i) \in [Request -> Nat]
      /\ SeqTotal(stored, For(i)) \in Nat /\ SeqTotal(measurementQueue, For(i)) \in Nat
      /\ SetTotal(inFlight, For(i)) \in Nat
  <2>1. stored \in Seq(Request)
    BY LiveTypes DEF Answered
  <2>2. For(i) \in [Request -> Nat]
    BY <1>1, WeightTypes
  <2>. QED
    BY <1>1, <2>1, <2>2, SeqWeights, SetTotalType
<1>4. Creates(memoized, i)[item] = IF item.index = i THEN NumberCreated(item) ELSE 0
  BY CreatesIs
<1>5. \A r \in Request : For(i)[r] = IF r.index = i THEN 1 ELSE 0
  BY DEF For
<1>6. ASSUME NEW new \in Seq(Answered), Queues(item, new)
      PROVE  Made(i)' = Made(i) + Creates(memoized, i)[item]
  <2>1. new \in Seq(Request) /\ \A k \in DOMAIN new : new[k] \in Request
    BY <1>1
  <2>2. \A k \in DOMAIN new : For(i)[new[k]] = IF item.index = i THEN 1 ELSE 0
    BY <1>5, <1>6, <2>1 DEF Queues
  <2>3. SeqTotal(new, For(i)) = IF item.index = i THEN NumberCreated(item) ELSE 0
    BY <1>3, <1>6, <2>1, <2>2, SeqTotalUniform DEF Queues
  <2>4. SeqTotal(measurementQueue \o new, For(i))
          = SeqTotal(measurementQueue, For(i)) + SeqTotal(new, For(i))
    BY <1>1, <1>3, <2>1, SeqTotalConcat
  <2>5. measurementQueue' = measurementQueue \o new /\ inFlight' = inFlight
    BY <1>6 DEF Queues
  <2>6. SeqTotal(measurementQueue', For(i))
          = SeqTotal(measurementQueue, For(i)) + Creates(memoized, i)[item]
    BY <1>4, <2>3, <2>4, <2>5
  <2>7. Creates(memoized, i)[item] \in Nat
    BY <1>2, <1>4
  <2>. QED
    BY <1>3, <2>5, <2>6, <2>7 DEF Made
<1>7. ASSUME NEW new \in Request \ Answered, Starts(item, new)
      PROVE  Made(i)' = Made(i) + Creates(memoized, i)[item]
  <2>1. new \notin inFlight
    <3>1. \A r \in inFlight : r.id <= experimentsRequested /\ r.id \in Nat
      BY <1>1 DEF Numbered, Live, Request
    <3>. QED
      BY <1>1, <1>7, <3>1 DEF Starts
  <2>2. SetTotal(inFlight \cup {new}, For(i)) = SetTotal(inFlight, For(i)) + For(i)[new]
    BY <1>1, <1>3, <2>1, SetTotalAdd
  <2>3. For(i)[new] = Creates(memoized, i)[item] /\ For(i)[new] \in Nat
    BY <1>4, <1>5, <1>7 DEF Starts
  <2>4. measurementQueue' = measurementQueue /\ inFlight' = inFlight \cup {new}
    BY <1>7 DEF Starts
  <2>. QED
    BY <1>3, <2>2, <2>3, <2>4 DEF Made
<1>. QED
  BY <1>2, <1>6, <1>7

\* A submission replays successes and measures only what has no result.
LEMMA SubmitMeasures ==
  ASSUME OperationInv, \A r \in Live : Measures(r), NEW item \in Item, Submit(item),
         Notified' \subseteq Notified
  PROVE  \A r \in Live' : Measures(r)'
<1>. SUFFICES ASSUME NEW r \in Live' PROVE Measures(r)'
  OBVIOUS
<1>1. MeasureOrReplay(item, experimentsRequested) /\ memoized' = memoized
  BY DEF Submit, MeasureOrReplay
<1>2. measurementQueue \in Seq(Answered) /\ MeasurementsTypeOK /\ experimentsRequested \in Nat
  BY LiveTypes DEF OperationInv, TypeOK
<1>3. CASE r \in Live
  BY <1>1, <1>3 DEF Measures
<1>4. CASE r \notin Live
  <2>1. r \in inFlight' \ inFlight \/ r \in Requests(measurementQueue)' \ Requests(measurementQueue)
    BY <1>4 DEF Live
  <2>2. CASE Replay(item, experimentsRequested)
    <3>. DEFINE n == memoized[item.index][item.experiment]
                new == [k \in 1 .. n |-> RequestFor(item, experimentsRequested + k, "Success", TRUE)]
    <3>1. n \in Nat /\ measurementQueue' = measurementQueue \o new /\ inFlight' = inFlight
      BY <1>2, <2>2, Constants DEF Replay, MeasurementsTypeOK, Item
    <3>2. \A k \in 1 .. n : new[k].status = "Success"
      BY DEF RequestFor
    <3>3. new \in Seq(Answered) /\ DOMAIN new = 1 .. n
      <4>1. ASSUME NEW k \in 1 .. n PROVE new[k] \in Answered
        <5>1. k \in Nat /\ k # 0
          BY <3>1
        <5>2. experimentsRequested + k \in Nat \ {0}
          BY <1>2, <5>1
        <5>. QED
          BY <5>2, RequestForType DEF Status
      <4>. QED
        BY <3>1, <4>1, FunctionIsSeq
    <3>. HIDE DEF new, n
    <3>4. Requests(measurementQueue \o new) = Requests(measurementQueue) \cup Requests(new)
      BY <1>2, <3>3, RequestsConcat
    <3>5. r.status = "Success"
      BY <2>1, <3>1, <3>2, <3>3, <3>4 DEF Requests
    <3>. QED
      BY <3>5 DEF Measures
  <2>3. CASE SubmitExternal(item, experimentsRequested)
    <3>. DEFINE answer == RequestFor(item, experimentsRequested + 1, "Failed", FALSE)
    <3>1. /\ memoized[item.index][item.experiment] = 0 /\ inFlight' = inFlight
          /\ measurementQueue' = Append(measurementQueue, answer)
      BY <2>3 DEF SubmitExternal
    <3>2. answer.index = item.index /\ answer.experiment = item.experiment
      BY DEF RequestFor
    <3>3. answer \in Answered
      <4>1. experimentsRequested + 1 \in Nat \ {0}
        BY <1>2
      <4>. QED
        BY <4>1, RequestForType DEF Status
    <3>. HIDE DEF answer
    <3>4. Requests(Append(measurementQueue, answer)) = Requests(measurementQueue) \cup {answer}
      BY <1>2, <3>3, RequestsAppend
    <3>5. r = answer
      BY <2>1, <3>1, <3>4 DEF Requests
    <3>. QED
      BY <1>1, <3>1, <3>2, <3>5 DEF Measures
  <2>4. CASE SubmitToActuator(item, experimentsRequested)
    <3>1. /\ memoized[item.index][item.experiment] = 0
          /\ r = RequestFor(item, experimentsRequested + 1, "Unknown", FALSE)
      BY <2>1, <2>4 DEF SubmitToActuator, NeedsMeasurement, Requests
    <3>2. r.index = item.index /\ r.experiment = item.experiment
      BY <3>1 DEF RequestFor
    <3>. QED
      BY <1>1, <3>1, <3>2 DEF Measures
  <2>. QED
    BY <1>1, <2>2, <2>3, <2>4 DEF MeasureOrReplay
<1>. QED
  BY <1>3, <1>4

\* An answer takes the place of its request.
LEMMA AnswerMade ==
  ASSUME OperationInv, IsFiniteSet(inFlight), NEW request \in inFlight,
         ActuatorCompletes(request), UNCHANGED <<stored, sent, updateQueue>>
  PROVE  /\ \A i \in Indices : Made(i)' = Made(i)
         /\ (\A r \in Live : Measures(r)) => \A r \in Live' : Measures(r)'
<1>1. PICK status \in {"Success", "Failed"} :
        measurementQueue' = Append(measurementQueue, [request EXCEPT !.status = status])
  BY DEF ActuatorCompletes
<1>. DEFINE answer == [request EXCEPT !.status = status]
<1>2. /\ inFlight' = inFlight \ {request} /\ memoized' = memoized
      /\ measurementQueue' = Append(measurementQueue, answer)
  BY <1>1 DEF ActuatorCompletes
<1>3. /\ inFlight \in SUBSET Request /\ request \in Request \ Answered
      /\ measurementQueue \in Seq(Answered) /\ stored \in Seq(Answered)
      /\ Answered \subseteq Request /\ MeasurementsTypeOK
  BY LiveTypes DEF OperationInv, TypeOK, Answered
<1>4. /\ answer \in Answered /\ answer.index = request.index
      /\ answer.experiment = request.experiment
  BY <1>3 DEF Request, Status, Answered
<1>. HIDE DEF answer
<1>5. measurementQueue \in Seq(Request) /\ stored \in Seq(Request)
  BY <1>3
<1>6. ASSUME NEW i \in Indices PROVE Made(i)' = Made(i)
  <2>1. For(i) \in [Request -> Nat] /\ For(i)[answer] = For(i)[request]
    BY <1>3, <1>4 DEF For
  <2>2. SeqTotal(Append(measurementQueue, answer), For(i))
          = SeqTotal(measurementQueue, For(i)) + For(i)[answer]
    BY <1>3, <1>4, <1>5, <2>1, SeqTotalAppend
  <2>3. /\ SetTotal(inFlight, For(i)) = SetTotal(inFlight \ {request}, For(i)) + For(i)[request]
        /\ SetTotal(inFlight \ {request}, For(i)) \in Nat
    BY <1>3, <2>1, SetTotalRemove
  <2>4. /\ SeqTotal(stored, For(i)) \in Nat /\ SeqTotal(measurementQueue, For(i)) \in Nat
        /\ For(i)[request] \in Nat
    BY <1>3, <1>5, <2>1, SeqWeights
  <2>. QED
    BY <1>2, <2>1, <2>2, <2>3, <2>4 DEF Made
<1>7. ASSUME \A r \in Live : Measures(r), NEW r \in Live' PROVE Measures(r)'
  <2>1. Requests(Append(measurementQueue, answer)) = Requests(measurementQueue) \cup {answer}
    BY <1>3, <1>4, RequestsAppend
  <2>2. Live' \subseteq Live \cup {answer}
    BY <1>2, <2>1 DEF Live, Notified, Requests
  <2>3. memoized[request.index][request.experiment] = 0
    <3>1. request.status # "Success"
      BY <1>3 DEF Answered, Request, Status
    <3>. QED
      BY <1>7, <3>1 DEF Live, Measures
  <2>. QED
    BY <1>2, <1>4, <1>7, <2>2, <2>3 DEF Measures
<1>. QED
  BY <1>6, <1>7

\* Storing a request moves it.
LEMMA StoreMade ==
  ASSUME OperationInv, IsFiniteSet(inFlight), measurementQueue # <<>>,
         measurementQueue' = Tail(measurementQueue),
         stored' = Append(stored, Head(measurementQueue)), inFlight' = inFlight,
         NEW i \in Indices
  PROVE  Made(i)' = Made(i)
<1>. DEFINE head == Head(measurementQueue)
<1>1. /\ inFlight \in SUBSET Request
      /\ measurementQueue \in Seq(Request) /\ stored \in Seq(Request)
      /\ head \in Request
  <2>1. /\ inFlight \in SUBSET Request /\ Answered \subseteq Request
        /\ measurementQueue \in Seq(Answered) /\ stored \in Seq(Answered)
    BY LiveTypes DEF Answered
  <2>. QED
    BY <2>1
<1>2. For(i) \in [Request -> Nat]
  BY DEF For
<1>. HIDE DEF head
<1>3. SeqTotal(measurementQueue, For(i)) = For(i)[head] + SeqTotal(Tail(measurementQueue), For(i))
  BY <1>1, <1>2, SeqTotalTail DEF head
<1>4. SeqTotal(Append(stored, head), For(i)) = SeqTotal(stored, For(i)) + For(i)[head]
  BY <1>1, <1>2, SeqTotalAppend
<1>5. /\ SeqTotal(stored, For(i)) \in Nat /\ For(i)[head] \in Nat
      /\ SetTotal(inFlight, For(i)) \in Nat
  BY <1>1, <1>2, SeqWeights, SetTotalType
<1>6. SeqTotal(Tail(measurementQueue), For(i)) \in Nat
  <2>1. Tail(measurementQueue) \in Seq(Request)
    BY <1>1
  <2>. QED
    BY <1>2, <2>1, SeqWeights
<1>. QED
  BY <1>3, <1>4, <1>5, <1>6 DEF Made, head

\* Storing notifies the operator, unless that is dropped.
LEMMA StoreNotifies ==
  ASSUME OperationInv, Numbered, NotifiedOnce, HandedOn, PassedOn,
         Manager!StoreAndNotify, ~Dropped',
         UNCHANGED <<inFlight, experimentsRequested, finishedRequests, updateQueue>>
  PROVE  /\ Head(measurementQueue) \in Answered \ Notified
         /\ Notified' = Notified \cup {Head(measurementQueue)}
<1>. DEFINE head == Head(measurementQueue)
<1>1. /\ measurementQueue # <<>> /\ measurementQueue' = Tail(measurementQueue)
      /\ sent[Operator] \subseteq sent'[Operator]
      /\ sent'[Operator] \subseteq sent[Operator] \cup {CriticalError, head}
  BY Constants DEF Manager!StoreAndNotify
<1>2. /\ Numbered' /\ Live \subseteq Live'
  BY StoreAndNotifyStep
<1>3. Requests(updateQueue)' = Requests(updateQueue)
  BY DEF Requests
<1>4. Notified \subseteq Notified' /\ Notified' \subseteq Notified \cup {head}
  BY <1>1, <1>3 DEF Notified
<1>5. head \in Answered \ Notified
  BY <1>1, <1>4, TakenNumbered
<1>6. /\ measurementQueue \in Seq(Answered) /\ inFlight \cap Answered = {}
  BY LiveTypes
<1>7. /\ Requests(measurementQueue) = {head} \cup Requests(Tail(measurementQueue))
      /\ head = measurementQueue[1] /\ 1 \in DOMAIN measurementQueue
      /\ \A k \in DOMAIN Tail(measurementQueue) :
           /\ k + 1 \in DOMAIN measurementQueue
           /\ Tail(measurementQueue)[k] = measurementQueue[k + 1]
  BY <1>1, <1>6, RequestsTail
<1>8. \A k \in DOMAIN Tail(measurementQueue) : k \in Nat /\ k # 0
  BY <1>1, <1>6
<1>. HIDE DEF head
<1>9. head \notin Requests(Tail(measurementQueue))
  <2>. SUFFICES ASSUME NEW k \in DOMAIN Tail(measurementQueue),
                       Tail(measurementQueue)[k] = head
                PROVE  FALSE
    BY DEF Requests
  <2>1. k + 1 = 1
    BY <1>7 DEF Numbered
  <2>. QED
    BY <1>8, <2>1
<1>10. head \in Live' /\ head \notin inFlight' /\ head \notin Requests(measurementQueue)'
  BY <1>1, <1>2, <1>5, <1>6, <1>7, <1>9 DEF Live, Requests
<1>11. head \in Notified'
  BY <1>10 DEF Live
<1>. QED
  BY <1>4, <1>5, <1>11 DEF head

\* A step that does not concern run() leaves the accounts as they are.
LEMMA AccountsElsewhere ==
  ASSUME Accounts, Dropped => Dropped', walk = "raised" => walk' = "raised",
         UNCHANGED <<memoized, stored, initialItems, batchingQueue, entitiesSampled, retries>>,
         ~Dropped' => /\ Notified' = Notified
                      /\ \A i \in Indices : Made(i)' = Made(i)
  PROVE  Accounts'
<1>. SUFFICES ASSUME ~Dropped', walk' # "raised", NEW i \in Indices
              PROVE  Balanced(i)' /\ RetriesUsed(i)'
  BY DEF Accounts
<1>1. /\ Balanced(i) /\ RetriesUsed(i) /\ Notified' = Notified /\ Made(i)' = Made(i)
      /\ ~Dropped /\ walk # "raised"
  BY DEF Accounts
<1>2. Waiting(i)' = Waiting(i) /\ Due(i)' = Due(i)
  BY DEF Waiting, Due, Begun
<1>. QED
  BY <1>1, <1>2 DEF Balanced, RetriesUsed

\* A stored request is accounted for once the operator has processed it.
LEMMA StoreAccounts ==
  ASSUME OperationInv, RequestsInv, AccountsInv, Manager!StoreAndNotify,
         UNCHANGED operatorVars
  PROVE  Accounts'
<1>0. /\ Numbered /\ NotifiedOnce /\ HandedOn /\ PassedOn
      /\ IsFiniteSet(inFlight) /\ IsFiniteSet(Notified)
  BY DEF RequestsInv, HandedOn, PassedOn
<1>1. UNCHANGED <<inFlight, experimentsRequested, finishedRequests, updateQueue, memoized,
                  initialItems, batchingQueue, entitiesSampled, retries, walk>>
  BY DEF operatorVars
<1>. DEFINE head == Head(measurementQueue)
<1>. SUFFICES ASSUME ~Dropped', walk' # "raised", NEW i \in Indices
              PROVE  Balanced(i)' /\ RetriesUsed(i)'
  BY DEF Accounts
<1>2. /\ measurementQueue # <<>> /\ measurementQueue' = Tail(measurementQueue)
      /\ stored' = Append(stored, head)
  BY DEF Manager!StoreAndNotify
<1>3. head \in Answered \ Notified /\ Notified' = Notified \cup {head}
  BY <1>0, <1>1, StoreNotifies
<1>4. ~Dropped
  BY <1>0, <1>1, StoreAndNotifyStep
<1>5. Balanced(i) /\ RetriesUsed(i)
  BY <1>1, <1>4 DEF AccountsInv, Accounts
<1>6. Made(i)' = Made(i)
  BY <1>0, <1>1, <1>2, StoreMade
<1>. HIDE DEF head
<1>7. Waiting(i)' = Waiting(i) /\ Due(i)' = Due(i)
  BY <1>1 DEF Waiting, Due, Begun
<1>8. /\ Notified \in SUBSET Request /\ stored \in Seq(Request) /\ head \in Request \ Notified
      /\ MeasurementsTypeOK
  <2>1. stored \in Seq(Answered) /\ Answered \subseteq Request /\ Notified \subseteq Answered
    BY LiveTypes DEF Answered
  <2>. QED
    BY <1>3, <2>1 DEF OperationInv, TypeOK
<1>9. Enables(memoized, i) \in [Request -> Nat] /\ Fails(i) \in [Request -> Nat]
  BY <1>8, WeightTypes
<1>10. ASSUME NEW weight \in [Request -> Nat]
       PROVE  /\ SetTotal(Notified', weight) = SetTotal(Notified, weight) + weight[head]
              /\ SeqTotal(stored', weight) = SeqTotal(stored, weight) + weight[head]
              /\ weight[head] \in Nat
  <2>1. SetTotal(Notified \cup {head}, weight) = SetTotal(Notified, weight) + weight[head]
    BY <1>0, <1>8, SetTotalAdd
  <2>2. SeqTotal(Append(stored, head), weight) = SeqTotal(stored, weight) + weight[head]
    BY <1>8, SeqTotalAppend
  <2>3. weight[head] \in Nat
    BY <1>8
  <2>. QED
    BY <1>2, <1>3, <2>1, <2>2, <2>3 DEF head
<1>11. /\ SetTotal(Notified', Enables(memoized, i))
            = SetTotal(Notified, Enables(memoized, i)) + Enables(memoized, i)[head]
       /\ SeqTotal(stored', Enables(memoized, i))
            = SeqTotal(stored, Enables(memoized, i)) + Enables(memoized, i)[head]
       /\ Enables(memoized, i)[head] \in Nat
  BY <1>9, <1>10
<1>12. /\ SetTotal(Notified', Fails(i)) = SetTotal(Notified, Fails(i)) + Fails(i)[head]
       /\ SeqTotal(stored', Fails(i)) = SeqTotal(stored, Fails(i)) + Fails(i)[head]
       /\ Fails(i)[head] \in Nat
  BY <1>9, <1>10
<1>13. /\ Made(i) \in Nat /\ Waiting(i) \in Nat /\ Due(i) \in Nat /\ retries[i] \in Nat
       /\ SetTotal(Notified, Enables(memoized, i)) \in Nat
       /\ SeqTotal(stored, Enables(memoized, i)) \in Nat
       /\ SeqTotal(stored, Fails(i)) \in Nat /\ SetTotal(Notified, Fails(i)) \in Nat
  BY <1>0, AccountTypes
<1>14. Balanced(i)'
  <2>1. Made(i) + Waiting(i) + SetTotal(Notified, Enables(memoized, i))
          = Due(i) + SeqTotal(stored, Enables(memoized, i)) + retries[i]
    BY <1>5 DEF Balanced
  <2>2. Made(i) + Waiting(i) + SetTotal(Notified', Enables(memoized, i))
          = Due(i) + SeqTotal(stored', Enables(memoized, i)) + retries[i]
    BY <1>11, <1>13, <2>1
  <2>. QED
    BY <1>1, <1>6, <1>7, <2>2 DEF Balanced
<1>15. RetriesUsed(i)'
  BY <1>1, <1>5, <1>12, <1>13 DEF RetriesUsed
<1>. QED
  BY <1>14, <1>15

\* Sampling an entity of the initial batch begins its account.
LEMMA InitialSampleAccounts ==
  ASSUME OperationInv, RequestsInv, Accounts, InitialSample, ~Dropped,
         Notified' = Notified, UNCHANGED <<measurementVars, stored>>
  PROVE  Accounts'
<1>1. /\ initialItems = <<>> /\ entitiesSampled < BatchSize /\ walk # "raised"
      /\ initialItems' = ItemsOf(entitiesSampled, IndependentExperiments)
      /\ UNCHANGED <<entitiesSampled, batchingQueue, retries, memoized,
                     inFlight, measurementQueue, stored>>
  BY DEF InitialSample, MoreInitialEntities, measurementVars
<1>2. entitiesSampled \in Indices /\ MeasurementsTypeOK
  <2>1. entitiesSampled \in Nat /\ MeasurementsTypeOK
    BY Constants DEF OperationInv, TypeOK, WalkTypeOK
  <2>. QED
    BY <1>1, <2>1, Constants DEF Indices
<1>3. initialItems' # <<>>
  BY <1>1, <1>2, Constants, ItemsOfType
<1>. SUFFICES ASSUME NEW i \in Indices
              PROVE  Balanced(i)' /\ RetriesUsed(i)'
  BY DEF Accounts
<1>4. Balanced(i) /\ RetriesUsed(i)
  BY <1>1 DEF Accounts
<1>5. Made(i)' = Made(i)
  BY <1>1 DEF Made
<1>6. /\ SeqTotal(initialItems, Creates(memoized, i)) = 0
      /\ SeqTotal(initialItems', Creates(memoized, i))
           = IF i = entitiesSampled THEN PlannedWith(memoized, i, IndependentExperiments) ELSE 0
  <2>1. SeqTotal(<<>>, Creates(memoized, i)) = 0
    BY <1>2, WeightTypes, SeqTotalOfNone
  <2>. QED
    BY <1>1, <1>2, <2>1, OtherItems, Constants
<1>7. PlannedWith(memoized, i, IndependentExperiments) \in Nat
  BY <1>2, WeightTypes, Constants
<1>8. /\ Made(i) \in Nat /\ Waiting(i) \in Nat /\ Due(i) \in Nat /\ retries[i] \in Nat
      /\ SetTotal(Notified, Enables(memoized, i)) \in Nat
      /\ SeqTotal(stored, Enables(memoized, i)) \in Nat
      /\ SeqTotal(batchingQueue, Creates(memoized, i)) \in Nat
  BY AccountTypes DEF RequestsInv, HandedOn, PassedOn
<1>9. Waiting(i)' = Waiting(i) + SeqTotal(initialItems', Creates(memoized, i))
  BY <1>1, <1>6, <1>7, <1>8 DEF Waiting
<1>10. Due(i)' = Due(i) + SeqTotal(initialItems', Creates(memoized, i))
  <2>1. i \in Int /\ entitiesSampled \in Int
    BY <1>2 DEF Indices
  <2>. QED
    BY <1>1, <1>3, <1>6, <1>7, <2>1 DEF Due, Begun
<1>11. Balanced(i)'
  <2>1. SeqTotal(initialItems', Creates(memoized, i)) \in Nat
    BY <1>6, <1>7
  <2>2. Made(i) + Waiting(i) + SetTotal(Notified, Enables(memoized, i))
          = Due(i) + SeqTotal(stored, Enables(memoized, i)) + retries[i]
    BY <1>4 DEF Balanced
  <2>3. Made(i)' + Waiting(i)' + SetTotal(Notified, Enables(memoized, i))
          = Due(i)' + SeqTotal(stored, Enables(memoized, i)) + retries[i]
    BY <1>5, <1>8, <1>9, <1>10, <2>1, <2>2
  <2>. QED
    BY <1>1, <2>3 DEF Balanced
<1>12. RetriesUsed(i)'
  BY <1>1, <1>4 DEF RetriesUsed
<1>. QED
  BY <1>11, <1>12

\* Submitting an item of the initial entity makes what it waits to make.
LEMMA InitialSubmitAccounts ==
  ASSUME OperationInv, RequestsInv, Accounts, InitialSubmit, walk' # "raised", ~Dropped,
         Notified' = Notified, UNCHANGED stored
  PROVE  Accounts'
<1>1. /\ walk = "initial" /\ initialItems # <<>> /\ initialItems' = Tail(initialItems)
      /\ UNCHANGED <<batchingQueue, retries>>
      /\ Submit(Head(initialItems))
      /\ entitiesSampled' = IF Len(initialItems) = 1
                            THEN entitiesSampled + 1 ELSE entitiesSampled
  BY DEF InitialSubmit, SubmitRaises
<1>2. /\ initialItems \in Seq(Item) /\ entitiesSampled \in Nat /\ MeasurementsTypeOK
      /\ IsFiniteSet(inFlight) /\ IsFiniteSet(Notified) /\ Numbered
  BY Constants DEF OperationInv, TypeOK, WalkTypeOK, RequestsInv, HandedOn, PassedOn
<1>3. PICK head, rest : head = Head(initialItems) /\ rest = Tail(initialItems)
  OBVIOUS
<1>4. /\ head \in Item /\ rest \in Seq(Item)
      /\ Len(initialItems) = 1 <=> rest = <<>>
  <2>1. /\ head \in Item /\ rest \in Seq(Item) /\ Len(rest) = Len(initialItems) - 1
        /\ Len(initialItems) \in Nat
    BY <1>1, <1>2, <1>3
  <2>2. Len(initialItems) = 1 => rest = <<>>
    BY <2>1, ZeroLength
  <2>3. rest = <<>> => Len(initialItems) = 1
    <3>1. Len(<<>>) = 0
      OBVIOUS
    <3>. QED
      BY <2>1, <3>1
  <2>. QED
    BY <2>1, <2>2, <2>3
<1>5. memoized' = memoized /\ Submit(head)
  BY <1>1, <1>3 DEF Submit, MeasureOrReplay
<1>. SUFFICES ASSUME NEW i \in Indices
              PROVE  Balanced(i)' /\ RetriesUsed(i)'
  BY DEF Accounts
<1>6. Balanced(i) /\ RetriesUsed(i)
  BY <1>1 DEF Accounts
<1>7. Made(i)' = Made(i) + Creates(memoized, i)[head]
  BY <1>2, <1>4, <1>5, SubmitMakes
<1>8. /\ SeqTotal(initialItems, Creates(memoized, i))
            = Creates(memoized, i)[head] + SeqTotal(rest, Creates(memoized, i))
      /\ Creates(memoized, i)[head] \in Nat
      /\ SeqTotal(rest, Creates(memoized, i)) \in Nat
  <2>1. Creates(memoized, i) \in [Item -> Nat]
    BY <1>2, WeightTypes
  <2>. QED
    BY <1>1, <1>2, <1>3, <1>4, <2>1, SeqTotalTail, SeqWeights
<1>9. /\ Made(i) \in Nat /\ Waiting(i) \in Nat /\ Due(i) \in Nat /\ retries[i] \in Nat
      /\ SetTotal(Notified, Enables(memoized, i)) \in Nat
      /\ SeqTotal(stored, Enables(memoized, i)) \in Nat
      /\ SeqTotal(batchingQueue, Creates(memoized, i)) \in Nat
  BY <1>2, AccountTypes
<1>10. Waiting(i) = Waiting(i)' + Creates(memoized, i)[head] /\ Waiting(i)' \in Nat
  <2>1. Waiting(i)' = SeqTotal(rest, Creates(memoized, i))
                        + SeqTotal(batchingQueue, Creates(memoized, i))
    BY <1>1, <1>3, <1>5 DEF Waiting
  <2>2. Waiting(i) = SeqTotal(initialItems, Creates(memoized, i))
                       + SeqTotal(batchingQueue, Creates(memoized, i))
    BY DEF Waiting
  <2>. QED
    BY <1>8, <1>9, <2>1, <2>2
<1>11. Due(i)' = Due(i)
  <2>1. i \in Nat
    BY DEF Indices
  <2>2. Begun(i)' <=> Begun(i)
    BY <1>1, <1>2, <1>3, <1>4, <2>1 DEF Begun
  <2>. QED
    BY <1>5, <2>2 DEF Due
<1>12. Balanced(i)'
  <2>1. Made(i) + Waiting(i) + SetTotal(Notified, Enables(memoized, i))
          = Due(i) + SeqTotal(stored, Enables(memoized, i)) + retries[i]
    BY <1>6 DEF Balanced
  <2>2. Made(i)' + Waiting(i)' + SetTotal(Notified, Enables(memoized, i))
          = Due(i)' + SeqTotal(stored, Enables(memoized, i)) + retries[i]
    BY <1>7, <1>8, <1>9, <1>10, <1>11, <2>1
  <2>. QED
    BY <1>1, <1>5, <2>2 DEF Balanced
<1>13. RetriesUsed(i)'
  BY <1>1, <1>6 DEF RetriesUsed
<1>. QED
  BY <1>12, <1>13

\* What a finished request puts on the queue: what it enables, or its retry.
LEMMA QueueAccount ==
  ASSUME OperationInv, NEW head \in Answered, Measures(head), NEW i \in Indices
  PROVE  SeqTotal(QueueAfter(head), Creates(memoized, i)) + retries[i]
           = SeqTotal(batchingQueue, Creates(memoized, i)) + Enables(memoized, i)[head]
               + RetriesAfter(head)[i]
<1>. DEFINE weight == Creates(memoized, i)
            before == SeqTotal(batchingQueue, weight)
<1>1. /\ MeasurementsTypeOK /\ batchingQueue \in Seq(Item)
      /\ retries \in [Indices -> 0 .. MaxRetries]
      /\ head \in Request /\ head.index \in Indices /\ head.experiment \in Experiments
  BY DEF OperationInv, TypeOK, WalkTypeOK, Answered, Request
<1>2. /\ weight \in [Item -> Nat] /\ before \in Nat
      /\ retries[i] \in Nat /\ MaxRetries \in Nat /\ retries[head.index] \in 0 .. MaxRetries
      /\ DependentsOf[head.experiment] \in Seq(Experiments)
      /\ PlannedWith(memoized, i, DependentsOf[head.experiment]) \in Nat
  <2>1. /\ DependentsOf[head.experiment] \in Seq(Experiments) /\ MaxRetries \in Nat
        /\ retries[i] \in 0 .. MaxRetries /\ retries[head.index] \in 0 .. MaxRetries
    BY <1>1, Constants
  <2>2. /\ weight \in [Item -> Nat]
        /\ PlannedWith(memoized, i, DependentsOf[head.experiment]) \in Nat
    BY <1>1, <2>1, WeightTypes
  <2>3. before \in Nat
    BY <1>1, <2>2, SeqWeights
  <2>. QED
    BY <2>1, <2>2, <2>3
<1>3. Enables(memoized, i)[head]
        = IF head.index = i /\ head.status = "Success"
          THEN PlannedWith(memoized, i, DependentsOf[head.experiment]) ELSE 0
  BY <1>1 DEF Enables
<1>4. CASE head.status = "Success"
  <2>1. /\ QueueAfter(head) = batchingQueue \o ItemsOf(head.index, DependentsOf[head.experiment])
        /\ RetriesAfter(head)[i] = retries[i]
    BY <1>4 DEF QueueAfter, RetriesAfter
  <2>2. PICK items : items = ItemsOf(head.index, DependentsOf[head.experiment])
    OBVIOUS
  <2>3. items \in Seq(Item)
    BY <1>1, <1>2, <2>2, ItemsOfType
  <2>4. SeqTotal(batchingQueue \o items, weight) = before + SeqTotal(items, weight)
    BY <1>1, <1>2, <2>3, SeqTotalConcat
  <2>5. SeqTotal(items, weight)
          = IF i = head.index THEN PlannedWith(memoized, i, DependentsOf[head.experiment]) ELSE 0
    BY <1>1, <1>2, <2>2, OtherItems
  <2>6. SeqTotal(items, weight) = Enables(memoized, i)[head] /\ SeqTotal(items, weight) \in Nat
    BY <1>2, <1>3, <1>4, <2>5
  <2>. HIDE DEF weight, before
  <2>7. SeqTotal(QueueAfter(head), weight) + retries[i]
          = before + Enables(memoized, i)[head] + RetriesAfter(head)[i]
    BY <1>2, <2>1, <2>2, <2>4, <2>6
  <2>. QED
    BY <2>7 DEF weight, before
<1>5. CASE head.status # "Success" /\ retries[head.index] = MaxRetries
  <2>1. QueueAfter(head) = batchingQueue /\ RetriesAfter(head) = retries
    BY <1>2, <1>5 DEF QueueAfter, RetriesAfter
  <2>2. Enables(memoized, i)[head] = 0
    BY <1>3, <1>5
  <2>. HIDE DEF weight
  <2>. QED
    BY <1>2, <2>1, <2>2 DEF weight
<1>6. CASE head.status # "Success" /\ retries[head.index] # MaxRetries
  <2>1. PICK item : item = [index |-> head.index, experiment |-> head.experiment]
    OBVIOUS
  <2>2. item \in Item /\ item.index = head.index /\ item.experiment = head.experiment
    BY <1>1, <2>1 DEF Item
  <2>3. /\ QueueAfter(head) = Append(batchingQueue, item)
        /\ RetriesAfter(head)[i] = IF i = head.index THEN retries[i] + 1 ELSE retries[i]
    BY <1>1, <1>2, <1>6, <2>1 DEF QueueAfter, RetriesAfter
  <2>4. weight[item] = IF i = head.index THEN 1 ELSE 0
    BY <1>6, <2>2 DEF Creates, Measures
  <2>5. SeqTotal(Append(batchingQueue, item), weight) = before + weight[item]
    BY <1>1, <1>2, <2>2, SeqTotalAppend
  <2>6. Enables(memoized, i)[head] = 0
    BY <1>3, <1>6
  <2>. HIDE DEF weight, before
  <2>7. SeqTotal(QueueAfter(head), weight) = before + weight[item]
    BY <2>3, <2>5
  <2>8. RetriesAfter(head)[i] = retries[i] + weight[item]
    BY <1>2, <2>3, <2>4
  <2>9. before \in Nat /\ retries[i] \in Nat /\ weight[item] \in Nat
    BY <1>2, <2>4
  <2>10. SeqTotal(QueueAfter(head), weight) + retries[i]
          = before + Enables(memoized, i)[head] + RetriesAfter(head)[i]
    BY <2>6, <2>7, <2>8, <2>9
  <2>. QED
    BY <2>10 DEF weight, before
<1>. QED
  BY <1>4, <1>5, <1>6

\* A failure is retried while the retries of its index last.
LEMMA RetriesUsedAfter ==
  ASSUME OperationInv, IsFiniteSet(Notified), NEW head \in Notified,
         Notified' = Notified \ {head}, stored' = stored, retries' = RetriesAfter(head),
         NEW i \in Indices, RetriesUsed(i)
  PROVE  RetriesUsed(i)'
<1>1. /\ Notified \in SUBSET Request /\ head \in Answered /\ head \in Request
      /\ stored \in Seq(Request)
      /\ retries \in [Indices -> 0 .. MaxRetries] /\ MaxRetries \in Nat
      /\ head.index \in Indices /\ head.status \in {"Success", "Failed"}
  <2>1. Notified \subseteq Answered /\ Answered \subseteq Request /\ stored \in Seq(Answered)
    BY LiveTypes DEF Answered
  <2>2. retries \in [Indices -> 0 .. MaxRetries] /\ MaxRetries \in Nat
    BY Constants DEF OperationInv, TypeOK, WalkTypeOK
  <2>3. \A r \in Answered : r.index \in Indices /\ r.status \in {"Success", "Failed"}
    BY DEF Answered, Request, Status
  <2>. QED
    BY <2>1, <2>2, <2>3
<1>2. Fails(i) \in [Request -> Nat]
      /\ Fails(i)[head] = IF head.index = i /\ head.status = "Failed" THEN 1 ELSE 0
  BY <1>1 DEF Fails
<1>3. /\ SetTotal(Notified, Fails(i)) = SetTotal(Notified \ {head}, Fails(i)) + Fails(i)[head]
      /\ SetTotal(Notified \ {head}, Fails(i)) \in Nat
      /\ SeqTotal(stored, Fails(i)) \in Nat
  <2>1. SetTotal(Notified, Fails(i)) = SetTotal(Notified \ {head}, Fails(i)) + Fails(i)[head]
        /\ SetTotal(Notified \ {head}, Fails(i)) \in Nat
    BY <1>1, <1>2, SetTotalRemove
  <2>2. SeqTotal(stored, Fails(i)) \in Nat
    BY <1>1, <1>2, SeqWeights
  <2>. QED
    BY <2>1, <2>2
<1>4. RetriesAfter(head)[i] = IF i = head.index /\ head.status # "Success"
                                 /\ retries[i] < MaxRetries
                              THEN retries[i] + 1 ELSE retries[i]
  BY <1>1 DEF RetriesAfter
<1>5. retries[i] \in 0 .. MaxRetries
  BY <1>1
<1>6. \/ SeqTotal(stored, Fails(i)) <= RetriesAfter(head)[i] + SetTotal(Notified \ {head}, Fails(i))
      \/ RetriesAfter(head)[i] = MaxRetries
  BY <1>1, <1>2, <1>3, <1>4, <1>5 DEF RetriesUsed
<1>. QED
  BY <1>6 DEF RetriesUsed

\* A turn of the loop makes the next request, and accounts for the finished one.
LEMMA ProcessUpdateAccounts ==
  ASSUME OperationInv, RequestsInv, AccountsInv, ProcessUpdate, walk' # "raised", ~Dropped,
         UNCHANGED stored
  PROVE  Accounts'
<1>1. /\ walk = "batching" /\ initialItems = <<>> /\ initialItems' = <<>>
      /\ entitiesSampled \in Nat /\ WalkTypeOK /\ MeasurementsTypeOK
      /\ IsFiniteSet(inFlight) /\ IsFiniteSet(Notified) /\ Numbered /\ NotifiedOnce
      /\ retries' = RetriesAfter(Head(updateQueue))
  <2>1. walk = "batching" /\ initialItems' = initialItems /\ retries' = RetriesAfter(Head(updateQueue))
    BY DEF ProcessUpdate, WaitingOnRequests
  <2>2. /\ initialItems = <<>> /\ entitiesSampled \in 0 .. NumberEntities
        /\ WalkTypeOK /\ MeasurementsTypeOK
    BY <2>1 DEF OperationInv, WalkInv, TypeOK, WalkTypeOK
  <2>3. IsFiniteSet(inFlight) /\ IsFiniteSet(Notified) /\ Numbered /\ NotifiedOnce
    BY DEF RequestsInv, HandedOn, PassedOn
  <2>. QED
    BY <2>1, <2>2, <2>3, Constants
<1>2. PICK head : head = Head(updateQueue)
  OBVIOUS
<1>3. head \in Notified \cap Answered /\ Notified' = Notified \ {head}
  BY <1>1, <1>2, NotificationTaken DEF ProcessUpdate
<1>4. PICK queue : queue = QueueAfter(head)
  OBVIOUS
<1>5. queue \in Seq(Item)
  BY <1>1, <1>2, <1>3, <1>4, ProcessCompletedType
<1>6. PICK outcome \in SamplingOutcomes(queue) :
        entitiesSampled' = outcome.sampled /\ GetAndSubmit(outcome.queue)
  BY <1>2, <1>4 DEF ProcessUpdate
<1>7. PICK next : next = outcome.queue
  OBVIOUS
<1>8. /\ \/ next = queue /\ entitiesSampled' = entitiesSampled
         \/ /\ queue = <<>> /\ entitiesSampled' = entitiesSampled + 1
            /\ entitiesSampled \in Indices
            /\ next = ItemsOf(entitiesSampled, IndependentExperiments)
      /\ next \in Seq(Item)
  BY <1>1, <1>5, <1>6, <1>7, SamplingQueues, SamplingType
<1>9. \/ next = <<>> /\ batchingQueue' = next /\ UNCHANGED measurementVars
      \/ next # <<>> /\ batchingQueue' = Tail(next) /\ Submit(Head(next))
  BY <1>6, <1>7 DEF GetAndSubmit, SubmitRaises
<1>10. memoized' = memoized
  BY <1>9 DEF measurementVars, Submit, MeasureOrReplay
<1>. SUFFICES ASSUME NEW i \in Indices
              PROVE  Balanced(i)' /\ RetriesUsed(i)'
  BY DEF Accounts
<1>11. Balanced(i) /\ RetriesUsed(i) /\ Measures(head)
  BY <1>1, <1>3 DEF AccountsInv, Accounts, Live
<1>12. PICK C : C = Creates(memoized, i)
  OBVIOUS
<1>13. C \in [Item -> Nat] /\ PlannedWith(memoized, i, IndependentExperiments) \in Nat
       /\ Enables(memoized, i) \in [Request -> Nat]
  BY <1>1, <1>12, WeightTypes, Constants
<1>14. /\ Made(i) \in Nat /\ Due(i) \in Nat /\ retries[i] \in Nat
       /\ SetTotal(Notified, Enables(memoized, i)) \in Nat
       /\ SeqTotal(stored, Enables(memoized, i)) \in Nat
       /\ SeqTotal(batchingQueue, C) \in Nat
  BY <1>1, <1>12, AccountTypes
<1>15. SeqTotal(<<>>, C) = 0
  BY <1>13, SeqTotalOfNone
<1>16. SeqTotal(next, C) \in Nat /\ SeqTotal(queue, C) \in Nat
  BY <1>5, <1>8, <1>13, SeqWeights
<1>17. Due(i)' \in Nat /\ SeqTotal(next, C) + Due(i) = SeqTotal(queue, C) + Due(i)'
  <2>1. /\ i \in Nat
        /\ Due(i) = IF i < entitiesSampled
                    THEN PlannedWith(memoized, i, IndependentExperiments) ELSE 0
        /\ Due(i)' = IF i < entitiesSampled'
                     THEN PlannedWith(memoized, i, IndependentExperiments) ELSE 0
    BY <1>1, <1>10 DEF Due, Begun, Indices
  <2>2. CASE next = queue /\ entitiesSampled' = entitiesSampled
    BY <1>14, <1>16, <2>1, <2>2
  <2>3. CASE ~(next = queue /\ entitiesSampled' = entitiesSampled)
    <3>1. SeqTotal(next, C) = IF i = entitiesSampled
                              THEN PlannedWith(memoized, i, IndependentExperiments) ELSE 0
      BY <1>1, <1>8, <1>12, <2>3, OtherItems, Constants
    <3>2. SeqTotal(queue, C) = 0 /\ entitiesSampled' = entitiesSampled + 1
      BY <1>8, <1>15, <2>3
    <3>. QED
      BY <1>1, <1>13, <2>1, <3>1, <3>2
  <2>. QED
    BY <2>2, <2>3
<1>18. /\ Made(i)' + SeqTotal(batchingQueue', C) = Made(i) + SeqTotal(next, C)
       /\ Made(i)' \in Nat /\ SeqTotal(batchingQueue', C) \in Nat
  <2>1. CASE next = <<>> /\ batchingQueue' = next /\ UNCHANGED measurementVars
    <3>1. Made(i)' = Made(i)
      BY <2>1 DEF measurementVars, Made
    <3>. QED
      BY <1>14, <1>16, <2>1, <3>1
  <2>2. CASE next # <<>> /\ batchingQueue' = Tail(next) /\ Submit(Head(next))
    <3>1. PICK first, rest : first = Head(next) /\ rest = Tail(next)
      OBVIOUS
    <3>2. first \in Item /\ rest \in Seq(Item)
      BY <1>8, <2>2, <3>1
    <3>3. Made(i)' = Made(i) + C[first]
      BY <1>1, <1>12, <2>2, <3>1, <3>2, SubmitMakes
    <3>4. SeqTotal(next, C) = C[first] + SeqTotal(rest, C)
      BY <1>8, <1>13, <2>2, <3>1, SeqTotalTail
    <3>5. C[first] \in Nat /\ SeqTotal(rest, C) \in Nat
      BY <1>13, <3>2, SeqWeights
    <3>. QED
      BY <1>14, <2>2, <3>1, <3>3, <3>4, <3>5
  <2>. QED
    BY <1>9, <2>1, <2>2
<1>19. /\ SeqTotal(queue, C) + retries[i]
            = SeqTotal(batchingQueue, C) + Enables(memoized, i)[head] + retries'[i]
       /\ Enables(memoized, i)[head] \in Nat /\ retries'[i] \in Nat
  <2>1. RetriesAfter(head) \in [Indices -> 0 .. MaxRetries] /\ MaxRetries \in Nat
    BY <1>1, <1>3, ProcessCompletedType, Constants
  <2>2. Enables(memoized, i)[head] \in Nat
    BY <1>3, <1>13 DEF Answered
  <2>. QED
    BY <1>1, <1>2, <1>3, <1>4, <1>11, <1>12, <2>1, <2>2, QueueAccount
<1>20. /\ SetTotal(Notified, Enables(memoized, i))
            = SetTotal(Notified', Enables(memoized, i)) + Enables(memoized, i)[head]
       /\ SetTotal(Notified', Enables(memoized, i)) \in Nat
  <2>1. Notified \in SUBSET Request
    BY LiveTypes DEF Answered
  <2>2. /\ SetTotal(Notified, Enables(memoized, i))
             = SetTotal(Notified \ {head}, Enables(memoized, i)) + Enables(memoized, i)[head]
        /\ SetTotal(Notified \ {head}, Enables(memoized, i)) \in Nat
    BY <1>1, <1>3, <1>13, <2>1, SetTotalRemove
  <2>. QED
    BY <1>3, <2>2
<1>21. Waiting(i) = SeqTotal(batchingQueue, C) /\ Waiting(i)' = SeqTotal(batchingQueue', C)
  <2>1. /\ Waiting(i) = SeqTotal(<<>>, C) + SeqTotal(batchingQueue, C)
        /\ Waiting(i)' = SeqTotal(<<>>, C) + SeqTotal(batchingQueue', C)
    BY <1>1, <1>10, <1>12 DEF Waiting
  <2>. QED
    BY <1>14, <1>15, <1>18, <2>1
<1>22. Balanced(i)'
  <2>1. Made(i) + SeqTotal(batchingQueue, C) + SetTotal(Notified, Enables(memoized, i))
          = Due(i) + SeqTotal(stored, Enables(memoized, i)) + retries[i]
    BY <1>11, <1>21 DEF Balanced
  <2>2. Made(i)' + SeqTotal(batchingQueue', C) + SetTotal(Notified', Enables(memoized, i))
          = Due(i)' + SeqTotal(stored, Enables(memoized, i)) + retries'[i]
    BY <1>14, <1>16, <1>17, <1>18, <1>19, <1>20, <2>1
  <2>. QED
    BY <1>10, <1>21, <2>2 DEF Balanced
<1>23. RetriesUsed(i)'
  BY <1>1, <1>2, <1>3, <1>11, RetriesUsedAfter
<1>. QED
  BY <1>22, <1>23

\* A step that makes no request measures no other ones.
LEMMA MeasuresElsewhere ==
  ASSUME \A r \in Live : Measures(r), Live' \subseteq Live, memoized' = memoized
  PROVE  \A r \in Live' : Measures(r)'
BY DEF Measures

\* Every step of the operation measures only what has no result.
LEMMA MeasuresStep ==
  OperationInv /\ RequestsInv /\ (\A r \in Live : Measures(r)) /\ [Next]_vars
    => (\A r \in Live : Measures(r))'
<1>. SUFFICES ASSUME OperationInv, RequestsInv, \A r \in Live : Measures(r), [Next]_vars
              PROVE  \A r \in Live' : Measures(r)'
  OBVIOUS
<1>0. Numbered /\ NotifiedOnce /\ HandedOn /\ PassedOn
  BY DEF RequestsInv
<1>1. CASE ActuatorStep
  <2>1. PICK request \in inFlight : ActuatorCompletes(request)
    BY <1>1 DEF ActuatorStep
  <2>. QED
    BY <1>0, <1>1, <2>1, AnswerMade DEF ActuatorStep, walkVars, managerVars, HandedOn
<1>2. CASE OperatorSubmits
  <2>0. UNCHANGED <<stored, monitoringError, subscribed, crashed>>
    BY <1>2 DEF OperatorSubmits, managerVars
  <2>1. /\ Notified' \subseteq Notified
        /\ \/ \E item \in Item : Submit(item) \/ SubmitRaises(item)
           \/ UNCHANGED measurementVars
    <3>1. CASE ProcessUpdate
      BY <1>0, <3>1, TurnOfLoop, NotificationTaken DEF ProcessUpdate
    <3>2. CASE InitialSubmit
      <4>1. Head(initialItems) \in Item
        BY <3>2 DEF InitialSubmit, OperationInv, TypeOK, WalkTypeOK
      <4>2. Notified' = Notified
        BY <3>2 DEF InitialSubmit, Notified, Requests
      <4>. QED
        BY <3>2, <4>1, <4>2 DEF InitialSubmit
    <3>. QED
      BY <1>2, <3>1, <3>2 DEF OperatorSubmits, RunSubmits
  <2>2. CASE \E item \in Item : Submit(item)
    BY <2>1, <2>2, SubmitMeasures
  <2>3. CASE UNCHANGED measurementVars
    <3>1. Live' \subseteq Live /\ memoized' = memoized
      BY <2>1, <2>3 DEF measurementVars, Live, Requests
    <3>. QED
      BY <3>1, MeasuresElsewhere
  <2>4. CASE \E item \in Item : SubmitRaises(item)
    BY <2>3, <2>4 DEF SubmitRaises
  <2>. QED
    BY <2>1, <2>2, <2>3, <2>4
<1>3. ASSUME UNCHANGED <<memoized, inFlight, measurementQueue>>, Notified' \subseteq Notified
      PROVE  \A r \in Live' : Measures(r)'
  BY <1>3, MeasuresElsewhere DEF Live, Requests
<1>4. CASE OperatorCallback
  BY <1>0, <1>3, <1>4, NotificationQueued
     DEF OperatorCallback, ExecuteCall, measurementVars
<1>5. ASSUME RunInternal \/ RunStarts, UNCHANGED measurementVars
      PROVE  \A r \in Live' : Measures(r)'
  <2>1. CASE ProcessError
    BY <1>0, <1>3, <1>5, <2>1, NotificationTaken DEF ProcessError, measurementVars
  <2>2. CASE ~ProcessError
    BY <1>3, <1>5, <2>2
       DEF RunInternal, RunStarts, InitialSample, InitialExhausted, measurementVars,
           InitialBatchSubmitted, RunReturns, Notified, Requests
  <2>. QED
    BY <2>1, <2>2
<1>6. ASSUME UNCHANGED <<operatorVars, measurementQueue>>,
             sent'[Operator] \subseteq sent[Operator] \cup {CriticalError}
      PROVE  \A r \in Live' : Measures(r)'
  <2>1. Notified' \subseteq Notified
    BY <1>6 DEF operatorVars, Notified, Requests
  <2>. QED
    BY <1>3, <1>6, <2>1 DEF operatorVars
<1>7. CASE ManagerStep
  <2>1. CASE Manager!StoreAndNotify \/ Manager!StoreFails
    <3>1. /\ measurementQueue # <<>> /\ measurementQueue' = Tail(measurementQueue)
          /\ sent'[Operator] \subseteq sent[Operator] \cup {CriticalError, Head(measurementQueue)}
      <4>1. CASE Manager!StoreAndNotify
        BY <4>1, Constants DEF Manager!StoreAndNotify
      <4>2. CASE Manager!StoreFails
        BY <4>2, Constants DEF Manager!StoreFails
      <4>. QED
        BY <2>1, <4>1, <4>2
    <3>2. Requests(measurementQueue)
            = {Head(measurementQueue)} \cup Requests(Tail(measurementQueue))
      BY <3>1, LiveTypes, RequestsTail
    <3>3. UNCHANGED <<inFlight, updateQueue, memoized>>
      BY <1>7 DEF ManagerStep, operatorVars
    <3>4. Requests(measurementQueue)' \subseteq Requests(measurementQueue)
          /\ Notified' \subseteq Notified \cup Requests(measurementQueue)
      BY <3>1, <3>2, <3>3 DEF Notified, Requests
    <3>5. Live' \subseteq Live
      BY <3>3, <3>4 DEF Live
    <3>. QED
      BY <3>3, <3>5, MeasuresElsewhere
  <2>2. CASE \/ Manager!TestIsAlive \/ Manager!GetTimesOut
             \/ Manager!MonitoringCompletes \/ Manager!GatherRaises
    BY <1>6, <1>7, <2>2
       DEF ManagerStep, Manager!TestIsAlive, Manager!GetTimesOut,
           Manager!MonitoringCompletes, Manager!GatherRaises
  <2>. QED
    BY <1>7, <2>1, <2>2 DEF ManagerStep, Manager!MonitorStep
<1>8. CASE OperatorInternal
  BY <1>5, <1>8 DEF OperatorInternal
<1>9. CASE DriverRuns
  BY <1>5, <1>9 DEF DriverRuns
<1>10. CASE OperatorCrashes
  <2>1. sent'[Operator] = {} /\ UNCHANGED <<operatorVars, measurementQueue>>
    BY <1>10, Constants
       DEF OperatorCrashes, Manager!SubscriberCrashes, OperationInv, TypeOK, WalkTypeOK
  <2>. QED
    BY <1>6, <2>1
<1>11. CASE OperatorUnsubscribed
  BY <1>6, <1>11 DEF OperatorUnsubscribed, Manager!UnsubscribeFromUpdates
<1>12. CASE SetupFails \/ DriverStopsWaiting \/ DriverInterrupted
  BY <1>6, <1>12 DEF SetupFails, DriverStopsWaiting, DriverInterrupted, Manager!Shutdown
<1>13. CASE DriverFinishes \/ UNCHANGED vars
  BY <1>6, <1>13 DEF DriverFinishes, vars, driverVars, measurementVars, walkVars,
     managerVars, operatorVars
<1>. QED
  BY <1>1, <1>2, <1>4, <1>7, <1>8, <1>9, <1>10, <1>11, <1>12, <1>13 DEF Next

\* Every step of the operation keeps the accounts.
LEMMA AccountsStep ==
  OperationInv /\ RequestsInv /\ AccountsInv /\ [Next]_vars => AccountsInv'
<1>. SUFFICES ASSUME OperationInv, RequestsInv, AccountsInv, [Next]_vars PROVE Accounts'
  BY MeasuresStep DEF AccountsInv
<1>0. /\ Numbered /\ NotifiedOnce /\ HandedOn /\ PassedOn /\ Accounts
      /\ IsFiniteSet(inFlight) /\ RequestsInv'
  BY RequestsStep DEF RequestsInv, HandedOn, AccountsInv
<1>. DEFINE Still == /\ UNCHANGED <<memoized, stored, initialItems, batchingQueue,
                                    entitiesSampled, retries>>
                     /\ (Dropped => Dropped') /\ (walk = "raised" => walk' = "raised")
<1>1. ASSUME Still, ~Dropped' => Notified' = Notified /\ \A i \in Indices : Made(i)' = Made(i)
      PROVE  Accounts'
  BY <1>0, <1>1, AccountsElsewhere
<1>2. ASSUME UNCHANGED <<stored, measurementQueue, inFlight>>
      PROVE  \A i \in Indices : Made(i)' = Made(i)
  BY <1>2 DEF Made
<1>3. CASE ActuatorStep
  <2>1. PICK request \in inFlight : ActuatorCompletes(request)
    BY <1>3 DEF ActuatorStep
  <2>2. \A i \in Indices : Made(i)' = Made(i)
    BY <1>0, <1>3, <2>1, AnswerMade DEF ActuatorStep, walkVars, managerVars
  <2>3. Dropped => Dropped'
    BY <1>0, <1>3, <2>1, AnswerStep DEF ActuatorStep, walkVars, managerVars
  <2>4. Notified' = Notified /\ memoized' = memoized
    BY <1>3, <2>1 DEF ActuatorStep, ActuatorCompletes, walkVars, Notified, Requests
  <2>. QED
    BY <1>1, <1>3, <2>2, <2>3, <2>4 DEF ActuatorStep, walkVars, managerVars
<1>4. CASE OperatorCallback
  <2>1. PICK update \in sent[Operator] : ExecuteCall(update)
    BY <1>4 DEF OperatorCallback
  <2>2. Notified' = Notified
    BY <1>0, <2>1, NotificationQueued DEF ExecuteCall
  <2>3. UNCHANGED <<inFlight, measurementQueue, experimentsRequested, finishedRequests, stored,
                    memoized, initialItems, batchingQueue, entitiesSampled, retries, walk>>
    BY <1>4, <2>1 DEF OperatorCallback, ExecuteCall, measurementVars, managerVars
  <2>4. Dropped => Dropped'
    BY <2>2, <2>3 DEF Dropped, Seen, Passed
  <2>. QED
    BY <1>1, <1>2, <2>2, <2>3, <2>4
<1>5. ASSUME RunInternal \/ RunStarts, UNCHANGED <<measurementVars, stored>>
      PROVE  Accounts'
  <2>1. UNCHANGED <<inFlight, measurementQueue, memoized, experimentsRequested,
                    finishedRequests, sent, batchingQueue, retries, stored>>
    BY <1>5 DEF RunInternal, RunStarts, measurementVars, InitialSample, InitialExhausted,
         InitialBatchSubmitted, ProcessError, RunReturns
  <2>2. Notified' = Notified
    <3>1. CASE ProcessError
      BY <1>0, <3>1, NotificationTaken DEF ProcessError
    <3>2. CASE ~ProcessError
      BY <1>5, <2>1, <3>2
         DEF RunInternal, RunStarts, InitialSample, InitialExhausted,
             InitialBatchSubmitted, RunReturns, Notified, Requests
    <3>. QED
      BY <3>1, <3>2
  <2>3. Dropped <=> Dropped'
    BY <2>1, <2>2 DEF Dropped, Seen, Passed
  <2>4. CASE InitialSample
    <3>1. CASE Dropped'
      BY <3>1 DEF Accounts
    <3>2. CASE ~Dropped
      BY <1>0, <1>5, <2>2, <2>4, <3>2, InitialSampleAccounts
    <3>. QED
      BY <2>3, <3>1, <3>2
  <2>5. CASE ~InitialSample
    <3>1. UNCHANGED <<initialItems, entitiesSampled>> /\ (walk = "raised" => walk' = "raised")
      BY <1>5, <2>5
         DEF RunInternal, RunStarts, InitialExhausted, MoreInitialEntities,
             InitialBatchSubmitted, ProcessError, WaitingOnRequests, RunReturns
    <3>. QED
      BY <1>1, <1>2, <2>1, <2>2, <2>3, <3>1
  <2>. QED
    BY <2>4, <2>5
<1>6. CASE OperatorInternal
  BY <1>5, <1>6 DEF OperatorInternal, managerVars
<1>7. CASE OperatorSubmits
  <2>1. UNCHANGED <<stored, monitoringError, subscribed, crashed>>
    BY <1>7 DEF OperatorSubmits, managerVars
  <2>2. CASE walk' = "raised" \/ Dropped'
    BY <2>2 DEF Accounts
  <2>3. CASE walk' # "raised" /\ ~Dropped'
    <3>1. ~Dropped
      BY <1>0, <1>7, <2>1, <2>3, SubmissionStep DEF OperatorSubmits, RunSubmits
    <3>2. CASE ProcessUpdate
      BY <2>1, <2>3, <3>1, <3>2, ProcessUpdateAccounts
    <3>3. CASE InitialSubmit
      <4>1. Notified' = Notified
        BY <3>3 DEF InitialSubmit, Notified, Requests
      <4>. QED
        BY <1>0, <2>1, <2>3, <3>1, <3>3, <4>1, InitialSubmitAccounts
    <3>. QED
      BY <1>7, <3>2, <3>3 DEF OperatorSubmits, RunSubmits
  <2>. QED
    BY <2>2, <2>3
<1>8. ASSUME UNCHANGED <<operatorVars, measurementQueue, stored, monitoringError>>,
             sent'[Operator] \subseteq sent[Operator],
             subscribed' \subseteq subscribed, crashed \subseteq crashed',
             sent'[Operator] = sent[Operator] \/ Operator \in crashed'
      PROVE  Accounts'
  <2>1. (Dropped => Dropped') /\ (Live' = Live \/ Dropped')
    BY <1>0, <1>8, FewerNotified DEF operatorVars
  <2>2. /\ Notified' \subseteq Notified /\ inFlight' = inFlight
        /\ Requests(measurementQueue)' = Requests(measurementQueue)
    BY <1>8 DEF operatorVars, Notified, Requests
  <2>3. ~Dropped' => Notified' = Notified
    <3>1. Notified \cap inFlight = {} /\ Notified \cap Requests(measurementQueue) = {}
      BY <1>0, LiveTypes DEF Numbered
    <3>. QED
      BY <2>1, <2>2, <3>1 DEF Live
  <2>4. UNCHANGED <<memoized, stored, initialItems, batchingQueue, entitiesSampled, retries, walk>>
    BY <1>8 DEF operatorVars
  <2>. QED
    BY <1>1, <1>2, <1>8, <2>1, <2>2, <2>3, <2>4
<1>9. CASE ManagerStep
  <2>1. CASE Manager!StoreAndNotify
    BY <1>9, <2>1, StoreAccounts DEF ManagerStep
  <2>2. CASE Manager!StoreFails
    <3>1. Dropped'
      BY <1>0, <1>9, <2>2, StoreFailsStep DEF ManagerStep, operatorVars
    <3>. QED
      BY <3>1 DEF Accounts
  <2>3. CASE \/ Manager!TestIsAlive \/ Manager!GetTimesOut
             \/ Manager!MonitoringCompletes \/ Manager!GatherRaises
    BY <1>8, <1>9, <2>3
       DEF ManagerStep, Manager!TestIsAlive, Manager!GetTimesOut,
           Manager!MonitoringCompletes, Manager!GatherRaises
  <2>. QED
    BY <1>9, <2>1, <2>2, <2>3 DEF ManagerStep, Manager!MonitorStep
<1>10. CASE OperatorUnsubscribed
  BY <1>8, <1>10 DEF OperatorUnsubscribed, Manager!UnsubscribeFromUpdates
<1>11. CASE OperatorCrashes
  <2>1. /\ sent'[Operator] = {} /\ crashed' = crashed \cup {Operator}
        /\ UNCHANGED <<measurementQueue, stored, monitoringError, subscribed>>
    BY <1>11, Constants
       DEF OperatorCrashes, Manager!SubscriberCrashes, OperationInv, TypeOK, WalkTypeOK
  <2>. QED
    BY <1>8, <1>11, <2>1 DEF OperatorCrashes
<1>12. CASE DriverRuns
  BY <1>5, <1>12 DEF DriverRuns, Manager!StartMonitoring
<1>13. CASE SetupFails
  BY <1>8, <1>13 DEF SetupFails, Manager!Shutdown
<1>14. CASE DriverStopsWaiting
  BY <1>8, <1>14 DEF DriverStopsWaiting, Manager!Shutdown
<1>15. CASE DriverInterrupted
  BY <1>8, <1>15 DEF DriverInterrupted, Manager!Shutdown
<1>16. CASE DriverFinishes \/ UNCHANGED vars
  BY <1>8, <1>16 DEF DriverFinishes, vars, driverVars, measurementVars, walkVars,
     managerVars, operatorVars
<1>. QED
  BY <1>3, <1>4, <1>6, <1>7, <1>9, <1>10, <1>11, <1>12, <1>13, <1>14, <1>15,
     <1>16 DEF Next

\* Nothing is made and nothing is due at first.
LEMMA AccountsInit == Init => AccountsInv
<1>. SUFFICES ASSUME Init PROVE AccountsInv
  OBVIOUS
<1>1. /\ inFlight = {} /\ measurementQueue = <<>> /\ stored = <<>> /\ updateQueue = <<>>
      /\ sent[Operator] = {} /\ initialItems = <<>> /\ batchingQueue = <<>>
      /\ entitiesSampled = 0 /\ MeasurementsTypeOK
      /\ \A i \in Indices : retries[i] = 0
  BY OperationInit, Constants DEF Init, MeasurementsInit, WalkInit, Manager!ManagerInit,
     OperationInv, TypeOK
<1>2. Notified = {} /\ Live = {}
  BY <1>1 DEF Notified, Live, Requests
<1>4. ASSUME NEW i \in Indices
      PROVE  Balanced(i) /\ RetriesUsed(i)
  <2>1. /\ Creates(memoized, i) \in [Item -> Nat] /\ For(i) \in [Request -> Nat]
        /\ Fails(i) \in [Request -> Nat] /\ Enables(memoized, i) \in [Request -> Nat]
    BY <1>1, WeightTypes
  <2>2. /\ SeqTotal(<<>>, Creates(memoized, i)) = 0 /\ SeqTotal(<<>>, For(i)) = 0
        /\ SeqTotal(<<>>, Fails(i)) = 0 /\ SeqTotal(<<>>, Enables(memoized, i)) = 0
        /\ SetTotal({}, For(i)) = 0 /\ SetTotal({}, Fails(i)) = 0
        /\ SetTotal({}, Enables(memoized, i)) = 0
    BY <2>1, SeqTotalOfNone, SetTotalNone
  <2>3. Made(i) = 0 /\ Waiting(i) = 0
    BY <1>1, <2>2 DEF Made, Waiting
  <2>4. Due(i) = 0
    <3>1. ~Begun(i)
      BY <1>1 DEF Begun, Indices
    <3>. QED
      BY <3>1 DEF Due
  <2>. QED
    BY <1>1, <1>2, <2>2, <2>3, <2>4 DEF Balanced, RetriesUsed
<1>. QED
  BY <1>2, <1>4 DEF AccountsInv, Accounts

\* What the account of a stored success enables is what the property plans.
LEMMA EnabledIs ==
  ASSUME OperationInv, NEW i \in Indices
  PROVE  SeqTotal(stored, Enables(memoized, i))
           = Total([k \in StoredFor(i, "Success") |->
                      Planned(i, DependentsOf[stored[k].experiment])])
<1>1. stored \in Seq(Request) /\ MeasurementsTypeOK
  <2>1. stored \in Seq(Answered) /\ Answered \subseteq Request
    BY LiveTypes DEF Answered
  <2>. QED
    BY <2>1 DEF OperationInv, TypeOK
<1>2. PICK P : P = StoredFor(i, "Success")
  OBVIOUS
<1>3. /\ P \in SUBSET DOMAIN stored
      /\ \A k \in P : stored[k].index = i /\ stored[k].status = "Success"
      /\ \A k \in DOMAIN stored \ P : ~(stored[k].index = i /\ stored[k].status = "Success")
  BY <1>2 DEF StoredFor
<1>4. \A k \in DOMAIN stored : stored[k] \in Request
  BY <1>1
<1>5. Enables(memoized, i) \in [Request -> Nat]
  BY <1>1, WeightTypes
<1>6. \A k \in DOMAIN stored \ P : Enables(memoized, i)[stored[k]] = 0
  BY <1>3, <1>4 DEF Enables
<1>7. SeqTotal(stored, Enables(memoized, i)) = Total([k \in P |-> Enables(memoized, i)[stored[k]]])
  BY <1>1, <1>3, <1>5, <1>6, SeqTotalSupport
<1>8. ASSUME NEW k \in P
      PROVE  Enables(memoized, i)[stored[k]] = Planned(i, DependentsOf[stored[k].experiment])
  <2>1. stored[k] \in Request /\ DependentsOf[stored[k].experiment] \in Seq(Experiments)
    BY <1>3, <1>4, Constants DEF Request
  <2>2. Enables(memoized, i)[stored[k]]
          = PlannedWith(memoized, i, DependentsOf[stored[k].experiment])
    BY <1>3, <2>1 DEF Enables
  <2>. QED
    BY <2>1, <2>2, PlannedIs
<1>9. [k \in P |-> Enables(memoized, i)[stored[k]]]
        = [k \in P |-> Planned(i, DependentsOf[stored[k].experiment])]
  BY <1>8
<1>. QED
  BY <1>2, <1>7, <1>9

\* What is stored for an entity succeeded or failed.
LEMMA StoredCounts ==
  ASSUME OperationInv, NEW i \in Indices
  PROVE  /\ SeqTotal(stored, For(i))
              = Cardinality(StoredFor(i, "Success")) + Cardinality(StoredFor(i, "Failed"))
         /\ SeqTotal(stored, Fails(i)) = Cardinality(StoredFor(i, "Failed"))
<1>1. stored \in Seq(Request) /\ \A k \in DOMAIN stored : stored[k] \in Answered
  <2>1. stored \in Seq(Answered) /\ Answered \subseteq Request
    BY LiveTypes DEF Answered
  <2>. QED
    BY <2>1
<1>2. PICK P, Q : P = StoredFor(i, "Success") /\ Q = StoredFor(i, "Failed")
  OBVIOUS
<1>3. /\ P \in SUBSET DOMAIN stored /\ Q \in SUBSET DOMAIN stored
      /\ P \cup Q \in SUBSET DOMAIN stored
      /\ P \cap Q = {}
  BY <1>2 DEF StoredFor
<1>4. \A k \in DOMAIN stored :
        /\ For(i)[stored[k]] = IF k \in P \cup Q THEN 1 ELSE 0
        /\ Fails(i)[stored[k]] = IF k \in Q THEN 1 ELSE 0
  <2>. SUFFICES ASSUME NEW k \in DOMAIN stored
                PROVE  /\ For(i)[stored[k]] = IF k \in P \cup Q THEN 1 ELSE 0
                       /\ Fails(i)[stored[k]] = IF k \in Q THEN 1 ELSE 0
    OBVIOUS
  <2>1. stored[k] \in Request /\ stored[k].status \in {"Success", "Failed"}
    BY <1>1 DEF Answered, Request, Status
  <2>. QED
    BY <1>2, <2>1 DEF For, Fails, StoredFor
<1>5. For(i) \in [Request -> Nat] /\ Fails(i) \in [Request -> Nat]
  BY DEF For, Fails
<1>6. SeqTotal(stored, For(i)) = Cardinality(P \cup Q)
  <2>1. PICK R, weight : R = P \cup Q /\ weight = For(i)
    OBVIOUS
  <2>2. /\ R \in SUBSET DOMAIN stored /\ weight \in [Request -> Nat]
        /\ \A k \in DOMAIN stored \ R : weight[stored[k]] = 0
        /\ \A k \in R : weight[stored[k]] = 1
    BY <1>3, <1>4, <1>5, <2>1
  <2>3. SeqTotal(stored, weight) = Cardinality(R)
    BY <1>1, <2>2, SeqTotalCounts
  <2>. QED
    BY <2>1, <2>3
<1>7. SeqTotal(stored, Fails(i)) = Cardinality(Q)
  <2>1. PICK weight : weight = Fails(i)
    OBVIOUS
  <2>2. /\ weight \in [Request -> Nat]
        /\ \A k \in DOMAIN stored \ Q : weight[stored[k]] = 0
        /\ \A k \in Q : weight[stored[k]] = 1
    BY <1>3, <1>4, <1>5, <2>1
  <2>3. SeqTotal(stored, weight) = Cardinality(Q)
    BY <1>1, <1>3, <2>2, SeqTotalCounts
  <2>. QED
    BY <2>1, <2>3
<1>8. Cardinality(P \cup Q) = Cardinality(P) + Cardinality(Q)
  <2>1. IsFiniteSet(DOMAIN stored)
    BY <1>1, <1>5, SeqWeights
  <2>2. IsFiniteSet(P) /\ IsFiniteSet(Q)
    BY <1>3, <2>1, FS_Subset
  <2>3. Cardinality(P) \in Nat /\ Cardinality(Q) \in Nat
    BY <2>2, FS_CardinalityType
  <2>. QED
    <3>1. Cardinality(P \cup Q) = Cardinality(P) + Cardinality(Q) - Cardinality(P \cap Q)
      BY <2>2, FS_Union
    <3>2. Cardinality({}) = 0
      BY FS_EmptySet
    <3>3. Cardinality(P \cap Q) = 0
      BY <1>3, <3>2
    <3>. QED
      BY <2>3, <3>1, <3>3
<1>. QED
  BY <1>2, <1>6, <1>7, <1>8

(***************************************************************************)
(* Each measurement of an entity is accounted for when run() returns       *)
(* without a critical error, and no failure went without a retry while the *)
(* retries of its request index lasted.                                    *)
(***************************************************************************)
THEOREM FailuresAreRetried == Spec => []FailuresRetried
<1>1. OperationInv /\ RequestsInv /\ AccountsInv => FailuresRetried
  <2>. SUFFICES ASSUME OperationInv, RequestsInv, AccountsInv,
                       walk = "returned", ~criticalError, NEW i \in 0 .. entitiesSampled - 1
                PROVE  /\ Cardinality(StoredFor(i, "Success")) + Cardinality(StoredFor(i, "Failed"))
                            = Planned(i, IndependentExperiments)
                                + Total([k \in StoredFor(i, "Success") |->
                                           Planned(i, DependentsOf[stored[k].experiment])])
                                + retries[i]
                       /\ Cardinality(StoredFor(i, "Failed")) > retries[i] =>
                            retries[i] = MaxRetries
    BY DEF FailuresRetried
  <2>1. /\ finishedRequests = experimentsRequested /\ batchingQueue = <<>> /\ initialItems = <<>>
        /\ entitiesSampled \in 0 .. NumberEntities /\ MeasurementsTypeOK
    BY DEF OperationInv, WalkInv, NothingLeft, TypeOK, WalkTypeOK
  <2>2. /\ inFlight = {} /\ measurementQueue = <<>> /\ Notified = {} /\ ~Dropped
    <3>1. RequestCounts
      BY RequestCountsType DEF RequestsInv, HandedOn, PassedOn
    <3>2. Seen >= Passed /\ Seen <= Passed
      BY <2>1, <3>1 DEF RequestCounts, RequestsInv, HandedOn, PassedOn, Seen, Passed
    <3>3. /\ Cardinality(inFlight) = 0 /\ Len(measurementQueue) = 0
          /\ Cardinality(Notified) = 0
      BY <2>1, <3>1, <3>2 DEF RequestCounts, Seen, Passed
    <3>4. ~Dropped
      BY <3>1, <3>2 DEF RequestCounts, Dropped
    <3>. QED
      BY <3>3, <3>4, LiveTypes, FS_EmptySet, ZeroLength DEF RequestsInv, HandedOn, PassedOn
  <2>3. i \in Indices /\ i < entitiesSampled
    BY <2>1, Constants DEF Indices
  <2>4. Balanced(i) /\ RetriesUsed(i)
    BY <2>2, <2>3 DEF AccountsInv, Accounts
  <2>5. /\ Creates(memoized, i) \in [Item -> Nat] /\ For(i) \in [Request -> Nat]
        /\ Fails(i) \in [Request -> Nat] /\ Enables(memoized, i) \in [Request -> Nat]
    BY <2>1, <2>3, WeightTypes
  <2>6. /\ SeqTotal(<<>>, Creates(memoized, i)) = 0 /\ SeqTotal(<<>>, For(i)) = 0
        /\ SetTotal({}, For(i)) = 0 /\ SetTotal({}, Fails(i)) = 0
        /\ SetTotal({}, Enables(memoized, i)) = 0
    BY <2>5, SetTotalNone, SeqTotalOfNone
  <2>7. /\ SeqTotal(stored, For(i)) \in Nat /\ SeqTotal(stored, Enables(memoized, i)) \in Nat
        /\ SeqTotal(stored, Fails(i)) \in Nat /\ Due(i) \in Nat /\ retries[i] \in Nat
    BY <2>3, AccountTypes DEF RequestsInv, HandedOn, PassedOn
  <2>8. Made(i) = SeqTotal(stored, For(i)) /\ Waiting(i) = 0
    BY <2>1, <2>2, <2>6, <2>7 DEF Made, Waiting
  <2>9. Due(i) = Planned(i, IndependentExperiments)
    <3>1. Due(i) = PlannedWith(memoized, i, IndependentExperiments)
      BY <2>3 DEF Due, Begun
    <3>. QED
      BY <2>3, <3>1, PlannedIs, Constants
  <2>10. SeqTotal(stored, For(i)) = Due(i) + SeqTotal(stored, Enables(memoized, i)) + retries[i]
    BY <2>2, <2>4, <2>6, <2>7, <2>8 DEF Balanced
  <2>11. SeqTotal(stored, Fails(i)) > retries[i] => retries[i] = MaxRetries
    BY <2>2, <2>4, <2>6, <2>7 DEF RetriesUsed
  <2>. QED
    BY <2>3, <2>9, <2>10, <2>11, EnabledIs, StoredCounts
<1>. QED
  BY <1>1, OperationInit, OperationStep, RequestsInit, RequestsStep,
     AccountsInit, AccountsStep, PTL DEF Spec

=============================================================================
