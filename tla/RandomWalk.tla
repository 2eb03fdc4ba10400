----------------------------- MODULE RandomWalk -----------------------------
(***************************************************************************)
(* The random_walk operator: a Ray actor whose run() keeps a number of     *)
(* experiments requested at all times (continuous batching).  It submits   *)
(* an initial batch of entities, then repeats: wait for the notification   *)
(* of a finished request, decide whether it enables dependent experiments  *)
(* or must be retried, sample another entity when there is nothing to      *)
(* submit, and submit one more experiment.                                 *)
(*                                                                         *)
(* The calls the discovery space manager makes on this actor are in        *)
(* sent[Operator] until they run: Ray does not promise that an asyncio     *)
(* actor runs the calls of one caller in the order they were made, so it   *)
(* is a set.                                                               *)
(*                                                                         *)
(* Left out: progress messages, and completed_experiments, finalStatus and *)
(* the retry summary, which are only printed; the test that a notification *)
(* belongs to this operation, since the measurement queue is created for   *)
(* it alone.  That BatchSize is at most NumberEntities is what the         *)
(* validator of batchSize requires.                                        *)
(***************************************************************************)
EXTENDS Measurements

CONSTANTS
  Operator,      \* this actor
  Subscribers,   \* the actors the manager calls, this one among them
  BatchSize,     \* entities in the initial batch
  MaxRetries,    \* retries of failed measurements
  CriticalError  \* what onError puts on the update queue

ASSUME RandomWalkAssumption ==
  /\ Operator \in Subscribers
  /\ BatchSize \in 1 .. NumberEntities
  /\ MaxRetries \in Nat
  /\ CriticalError \notin Request

VARIABLES
  walk,                   \* where run() is
  entitiesSampled,        \* _entitiesSampled
  exhausted,              \* the sampler's iterator has raised StopAsyncIteration
  initialItems,           \* experiments of the initial entity still to submit
  experimentsRequested,   \* _experimentsRequested
  finishedRequests,       \* finished_requests
  retries,                \* retries[i]: _retriedExperimentRequests[i].retries
  batchingQueue,          \* continuous_batching_queue
  updateQueue,            \* update_queue
  criticalError,          \* criticalError
  sent                    \* sent[s]: calls made on s but not yet executed

walkVars == <<walk, entitiesSampled, exhausted, initialItems,
              experimentsRequested, finishedRequests, retries, batchingQueue,
              updateQueue, criticalError, sent>>

Update == Answered \cup {CriticalError}

WalkTypeOK ==
  /\ walk \in {"created", "initial", "batching", "returned", "raised"}
  /\ entitiesSampled \in 0 .. NumberEntities
  /\ exhausted \in BOOLEAN
  /\ initialItems \in Seq(Item)
  /\ experimentsRequested \in Nat
  /\ finishedRequests \in Nat
  /\ retries \in [Indices -> 0 .. MaxRetries]
  /\ batchingQueue \in Seq(Item)
  /\ updateQueue \in Seq(Update)
  /\ criticalError \in BOOLEAN
  /\ sent \in [Subscribers -> SUBSET Update]

WalkInit ==
  /\ walk = "created"
  /\ entitiesSampled = 0
  /\ exhausted = FALSE
  /\ initialItems = <<>>
  /\ experimentsRequested = 0
  /\ finishedRequests = 0
  /\ retries = [i \in Indices |-> 0]
  /\ batchingQueue = <<>>
  /\ updateQueue = <<>>
  /\ criticalError = FALSE
  /\ sent = [s \in Subscribers |-> {}]

ItemsOf(index, experiments) ==
  [k \in DOMAIN experiments |->
     [index |-> index, experiment |-> experiments[k]]]

-----------------------------------------------------------------------------
(* Callbacks: executed on the operator's event loop whenever it is free.   *)

\* onUpdate and onError both put what they are given on the update queue.
ExecuteCall(update) ==
  /\ update \in sent[Operator]
  /\ sent' = [sent EXCEPT ![Operator] = @ \ {update}]
  /\ updateQueue' = Append(updateQueue, update)
  /\ UNCHANGED <<walk, entitiesSampled, exhausted, initialItems,
                 experimentsRequested, finishedRequests, retries,
                 batchingQueue, criticalError>>

-----------------------------------------------------------------------------
(* run(): the initial batch.                                               *)

(***************************************************************************)
(* run() raises at once if it is asked for more entities than the space    *)
(* has, or for all entities of an unbounded one.  (In the latter case it   *)
(* also unsubscribes; as nothing was requested, nobody can tell.)          *)
(***************************************************************************)
RunStarts ==
  /\ walk = "created"
  /\ walk' \in {"initial", "raised"}
  /\ UNCHANGED <<entitiesSampled, exhausted, initialItems,
                 experimentsRequested, finishedRequests, retries,
                 batchingQueue, updateQueue, criticalError, sent>>

Submit(item) ==
  /\ MeasureOrReplay(item, experimentsRequested)
  /\ experimentsRequested' = experimentsRequested + NumberCreated(item)
  /\ UNCHANGED walk

(***************************************************************************)
(* measure_or_replay raises because the actuator refuses the experiment or *)
(* has died: the exception leaves run(), which then neither unsubscribes   *)
(* nor waits for what it has requested.                                    *)
(***************************************************************************)
SubmitRaises(item) ==
  /\ NeedsMeasurement(item)
  /\ walk' = "raised"
  /\ UNCHANGED <<experimentsRequested, measurementVars>>

\* Mutant: one entity too many.
MoreInitialEntitiesOffByOne ==
  /\ walk = "initial"
  /\ initialItems = <<>>
  /\ entitiesSampled <= BatchSize
  /\ ~exhausted

MoreInitialEntities ==
  /\ walk = "initial"
  /\ initialItems = <<>>
  /\ entitiesSampled < BatchSize
  /\ ~exhausted

\* The sampler yields an entity that passes the filter.
InitialSample ==
  /\ MoreInitialEntities
  /\ initialItems' = ItemsOf(entitiesSampled, IndependentExperiments)
  /\ UNCHANGED <<walk, entitiesSampled, exhausted, experimentsRequested,
                 finishedRequests, retries, batchingQueue, updateQueue,
                 criticalError, sent>>

\* No entity passes the filter any more.
InitialExhausted ==
  /\ MoreInitialEntities
  /\ exhausted' = TRUE
  /\ UNCHANGED <<walk, entitiesSampled, initialItems, experimentsRequested,
                 finishedRequests, retries, batchingQueue, updateQueue,
                 criticalError, sent>>

\* The entity counts as sampled once all its experiments are submitted.
InitialSubmit ==
  /\ walk = "initial"
  /\ initialItems # <<>>
  /\ initialItems' = Tail(initialItems)
  /\ \/ /\ Submit(Head(initialItems))
        /\ entitiesSampled' = IF Len(initialItems) = 1
                              THEN entitiesSampled + 1 ELSE entitiesSampled
     \/ /\ SubmitRaises(Head(initialItems))
        /\ UNCHANGED entitiesSampled
  /\ UNCHANGED <<exhausted, finishedRequests, retries, batchingQueue,
                 updateQueue, criticalError, sent>>

InitialBatchSubmitted ==
  /\ walk = "initial"
  /\ initialItems = <<>>
  /\ entitiesSampled = BatchSize \/ exhausted
  /\ walk' = "batching"
  /\ UNCHANGED <<entitiesSampled, exhausted, initialItems,
                 experimentsRequested, finishedRequests, retries,
                 batchingQueue, updateQueue, criticalError, sent>>

-----------------------------------------------------------------------------
(* run(): continuous batching.                                             *)

WaitingOnRequests ==
  /\ walk = "batching"
  /\ finishedRequests < experimentsRequested
  /\ ~criticalError

\* Mutant: the experiments a success enables are forgotten.
QueueAfterNoDependents(request) ==
  IF request.status = "Success" \/ retries[request.index] = MaxRetries
  THEN batchingQueue
  ELSE Append(batchingQueue,
              [index |-> request.index, experiment |-> request.experiment])

\* _processCompletedMeasurement: the batching queue afterwards ...
QueueAfter(request) ==
  IF request.status = "Success"
  THEN batchingQueue \o ItemsOf(request.index, DependentsOf[request.experiment])
  ELSE IF retries[request.index] = MaxRetries
  THEN batchingQueue
  ELSE Append(batchingQueue,
              [index |-> request.index, experiment |-> request.experiment])

\* ... and the retry trackers, one per request index.
RetriesAfter(request) ==
  IF request.status # "Success" /\ retries[request.index] < MaxRetries
  THEN [retries EXCEPT ![request.index] = @ + 1]
  ELSE retries

\* The queue and the state of the sampler that sampling leaves.
Outcome(queue, sampled, over) ==
  [queue |-> queue, sampled |-> sampled, over |-> over]

\* Mutant: the last entity is not sampled.
SamplingStopsEarly(queue) ==
  IF queue # <<>> \/ entitiesSampled >= NumberEntities - 1 \/ exhausted
  THEN {Outcome(queue, entitiesSampled, exhausted)}
  ELSE { Outcome(queue, entitiesSampled, TRUE),
         Outcome(ItemsOf(entitiesSampled, IndependentExperiments),
                 entitiesSampled + 1, FALSE) }

\* Mutant: an entity's requests get the index of the entity before it.
SamplingReusesIndex(queue) ==
  IF queue # <<>> \/ entitiesSampled >= NumberEntities \/ exhausted
  THEN {Outcome(queue, entitiesSampled, exhausted)}
  ELSE { Outcome(queue, entitiesSampled, TRUE),
         Outcome(ItemsOf(entitiesSampled - 1, IndependentExperiments),
                 entitiesSampled + 1, FALSE) }

(***************************************************************************)
(* _sampleEntityAndAddMeasurementsToQueue, called when the queue is empty  *)
(* and entities are left to sample: the sampler may yield one or be        *)
(* exhausted.  Each outcome is the queue and the sampler state it leaves.  *)
(***************************************************************************)
SamplingOutcomes(queue) ==
  IF queue # <<>> \/ entitiesSampled >= NumberEntities \/ exhausted
  THEN {Outcome(queue, entitiesSampled, exhausted)}
  ELSE { Outcome(queue, entitiesSampled, TRUE),
         Outcome(ItemsOf(entitiesSampled, IndependentExperiments),
                 entitiesSampled + 1, FALSE) }

\* Mutant: batch-wise submission, only once nothing is outstanding.
SubmitWhenIdle(queue) ==
  \/ /\ queue = <<>> \/ finishedRequests + 1 < experimentsRequested
     /\ batchingQueue' = queue
     /\ UNCHANGED <<walk, experimentsRequested, measurementVars>>
  \/ /\ queue # <<>>
     /\ finishedRequests + 1 >= experimentsRequested
     /\ batchingQueue' = Tail(queue)
     /\ Submit(Head(queue)) \/ SubmitRaises(Head(queue))

\* _getAndSubmitMeasurement: submit the head of the queue, if there is one.
GetAndSubmit(queue) ==
  \/ /\ queue = <<>>
     /\ batchingQueue' = queue
     /\ UNCHANGED <<walk, experimentsRequested, measurementVars>>
  \/ /\ queue # <<>>
     /\ batchingQueue' = Tail(queue)
     /\ Submit(Head(queue)) \/ SubmitRaises(Head(queue))

\* One iteration of the loop for a finished request.
ProcessUpdate ==
  /\ WaitingOnRequests
  /\ updateQueue # <<>>
  /\ Head(updateQueue) # CriticalError
  /\ LET request == Head(updateQueue)
     IN  /\ retries' = RetriesAfter(request)
         /\ \E outcome \in SamplingOutcomes(QueueAfter(request)) :
              /\ entitiesSampled' = outcome.sampled
              /\ exhausted' = outcome.over
              /\ GetAndSubmit(outcome.queue)
  /\ finishedRequests' = finishedRequests + 1
  /\ updateQueue' = Tail(updateQueue)
  /\ UNCHANGED <<initialItems, criticalError, sent>>

\* One iteration of the loop for an error the manager reported.
ProcessError ==
  /\ WaitingOnRequests
  /\ updateQueue # <<>>
  /\ Head(updateQueue) = CriticalError
  /\ criticalError' = TRUE
  /\ updateQueue' = Tail(updateQueue)
  /\ UNCHANGED <<walk, entitiesSampled, exhausted, initialItems,
                 experimentsRequested, finishedRequests, retries,
                 batchingQueue, sent>>

\* Mutant: the last request is not waited for.
RunReturnsOneEarly ==
  /\ walk = "batching"
  /\ finishedRequests + 1 >= experimentsRequested \/ criticalError
  /\ walk' = "returned"
  /\ UNCHANGED <<entitiesSampled, exhausted, initialItems,
                 experimentsRequested, finishedRequests, retries,
                 batchingQueue, updateQueue, criticalError, sent>>

\* The loop ends, run() unsubscribes and returns None.
RunReturns ==
  /\ walk = "batching"
  /\ finishedRequests >= experimentsRequested \/ criticalError
  /\ walk' = "returned"
  /\ UNCHANGED <<entitiesSampled, exhausted, initialItems,
                 experimentsRequested, finishedRequests, retries,
                 batchingQueue, updateQueue, criticalError, sent>>

\* Steps of run() that touch the measurement queue or the actuators.
RunSubmits == InitialSubmit \/ ProcessUpdate

\* Steps of run() that touch the operator's own state only.
RunInternal ==
  \/ InitialSample \/ InitialExhausted \/ InitialBatchSubmitted
  \/ ProcessError \/ RunReturns

=============================================================================
