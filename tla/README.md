# A verification of ado's operations

ado runs *operations* on *discovery spaces*: an operator samples entities of an
entity space, has actuators measure them with the experiments of a measurement
space, and every measurement is kept in a sample store. This directory holds
TLA+ models of the parts of ado in which several actors work at once, the TLC
configurations that check them on small instances, and TLAPS proofs of what
matters most. Paths below are relative to the repository's root.

## The system

| component | source | state | operations |
|---|---|---|---|
| operators (`random_walk`) | `orchestrator/modules/operators/randomwalk.py`, `base.py` | update queue, batching queue, counters of requested and finished requests, retry trackers | `run`, `onUpdate`, `onError`, `measure_or_replay` |
| actuators, memoization | `orchestrator/modules/actuators/*` | accepted requests, the measurement queue | `submit`, `replay`, putting an answered request on the queue |
| discovery space manager | `orchestrator/modules/operators/discovery_space_manager.py` | subscribers, `isalive`, `iscompleted`, the loop's list of promises | `startMonitoring`, the monitoring loop, (un)subscription, `shutdown` |
| orchestration (the driver) | `_explore_orchestration.py`, `_orchestrate_core.py`, `orchestrate.py`, `_cleanup.py` | the operation resource and its status, the actors, the clean-up callbacks, the SIGTERM flag | set-up, waiting for `run()`, recording the exit state, graceful shutdown, SIGTERM handler |
| sample store | `orchestrator/core/samplestore/sql.py` | tables of entities, results, requests and links; per-process caches | `addMeasurement`, `addEntities`, `refresh`, look-ups |
| resource metastore | `orchestrator/metastore/sqlstore.py` | resources, relationships | add, update, get (with upgrade), delete with its guards |
| discovery space | `orchestrator/core/discoveryspace` | the space's entities, samplers | `addMeasurement`, `saveSpace`, sampling |
| measurement space | `orchestrator/schema/measurementspace.py`, `experiment.py` | none | consistency, dependent experiments |
| REST API, single experiments | `orchestrator/api`, `orchestrator/utilities/run_experiment.py`, `orchestrator/modules/actuators/custom_experiments.py` | lazily created actuators, a measurement queue and its index of answered requests, executors | post, poll; `run_experiment` |
| vLLM performance actuator | `plugins/actuators/vllm_performance` | a pool of environments (deployments), who waits for one, who downloads which model | ask for, share, give back, delete an environment; deploy; benchmark |
| sfttrainer actuator | `plugins/actuators/sfttrainer` | Ray tasks and placement groups, cache files of token counts | prepare, train on one machine or several, answer |
| ray_tune operator | `plugins/operators/ray_tune` | trials in processes of their own, answered requests, stoppers' counters | `tune_trainable`, `onUpdate`, `onError`, the stoppers |
| other plugins | `plugins/` | see PROJECT.json | |
| command line, migrators | `orchestrator/cli`, `orchestrator/core/legacy` | none that lives on | sequential |

The parts of an explore operation talk as follows.

```
            submit (ray.get)                 put (answered)
 operator  ----------------->  actuators  ------------------>  measurement queue
   ^  |  \____________ replay: put (answered) ____________________^     |
   |  |                                                                 | get
   |  | unsubscribe                                                     v
   |  +-------------------------------------------->  discovery space manager
   +------------ onUpdate / onError / onCompleted --------|        |
                                                    shutdown   addMeasurement
 driver -- run(), __ray_terminate__ --> operator    driver      sample store
```

Operator, manager and actuators are Ray actors: their methods run one at a time
or interleave at `await`s, their calls on each other are asynchronous, and any
of them may die. What makes this code hard:

- the calls the manager makes on an operator are executed later, in an order
  Ray does not promise for asyncio actors, and possibly after the manager's
  loop has ended;
- finished requests of several entities and experiments arrive in any order,
  while retries, dependent experiments and new entities compete for one
  batching queue, and the end of `run()` is the equality of two counters;
- one call of `measure_or_replay` may create several requests;
- storing, notifying, submitting, set-up, the operator and the user (SIGINT)
  can each fail at any point, and the shutdown must cope;
- an operation may call other operations, a signal may come between any two
  statements of the process that runs them, and what its handler raises passes
  through every frame;
- several processes share a sample store and a metastore through transactions
  that do not span what one method does;
- plugins bring concurrency of their own: coroutines over one pool, Ray tasks
  in placement groups, trials that poll, files shared by tasks.

PROJECT.json lists these hazards with the lines where they bite, and the
properties that watch them; a hazard no property covers says why.

## The modules

| module | what it is |
|---|---|
| `Measurements` | the vocabulary (requests, items) and the ways a request is made and answered: `measure_or_replay`, `replay`, the replay actuator, an actuator that works |
| `RandomWalk` | the `random_walk` operator: `run()` with its helpers, and its callbacks |
| `DiscoverySpaceManager` | the manager's monitoring loop, subscription and shutdown, over an abstract set of requests |
| `ManagedSpace` | the manager among any number of subscribers: operators that execute calls, unsubscribe, refuse calls or die |
| `StoreThenNotify` | the abstract specification of the manager; `ManagedSpace` implements it |
| `ExploreOperation` | the composition: `RandomWalk`, `Measurements`, an instance of `DiscoverySpaceManager`, and the driver |
| `MCExploreOperation` | values for TLC: small measurement spaces |
| `SampleStore` | the measurement tables of an SQL sample store, among operations that add and users who delete |
| `MeasurementLog` | the abstract specification of the sample store; `SampleStore` implements it |
| `SampleStoreCache` | the entities and results one process holds of a sample store on SQLite or MySQL, among others that write to it |
| `MCSampleStore` | values and symmetry for TLC: `SampleStore`, or `SampleStoreCache` |
| `MetaStore`, `MCMetaStore` | the resource metastore: processes that create related resources and run operations, users who delete, editors |
| `Orchestration` | the process that runs nested operations: the harness, set-up and shut-down of explore operations, signals, clean-up callbacks |
| `PropertyDomains` | domains of properties: which are valid, the values they hold, which is a subdomain of which |
| `DiscoverySpace`, `MCDiscoverySpace` | a space checked against its experiments, and the samplers that walk it while its store grows |
| `Trim` | the TRIM operator: its two phases and samplers over a table that other operations add to |
| `Experiments` | experiments, entities, references, requests and results; the catalogs and the registry of actuators |
| `CustomExperiments` | the actuator of custom experiments: `submit`, the executors, Ray's retries |
| `RestApi`, `MCRestApi` | the composition: clients of the REST API and commands that use the actuator of custom experiments |
| `RayTune` | the ray_tune operator, over `Measurements` and the abstract manager |
| `Stoppers` | the five stoppers of the ray_tune operator |
| `MCRayTune` | values for TLC: `RayTune`, or `Stoppers` |
| `VllmEnvironments` | the vLLM actuator: its environment manager, the conflict manager of downloads, the Ray tasks of its requests |
| `TokenCache` | sfttrainer's cache files of tokens per sample |
| `AutoStop` | when an sfttrainer training stops by itself, and how its tokens are counted |
| `SFTTrainer` | the sfttrainer actuator and its Ray tasks, over `TokenCache` and `AutoStop` |
| `MCManagers` | values for TLC: `VllmEnvironments`, or `ManagedSpace` |
| `MCTrainerAndHarness` | values for TLC: `SFTTrainer`, or `Orchestration` |
| `ManagedSpaceProofs`, `ExploreOperationProofs`, `SampleStoreProofs`, `RestApiProofs`, `MetaStoreProofs`, `OrchestrationProofs`, `ActuatorProofs`, `RayTuneProofs` | theorems and their TLAPS proofs |

An MC module that names two modules joined by "or" lets TLC follow either one: its
initial states, or its variable `part`, decide which of the two runs, and the other
stays as it was at the start. The two share nothing. The properties of both are
checked in the one run, and the properties of the one that does not run hold in
its initial state.

### How the state corresponds to the code

- An entity is known by the position at which it was sampled, because that is
  the `requestIndex` of every request made for it; `memoized[i][e]` is how many
  results of `e` the `i`-th entity already held (0 .. `MaxMemoized`).
- `measurementQueue` is the Ray queue; `inFlight` the requests accepted by
  actuators. An actuator answers its requests in any order.
- `sent[s]` holds the calls made on actor `s` and not yet executed. It is a set:
  no order is assumed.
- `walk` is where `run()` is. `initialItems` holds what is left of the inner
  loop over the experiments of the entity being submitted in the initial batch;
  `updateQueue`, `batchingQueue`, `finishedRequests`, `experimentsRequested`,
  `entitiesSampled` and `retries` are the variables of the same name in
  `randomwalk.py`. One turn of the continuous batching loop is one action
  (`ProcessUpdate`): it awaits only the sampler, during which no other method
  of the actor touches its state except for appending to the update queue.
- `exhausted` says the sampler's iterator has ended; samplers and filters are
  reduced to the choice between another entity and the end.
- `monitoring` is where the manager's loop is: it can be interrupted at the
  `await` on the queue and on `gather`. Between them it runs to completion, so
  storing and notifying are one action. It is `failed` when `gather` has raised. In `ManagedSpace` the report of a failure (`onError`), which is sent outside of
  any `try` (`discovery_space_manager.py:273`, `291`), may fail to be sent as well:
  `monitoring` is then `unsent`, some subscribers have not been told, and the manager never completes
  (`SendRaises`). `ExploreOperation` and `RayTune` assume that a report can be sent.
- `promiseBroken` says an `onUpdate` call was lost with its actor: `gather`
  will raise.
- `driver` and `exitState` are the place of `orchestrate_explore_operation` and
  the state it wrote to the operation resource.

In `SampleStore`:

- `requestRows`, `result` and `links` are the three tables. A request is known
  by its operation, the order in which it was added, its results and whether it
  is a replay; `result[r]` tells a uid never used (`new`), a result an actuator
  made (`measured`), one with a row (`stored`) and one whose row is gone
  (`deleted`).
- `addMeasurement` is three or more transactions, each an action: the request's
  row (`AddMeasured`, `AddReplayed`), the results' rows (`InsertResults`), the
  links (`LinkResults`, and `LinkReplayed` for a replay, which comes first).
  `stage[o]` is how far operation `o`'s manager is; `failed` stands for the
  `SystemError` that ends its loop, `stopped` for its end between two transactions,
  also by the `TypeError` of a measurement without results (`sql.py:1238`), whose
  row in the table of requests stays.
- `delete_operation` is one transaction, `DeleteOperation`, after a check,
  `DeletionPassesCheck`, that is a plain SELECT and so a step of its own.
- `status[o]` is the last event of the operation's resource (`absent` without a
  resource), `harness[o]` how far the process that runs it is. The resource is
  created and then updated to started, as in the code.
- `exposed` is history: the operations that started between the check of a deletion
  and the deletion, or that ran when one was forced.
- `Copied` are the results that `add_external_entities` put into the table when
  the sample store was made.
- `MySQL` is false for SQLite, which enforces no foreign keys (nothing in the
  code sets `PRAGMA foreign_keys`) and where deletions must be forced.

- `EntityOf[r]` is the entity a result belongs to and `Valid` the results that
  are valid. What a process reads about an operation (its requests, results,
  measured entities, time series, counts) are operators over the tables, each
  from the query of its method; `AnswersAgree` relates them. The filters of the
  counting methods are left out.

Left out: entity rows, which are only inserted; the failure of a transaction for reasons of the database's own, which
leaves the tables as the end of the manager between two transactions does. The
actions assume that a transaction is atomic and that a deletion sees the tables
of one moment, which is what its locks give.

In `SampleStoreCache`:

- `row[r]` is `inserted` between the statement that takes an `insert_id` for
  result `r` and the end of its transaction, then `committed` or `failed`, and `deleted`
  after a deletion. `entityOf` is chosen at the start, which stands for any
  result a process may add.
- `NextInsertId` gives the ids as `database` does. MySQL counts on, whatever
  becomes of a row, and several transactions may be open at a time, so ids are
  committed in any order. SQLite lets one transaction write at a time and
  gives the highest id in the table plus one (the key of `sql.py:306-316` is not
  `AUTOINCREMENT`): after the last rows were deleted, their ids again.
- `late` is history: the results committed under an id that `refresh` had passed.
- `known` are the keys of `_entities`, `attached[e]` what is attached to `e`, and
  `lastInsertId` is `_last_insert_id`.
- `refresh` runs three queries (`LoadEntities` when asked for all entities,
  `FetchResults`, and the missing entities in `AttachResults`); `refreshStage` and
  `fetched` are its local state between them. The other readers run one query
  and work on its rows. Nothing else in the process runs meanwhile.

Left out: what the process itself adds (it puts its own objects into
`_entities`), the conversion of a row to an object, and rows of invalid
results, which no reader attaches.

In `MetaStore`:

- Each action is a transaction, or a group of reads with nothing else between
  them that matters. `resources` and `relations` are the tables, `status` the last
  event of an operation; `results` holds the operations with rows in their
  sample store (module `SampleStore` has the rest).
- `label[c]` is how far a process is that stores resource `Target[c]`: the check
  that it is absent, the insertion, one relation after the other, and for an
  operation its start, its measurements, its output and its end. Two processes
  may store the same space.
- `victim[u]` and `force[u]` are what a user asked to delete, between the checks
  and the transaction; `copy[e]` and `copied[e]` what an editor read and will
  write back.
- `whole` and `edited` are history: what was stored with all its relations, and
  what an editor wrote.

The database is MySQL: it serialises the transactions and enforces foreign keys.

In `Orchestration`:

- There is one thread. Frame 0 is `orchestrate()`, frame `k` the function of the
  `k`-th nested operation with its harness; `top` is the frame that runs and
  `pc[k]` where each is. `exc` is the exception on its way, `exit` what a harness
  wrote or will write.
- `actors[k]` is how far the set-up of explore operation `k` is: the cleaner, the
  actuators, the manager and the operator are created one after the other
  (`_explore_orchestration.py:223-281`), and then the clean-up callback is
  `registered`. Whatever is raised before leaves the actors that are there, and nobody
  cleans them up. `incomplete` are operations whose monitoring an exception has
  ended: their manager never completes.
- A function returns nothing, or an output with an exit state of its choice
  (`ExitStates`), which its harness stores (`_orchestrate_core.py:206-208`, `235`).
  Then the harness sleeps for a second (`returned`): what a signal raises there no
  longer changes an output's state.
- A SIGINT or SIGTERM comes between any two steps. The handler of SIGTERM runs
  the clean-up callbacks in the order of registration (`handling`), then exits.
- `hit` is history: the operations whose clean-up a signal or the database
  interrupted.

In `DiscoverySpace` and `PropertyDomains`: values are integers, with 0 and 1 also
`False` and `True` as in Python. The walk of a sampler is a fixed order (the
sequence of matching entities or of groups of points, in any order when it is
random); between two of its steps other processes store entities. Stored entities
have different values: two of one point, with different ids, are outside of the model. Samplers are the remote ones. A domain whose `values` repeat a
value is not enumerated (a grid visits the value twice).

In `Trim`:

- A row of the table of a space is a point and the number of its measurements,
  because another measurement of the point changes the row's mean. The entity of
  a point has one experiment that yields the target.
- What AutoGluon computes is chosen: the order of the features (hence of the
  table), whether the values of the target are all equal, and whether two windows
  of models are compared as good enough to stop.
- `stage` is where the operator is; `plan`, `sampled` and `measuring` are those of
  the random walk of the phase that runs. `initialSource`, `previousSource` and
  `yieldedRows` are the sampler's variables, `models` a history of what each
  model was trained and tested on.
- Other operations only add measurements to the space; deletions while TRIM runs
  are left out. The store and the sampler of `DiscoverySpace`, which `Trim`
  extends for its points, play no part.

In `RestApi`, `CustomExperiments` and `Experiments`:

- Each service (the API, or a command) has its own actuator, created on first use
  and cached; one that dies stays cached. An execution measures all entities of
  its request in one step: nobody sees partial results, and a death between two
  entities is a death before both.
- A request is posted or submitted under a reference and an id, `Key`. The id is
  the six characters of a uuid and may be one that was used before.
- `stage[c]` is where a client is (next, submit, inline, wait, done, failed). A
  client may give up at any poll (`TimesOut`). An answered request without
  measurements ends it, since `series_representation` raises.
- A restart of the API's replica loses the actuators, the queue and the answers.
- `accepted`, `lost` and `repeated` are history. Deaths and restarts after every
  client has ended are left out.
- Legacy experiments return the labels of their own properties, which may not be
  those of the catalog.

In `RayTune`: a trial is a call of `tune_trainable`, its local variables a record.
The list of ids that the polling loop filters is three in the model: what is
still to be looked at in this turn, what was found not to be finished, and the new
dependent requests. A new turn joins the last two in the order of the code.
Of the manager it uses only what `StoreThenNotify` promises, which `ManagedSpace`
is proved to implement: a stored request is notified once, in any order. The operator executes its
updates in the order in which they were sent, which Ray does not promise for
asyncio actors. Request ids are numbered per trial. In `Stoppers`, what two stoppers compute with
statistics is abstracted to its verdict, which the result carries; a state is
the stopper's own counters and the results it has seen.

In `VllmEnvironments`:

- A method of the environment manager, an asyncio actor, runs up to its next
  `await` in one step. `envQueue` holds, for the events of `environments_queue`,
  the tasks they wake; `waiter` and `downloaded` are
  `DeploymentConflictManager`'s.
- `pc[r]` is where the Ray task of request `r` is: asking for an environment,
  denied, queued, waiting for the download, creating, deploying, benchmarking.
- Whether the cluster's calls and deployments may fail is chosen at the start
  (`faulty`). A deployment is gone from the model when its deletion was asked for;
  Kubernetes deletes it some time after. Services are left out: one that was
  deleted (`env_manager.py:153`) before the deletion of its deployment failed (`:158`)
  makes a later benchmark fail, which is a measurement like any other. What follows
  the benchmark's last attempt (`experiment_executor.py:518-527`) cannot raise: the
  result was validated and what is missing in it is -1. `missed` is
  history: an environment was given back between a task's refusal and its wait.

In `SFTTrainer`, `TokenCache` and `AutoStop`:

- An asyncio task serves a request up to its next `await` in one step. A request
  has one Ray task per machine, its ranks; Ray hands out GPUs of a machine, and
  the bundles of a placement group together.
- A version of the data set stands for its content and its digest. A file open
  for writing is `Torn`. `replaced` is history: the data set changed between a
  task's digest and its tokenization.
- What a point asks for is a record of the parameters that decide between the
  branches of `common.py` (method, GPUs, nodes, batch size, backend, experts).
- Counting tokens may raise (`CountingRaises`), which fails the task; what is raised
  while the cache file is written is caught, and the tokens are used all the same
  (`CachingFails`). `stop_after_seconds` of the warm-up is left out.
- Tasks that are killed die at once; a machine that crashed comes back.

`Faults` selects what may go wrong in a run of `ExploreOperation`: `store` (`addMeasurement` raises),
`refuse` (a call on a subscriber cannot be sent), `submit`
(`measure_or_replay` raises), `crash` (the operator's actor dies), `interrupt`
(SIGINT), `setup` (recording the operation fails before `run()`), `size`
(`run()` refuses the number of entities).

## What is checked

| run | configuration | expected | properties | what it shows |
|---|---|---|---|---|
| Explore | `Explore.cfg` of `MCExploreOperation` | pass | `NoRequestLost`, `FailuresRetried`, `ConcurrencyKept`, `ReturnedMeansDone`, `SuccessMeansStored`, `DriverEnds` | Two experiments of an entity, one with a dependent experiment and one that fails, share its retries, with memoized results, continuous batching and every fault of the environment: every request is accounted for, the concurrency kept, a recorded success has stored all its requests, and the driver gets through its shutdown unless the operator's actor died or the set-up failed. |
| SampleStore | `SampleStore.cfg` of `MCSampleStore` | pass | `AddedIsRead`, `AnswersAgree`, `FailsOnlyByDeletion`, `CheckProtects`, `RefreshIsComplete`, `ImplementsLog`, `NothingForgotten` | Two operations add and replay measurements, transaction by transaction, while users delete, with and without --force: what was added is read whole until its own operation is deleted, and the tables implement MeasurementLog. Then one process loads, refreshes and looks up entities, query by query, on SQLite and on MySQL, while others add, link and delete results: it finds every entity, forgets no result, and misses only those whose ids it had already passed. |
| CacheIsSynced | `CacheIsSynced.cfg` of `MCSampleStore` | violation | `CacheIsSynced` | A refresh that finds nothing new has not always synced the cache: a result may have come under an id that was passed, on SQLite after a deletion and on MySQL when two transactions are open. |
| RestApi | `RestApi.cfg` of `MCRestApi` | pass | `AnswersAreRight`, `AcceptedIsAnswered` | Clients of the REST API and commands run custom experiments one at a time, while a worker or an actor may die or the replica restart: answers are to the client's own request, results were measured on its entity, and no request stays open unless a death lost it. |
| DiscoverySpace | `DiscoverySpace.cfg` of `MCDiscoverySpace` | pass | `SamplesAreMeasurable`, `SampledOnceInGroups`, `NewestIsUnseen`, `BudgetWellSpent` | Every pair of domains for a dimension and for the input of an experiment, then each sampler over an accepted space while the store grows, or TRIM while other operations measure: what is sampled can be measured, everything is sampled once, groups stay together, TRIM samples what is not measured, and what its models have seen of their holdout sets is all but the newest row. |
| FinalModel | `FinalModel.cfg` of `MCDiscoverySpace` | violation | `FinalModelTrained` | TRIM that reaches maxPoints before its models stop improving trains no final model. |
| MetaStore | `MetaStore.cfg` of `MCMetaStore` | pass | `ProvenanceKept`, `RunningIsRecorded`, `ResultsKept` | Clients create, relate, run, edit and delete resources, transaction by transaction: what was created with success keeps what it depends on, and deletions take no results they should not. |
| RayTune | `RayTune.cfg` of `MCRayTune` | pass | `ReportedMeansMeasured`, `SuccessMeansStored`, `StopsWhenDue`, `RunEnds` | Two trials at a time request an experiment and its dependent one, with and without stored results to replay, while the store, a start or a submission may fail and Ray Tune may cut trials short: what is reported was measured, and run() ends. Then each stopper, fed with the results of five trials in turn, wants to stop exactly from the trial on with which its criterion over all of them is met. |
| Growth | `Growth.cfg` of `MCRayTune` | violation | `WorseIsBelowThreshold` | The growth stopper takes a sample that is worse than the one before for growth if it is far enough from the first. |
| Managers | `Managers.cfg` of `MCManagers` | pass | `EnvironmentsKept`, `FirstDownloadAloneIfHealthy`, `CompletedMeansSeen`, `TasksGetOn`, `ImplementsStoreThenNotify`, `ErrorsReported`, `ManagerGoesOn` | The discovery space manager among two operators, one that may refuse calls and one that may crash, stores in order before it notifies, implements StoreThenNotify, stores what is answered, and returns from shutdown() unless an actor died or a report could not be sent. Then three tasks of the vLLM actuator share environments of a bounded pool, on a cluster that may fail: the bound holds, nothing is shared or offered before it is ready, and who waits for an environment or a download is woken. |
| TrainerAndHarness | `TrainerAndHarness.cfg` of `MCTrainerAndHarness` | pass | `MeasurementsAreRight`, `EndIsStored`, `NoSuccessOverException`, `InterruptedIsRelated`, `Answered`, `CleanedUpBeforeRayStops`, `EndsOrWaits` | Pairs of training measurements, on one machine or two that may crash, count tokens into shared cache files: each is answered, by what really happened to it, and reports the tokens of its steps after the warm-up. Then an explore operation called by two nested general ones, with SIGINT, SIGTERM, failures of the database, crashes of the operator and of the monitoring at any step: the end of each operation is stored, the actors of one that was set up are cleaned up before Ray stops, and the process ends, or waits in one place only. |
| OutOfMemory | `OutOfMemory.cfg` of `MCTrainerAndHarness` | violation | `OutOfMemoryIsInvalid` | A training of which one rank runs out of memory is not always invalid: another rank that fails otherwise may be heard first. |

Bounds. Two entities (three where replayed results must accumulate), one or two
experiments with one dependent, at most one retry and at most two
memoized results. One retry and two entities suffice for every guard of
`_processCompletedMeasurement` to be met on both sides, batch sizes 1 and 2 for
the batch to be smaller than and equal to the number of entities, and one
dependent or two for a success to enable as many experiments as the loop can
submit or more. `ManagedSpace` has two subscribers, because the loop treats
each alike and only the presence of another one matters, and three requests, so
that one can be stored, one lost and one left. No counter of the models grows
without bound: requests are bounded by entities, experiments and retries. The
sample store has two operations with two requests each, so that one can replay
what the other measured before or after its deletion, two results of their own
and one copied. Three results of one or two entities and three ids suffice for the
cache: one result attached, one fetched and one still open, two of an entity of which
a reader brings the first only, or an id that is given again on SQLite. The measured
results of the tables are invalid and the copied one is valid, so that entities are
counted by both.
`Explore` has two experiments of which one enables the other dependent one, so
that they compete for a batch of size 1; only the first may have a memoized
result, which is enough for a replay to overtake a measurement. `MetaStore` has
one resource of each kind and a second process that stores the same space, four
deletions (each resource may go, and one of them come back) and one edit.
`Orchestration` nests three operations: the first two general ones, so that an
exception passes a frame that is not the outermost, the last an explore
operation; two signals, because the second strikes what the first started, and two faults, of which one may end the monitoring and another the operator. `Stoppers`
judge five trials, known by their order, with thresholds of two or three, so that
each stops, and does not, before the last one. `RayTune` runs both trials at once
with one memoized result; a third trial or a second memoized result takes TLC
more than the five minutes a run may take here. `DiscoverySpace` takes every pair
of the 53 valid one-dimensional domains over four values, and a space of two
dimensions with groups, up to three stored entities and batches of two; its other
initial states are those of `Trim`, on a line of ten points, where two windows of
models are reached, and on two small planes, where the sampling strategies and the
orders of features differ. Up to two points are measured before; another operation
measures once on the line, and twice on a plane, so that no row may be left to
train on.
`VllmEnvironments` has three requests for two definitions of one model and one,
two or three environments: one to wait in the queue, one to wait for the
download. `SFTTrainer` has two requests on two machines of two GPUs, which do not
fit together when one needs both machines; the two sample runs stand for five,
two attempts to write a cache file for five; one of the two clocks has a slow first step, the other a step of no measurable duration. `MCPoints` lists pairs of points in which each branch of
the code is taken: points of one machine meet a plain one, points of both machines one
that ends at once, and one pair competes for the machines. `RestApi` carries out 22 scenarios, one of
them with two clients that post the same experiment, with one fault and one
retry.

Operations, and the results they measure, are interchangeable in `SampleStore`; this
run uses that symmetry (it checks no liveness), and no other run does. Type invariants that a theorem proves are not run again by TLC.
`CHECK_DEADLOCK FALSE` is set where the system really stops: the operation ends,
the users have deleted what they may, the clients have their answers.

Fairness. `FairSpec` of an operation assumes weak fairness of each actor's event
loop (callbacks, `run()`, the monitoring loop), of the driver, and of the
actuators together: an accepted request is answered some time. The first is
Ray's scheduling; the last is a promise of the actuators, which have no deadline
in `ActuatorBase`: `run()` waits for ever for one that does not answer. No fault
is fair. `ManagerGoesOn` (what is answered is stored, and `shutdown()` returns)
and `DriverEnds` except the death of an operator's actor, `ManagerGoesOn` an
`onError` that cannot be sent, and `DriverEnds` a set-up that fails before the manager's loop is started, for then `shutdown()`
waits for ever.

`RayTune` assumes the same of the manager, the actuators, the operator's
callbacks and of each trial, and that Ray Tune stops the others when one raised.
`Orchestration` assumes that the thread runs (`WF_vars(Step)`): no signal, crash
or failure is fair. The code does not always end: `EndsOrWaits` says that the only
place where the process may stay for ever is the shut-down of an explore operation
whose manager cannot complete, because its monitoring was never started or an
exception has ended it (`discovery_space_manager.py:298`). In `VllmEnvironments` each Ray task
gets on (`WF_vars(Task(r))`): the manager's methods are part of it, and a
deployment that does not fail becomes ready. In `SFTTrainer` only what serves a
request is fair, including its Ray tasks; nothing is assumed to end a training
after another rank failed, no crash is fair and nobody need submit. `RestApi`
has one weak fairness, of everything but the clients' decisions to start and to
give up, and of faults. Where a run lets TLC follow either of two modules, the
fairness is that of the part that runs.

## What is proved

Every theorem holds for all values of the constants under the assumptions named
in the modules: `SampleStoreAssumption` and `SampleStoreCacheAssumption` (types),
`ManagerAssumption` (the error is not a request), `MeasurementsAssumption` (types
of the constants, at least one entity and one independent experiment),
`RandomWalkAssumption` (the batch is no larger than the number of entities, which
`randomwalk.py` validates), `FaultsAssumption`; those of `Orchestration` (only
the innermost operation may be an explore operation, since explore operators call
no other) and of `MetaStore`: types, `SharedAssumption` and `MeasuresAssumption`.
The last two are what the code does: only the identifier of a space is a hash of
its content, every other resource gets a fresh one; a space is related to its
sample store alone and an output to `operation.identifier` alone
(`base.py:388`), and an operation measures into the store of a space it was
given. `CatalogAssumption` and `RestApiAssumption` say what catalogs and users' requests
look like: an experiment has a default for each of its optional properties and
no other (`experiment.py:209-242` refuses it otherwise), each command has an actuator
of its own and all clients of the API share one. `SpacesAssumption` says what
validation leaves: the domains of experiments are valid (`domain.py:371-527`) and
only optional properties are parameterized (`experiment.py:936-941`); those of an
entity space are assumed to be nothing but domains, for the model checks them, of
dimensions with different names.

| theorem | module | property | what it establishes |
|---|---|---|---|
| `InvCorrect` | `ManagedSpaceProofs` |  | The manager's inductive invariant: each request in one place, notified once after it is stored, subscribers informed as long as the manager can send. |
| `CompletedCorrect` | `ManagedSpaceProofs` | `CompletedMeansSeen` | When the manager completes every subscriber has seen every stored request, for any number of subscribers and requests. |
| `ErrorsCorrect` | `ManagedSpaceProofs` | `ErrorsReported` | A failure to store is reported to each live subscriber, unless sending the report itself fails. |
| `Refinement` | `ManagedSpaceProofs` | `ImplementsStoreThenNotify` | The manager implements the abstract specification StoreThenNotify. |
| `MeasurableCorrect` | `ManagedSpaceProofs` | `SamplesAreMeasurable` | Whatever is sampled from a space that was checked when it was created, a point of its grid or an entity of a shared store that grows meanwhile, has a value for every required property, and only values that the experiments accept, for any spaces, domains, experiments and batch sizes. |
| `SampledOnceCorrect` | `ManagedSpaceProofs` | `SampledOnceInGroups` | However the store grows meanwhile, every sampler yields each point or matching entity that is due once, in batches of which only the last is short, and a grouped one keeps groups together, for any sizes of batches and any spaces whose domains repeat no value. |
| `NewestIsUnseenCorrect` | `ManagedSpaceProofs` | `NewestIsUnseen` | Whatever other operations measure in the space meanwhile, every model of TRIM uses all that was known; the first has seen no point of its holdout set and every later one all of them but the newest, under this mean or another; and without other operations the holdout set is the points that were sampled last, for any discrete spaces and any parameters. |
| `BudgetCorrect` | `ManagedSpaceProofs` | `BudgetWellSpent` | TRIM plans each point once and, unless another operation has measured it meanwhile, only points that are not measured, and it ends normally only with enough points, with a final model only after two windows of models and on all that they knew, and without one only when the budget or the plan is used up, for any discrete spaces, any order of the features and any parameters. |
| `TypeCorrect` | `ExploreOperationProofs` |  | Types of the whole operation for any measurement space and any faults, the bounds on retries and sampled entities included. |
| `ReturnedCorrect` | `ExploreOperationProofs` |  | A run() that returns without a critical error has sampled all it could and finished all it requested. |
| `NothingLost` | `ExploreOperationProofs` | `NoRequestLost` | While storing has not failed and the operator is subscribed and alive, its unfinished requests are exactly those with an actuator, on the queue or notified. |
| `SuccessStored` | `ExploreOperationProofs` | `SuccessMeansStored` | An operation recorded as a success that met no critical error has stored every request it made and left none with an actuator. |
| `ReturnedDone` | `ExploreOperationProofs` | `ReturnedMeansDone` | A run() that returns without a critical error has sampled all it could, and every independent experiment of every sampled entity has a stored success or failed with its retries used up. |
| `FailuresAreRetried` | `ExploreOperationProofs` | `FailuresRetried` | Without a critical error the requests stored for each sampled entity are those of its independent experiments, those its successes enabled and one per retry, and a failure went without a retry only once the retries of its index were used up. |
| `BatchingBounded` | `ExploreOperationProofs` |  | With at most one memoized result per experiment, never more requests are outstanding than a full initial batch (ConcurrencyBounded). |
| `BatchingKept` | `ExploreOperationProofs` | `ConcurrencyKept` | If moreover a success enables at most one experiment, run() never waits below the batch level while an experiment is ready. |
| `TypeCorrect` | `SampleStoreProofs` |  | Types of the sample store's tables and of every stage of addMeasurement and of deletions. |
| `AddedIsReadCorrect` | `SampleStoreProofs` | `AddedIsRead` | With foreign keys, what was added is read back whole until its own operation is deleted, whatever others add, replay or delete. |
| `Refinement` | `SampleStoreProofs` | `ImplementsLog` | With foreign keys, the tables implement the abstract log: requests appear whole and leave only with their operation. |
| `FailsOnlyByDeletionCorrect` | `SampleStoreProofs` | `FailsOnlyByDeletion` | Concurrent additions and replays never make each other's transactions fail. |
| `CheckProtectsCorrect` | `SampleStoreProofs` | `CheckProtects` | While an operation runs, no deletion makes a transaction of its own measurements fail, whatever else is deleted and in whatever order, but one that is forced or was checked before the operation started. |
| `AnswersAgreeCorrect` | `SampleStoreProofs` | `AnswersAgree` | With foreign keys and finitely many results, the counts and statistics of a kept operation agree with the requests and results that are read, whatever others add, replay or delete. |
| `CacheTypeCorrect` | `SampleStoreProofs` |  | Types of the cache and of the last id it saw. |
| `EntitiesAreFoundCorrect` | `SampleStoreProofs` |  | refresh finds the entity of every result it attaches, whatever is committed between its queries. |
| `NothingForgottenCorrect` | `SampleStoreProofs` | `NothingForgotten` | No reader drops from a cached entity a result that is still in the table. |
| `RefreshIsCompleteCorrect` | `SampleStoreProofs` | `RefreshIsComplete` | refresh never fails, and everything up to the last id it saw is attached to its entity but what became visible under an id it had passed, which on SQLite takes a deletion; for any results, entities and operations, with the ids as each database gives them. |
| `TypeCorrect` | `MetaStoreProofs` |  | Types of the stored resources, their relations and of every client and user on the way. |
| `ProvenanceKeptCorrect` | `MetaStoreProofs` | `ProvenanceKept` | What a resource was made from stays in the store and related to it, whatever is added, edited or deleted meanwhile, for any resources and processes that share a sample store. |
| `RunningIsRecordedCorrect` | `MetaStoreProofs` | `RunningIsRecorded` | An operation that measures has the stored status started, whatever others store or delete, unless an editor overwrote it or it was deleted. |
| `ResultsKeptCorrect` | `MetaStoreProofs` | `ResultsKept` | A deletion takes no results but those of its own operation, whatever is created and measured between its checks and its transaction. |
| `TypeCorrect` | `OrchestrationProofs` |  | Types of the stack of nested operations, of the signals and of the cluster, for any depth of nesting. |
| `NoSuccessOverExceptionCorrect` | `OrchestrationProofs` | `NoSuccessOverException` | An operation whose nested one raised, whatever and in whichever phase, is not stored as a success, although functions return any exit state they like; for any depth of nesting. |
| `EndIsStoredCorrect` | `OrchestrationProofs` | `EndIsStored` | However an operation ends, its end is stored, but for an exception in the finally of the harness itself; whatever exit state its function returns. |
| `InterruptedIsRelatedCorrect` | `OrchestrationProofs` | `InterruptedIsRelated` | An interrupted nested operation that has ended is related to the one that called it, unless hit again. |
| `CleanedUpCorrect` | `OrchestrationProofs` | `CleanedUpBeforeRayStops` | Unless SIGTERM came or the clean-up was interrupted, Ray is stopped only when the actors of every operation whose set-up was completed have been cleaned up; the set-up may fail between any two actors. |
| `AnswersCorrect` | `RestApiProofs` | `AnswersAreRight` | Whoever runs an experiment without an operation gets the answer to what was asked, measured on the entities asked for with their own, the requested and the default values, for any clients, experiments, requests and deaths. |
| `InductiveInvariant` | `ActuatorProofs` |  | A task holds an environment exactly while it is between being handed one and giving it back, for any number of requests, definitions and environments and whatever fails. |
| `EnvironmentsConsistent` | `ActuatorProofs` | `EnvironmentsKept` | Deployments stay within max_environments and no environment is shared, offered while held, or offered twice. |
| `FirstDownload` | `ActuatorProofs` | `FirstDownloadAloneIfHealthy` | While nothing fails, a model's first download is made by one environment alone, and no task waits for an event nobody will set. |
| `MeasurementsCorrect` | `ActuatorProofs` | `MeasurementsAreRight` | Whatever machines crash, ranks fail, tasks are killed and data sets are replaced, an answer of sfttrainer has the status that what happened calls for, and a measurement reports the steps and the tokens of its training after the warm-up, for any requests, points, machines, clocks and tokens. |
| `InductiveInvariant` | `RayTuneProofs` |  | The requests of a trial are numbered once each, and the counters of tune_trainable agree with its lists and with what the operator has seen, for any measurement space and number of trials and whatever fails. |
| `ReportedMeasured` | `RayTuneProofs` | `ReportedMeansMeasured` | A trial that reports has all answers to the independent experiments and to the dependent ones that each success enables, and nothing of it is still on its way. |
| `SuccessStored` | `RayTuneProofs` | `SuccessMeansStored` | When run() ends as a success every request of every trial that was not cut short was stored and seen by the operator. |
| `StoppersCorrect` | `RayTuneProofs` | `StopsWhenDue` | Each stopper of the ray_tune operator wants to stop from the very trial on with which the code's criterion, stated over the whole history, is met, whatever its settings and the results. |

`ManagedSpaceProofs`. The inductive invariant `Inv` says that a request is in one
place only (with an actuator, on the queue or stored: `OnePlace`), that a
subscriber is called once for a request and only after it is stored
(`NotifiedOnce`), that a
subscriber knows or is about to learn of everything stored while it is subscribed and the
manager can send, unless it died and `gather` will find out (`Informed`), and how the flags relate (`Completion`). `CompletedMeansSeen`
needs `Informed`: once every call has been executed nothing can be missing. The
refinement needs `OnePlace`, without which a request could be seen twice, and
`NotifiedOnce`.

Its second half is about `DiscoverySpace`, the space that is managed. Creation
compares domains and sampling yields values: `SubDomainSound` says that the values
of a subdomain are values of the domain, for each of the kinds of domains and their
half-open ranges and intervals. `SpaceInv` says that whatever is on its way to a
batch (the groups of `walk`, `sample`, `batch`, `yielded`) is in the space that was
checked, and that the indexes a selector still has to visit are those of entities
that match: one that is added later takes no other's place (`MatchingLonger`). That
the points of a grid are in the space is a fact about a product (`PointsTyped`).
`Keep` and `PointsOf` are recursive functions. A recursive function is a `CHOOSE`,
and that there is something to choose has to be proved, which `Iterated` does once;
what holds of all its values then follows by `UpTo`, induction as a fact about sets
(a least counterexample, `WFMin`), which no operator as a parameter is needed for.

`SampledOnceCorrect` rests on `OnceInv`, which accounts for what is due: the points
of the grid, or the first `number` entities of `Pool`, those that match now. While
groups are walked, what was drawn (`Drawn`: the batches, the batch and the rest of
the sample, in one sequence) repeats nothing, and together with the groups that are left
it is what is due, each in one place (`Covers`); no group that is left was begun,
and each that was is in one piece (`Separate`), so a batch may end anywhere. While
slices are taken, what was sampled is the beginning of the pool, and the
indexes that are left are the next up to `number` (`Sliced`): the last slice may reach
beyond it, but not skip or repeat. A random selector's indexes and samples are kept
apart and add up (`Selected`). None of this is disturbed by a longer pool
(`PoolLonger`). The theorem has a hypothesis, `WithoutRepetition`: a domain that
repeats one of its `values`, which no validator refuses, is visited as often on a
grid. TLC evaluates it for the spaces of the run.

The last part is about `Trim`, with the same hypothesis on its spaces, of which
`TrimAssumption` says that they can be listed: valid domains with finitely many
values, and no two dimensions of one name. Two invariants of the run, `NewestIsUnseen`
and `BudgetWellSpent`, are proved together, by `TrimInv`, because the budget is well
spent only if the plan is made of new points, and the holdout set of a model is the points that
were sampled last only if the sampler has not missed one. `NewestIsUnseen` says how much of
its holdout set a model has not seen, exactly: the first model none of its points, each
later one all of them but the newest. First the operators. A table has
all the points of the space, each once, in whatever order the features are (`SortedIs`,
from `PointsInjective` and `GridRange`). `NextIndex` takes a free index as long as there is
one: of finitely many fractions one is the least (`LeastFraction`), in every
neighbourhood (`LeastDense`). So `IndexList` repeats no index, whether it ends early, by the ends
of the segment or by the loop (`IndexListTyped`), and `Plans` are of points that are not measured,
each once (`PlansAre`). Then the steps. `Remembered` is what makes a comparison of two tables
enough, in spite of other operations: counts only grow, so a row that was read and is gone
does not come back, and what was known first and still is was known in the
previous step too. From it and from there being one row for each point (`SourceIs`) follows
all that `NewestIsUnseen` says under interference. `Alone` is what holds as long as nobody else
measures: the table is what it was at the start and one row for each sampled point, the
last of them perhaps still missing, and the ring (`IsWindow`) holds the last `K` rows before it.
`Iterating` counts the models by the entities that were sampled, so that at `3 * K - 1`
there are two windows of them. TLC has checked `TrimInv` on the instance of the run.

`ExploreOperationProofs`. `TypeOK` is inductive by itself. `ReturnedMeansSampled`
is not: `WalkInv` adds why `run()` does not stop early. The initial batch
submits before it counts, and each turn of the loop submits one request for the
one it finishes, unless nothing is queued and no entity is left.

`NoRequestLost`, `SuccessMeansStored` and `ReturnedMeansDone` rest on
`RequestsInv`, which counts. The requests with an actuator, on the queue and
stored have numbers of their own up to `experimentsRequested` (`Numbered`), and
they are all there are unless storing has failed (`HandedOn`). What the operator
has finished plus what it was notified of and has not finished yet is at most
what is stored, and all of it while the operator is subscribed and alive
(`PassedOn`). Hence `run()` can reach the equality of its counters only if
nothing was dropped on the way. `FollowUp` says of every independent experiment
of a sampled entity that it is queued, requested, settled (a success is stored,
or a failure with no retries left), or that a request was dropped (`Dropped`), in
which case the counters never meet again. The cardinalities are those of the sets `inFlight` and
`Notified`, which each step changes by at most one element.

`ConcurrencyKept` has two halves. `LevelInv` compares the outstanding requests
with the batch level: below it during the initial batch, by what is not
submitted yet, and never above it afterwards, since a turn of the loop finishes
one request before it submits one. This needs that a submission creates one request
(`MaxMemoized <= 1`, for a replay creates one per result): the known exception
below. `LowerLevelInv` needs that a success enables at most one experiment, the
second known exception.

`FailuresRetried` is the end of an account that is kept for every entity
(`Balanced`): the requests that were made for it, those its queued items will make,
and those that successes the operator was notified of will enable are those due
since the entity was sampled, those that its stored successes enable, and its retries.
Storing a success adds the same to both sides; processing it turns what it enables
into items, and submitting an item turns those into requests. A failure waits to use
its retry in the same way (`RetriesUsed`), and that its retry is one request needs
that only what has no result to replay is measured (`Measures`). `Total`, the sum of
a function over a finite set, is defined as a cardinality and not as a fold: what a
fold is after a step would need induction. A request that is dropped leaves the
account, so `Accounts` speaks of runs that dropped none; by the argument above
a `run()` that returns without a critical error is one of those.

`SampleStoreProofs`. `AddedIsRead` and the refinement rest on `LogInv`, and both
assume foreign keys (`MySQL`): a link joins rows that are there
(`LinksJoinRows`), a request of an operation that was not deleted has all of its
links or none (`WholeOrNothing`), and the last request of a manager that
returned has them (`AddedIsLinked`). The deletion of another operation leaves
this alone because it removes links by result: a result with a link to a
request of a kept operation is shared, so all links to it stay.
`AnswersAgree` needs `CountsInv` besides: of an operation's requests only the one
that was added last can be without links, since the manager adds another only
after it linked that one, and a deletion takes every request without links. The
statistics count rows and compare two counts; that these are equal only when the
sets are needs finitely many results.
`FailsOnlyByDeletion` needs `UndisturbedInv`, what holds as long as nothing was
deleted: the rows a transaction refers to are there, and no two managers insert
the same result. `CheckProtects` rests on `ProtectedInv`, which speaks of an operation that runs and was not exposed:
no deletion has passed its check, since the check sees every operation that has
started (`RunningInv`) and none started after it; hence the request and the results that its
transactions refer to are still there (`MeasuringInv` says of which results they
are). The theorem is about the measurements of the operation itself: a replayed
result may have gone before the operation began.

Its second half is about `SampleStoreCache`. That refresh finds the entity of each result
(`EntitiesAreFound`) rests on the order of writers
(`EntitiesFirst`: a row of a result, also one not yet committed, has its
entity's row). `NothingForgotten` needs that results are attached to their own
entity, for a reader that replaces an entity brings back only what the table
has for it. `RefreshIsComplete` says of both databases what refresh misses: only what came `late`, under
an id it had passed (`FetchedAll`: what it fetched is all there was between the ids),
and on SQLite nothing does before a deletion (`OneWriter`: the row that is being
inserted has the highest id, and the last id refresh has seen is that of a row).
No order of commits and no fresh ids are assumed; the run `CacheIsSynced`
shows that results do come late. That the last id exists is
`WFMin` of the library (a set of naturals has a least member).

`RestApiProofs`. `AnswersAreRight` has two halves. That results are of the entity
is a fact about every outcome `Measurements` allows (`DoneIsOfTheEntity`): each
entity of a request has its own result, which was computed from the point the function
was given. Then nothing on the way may alter a request (`RestTypeOK`: what is queued,
kept or answered is `Done`). That a client gets its own answer needs to know where
a request can be: an execution that runs inline belongs to the client that called
`submit`, one at a time (`Inlined`); whatever is queued, kept, executed or waited for
was accepted (`Traced`); and a command, which takes whatever is first on its queue, has
one request at a time, in execution or on the queue, unless its actuator died or
an answered execution was repeated (`OneAtATime`, with `DeadIsIdle`). `FlattenSingles`
says what `FlattenSeq` of the community modules does with the results of
several entities; as it is defined by recursion, the lemma is proved by a least index
at which it would be wrong.

`MetaStoreProofs`. The invariant `IInv` adds to the properties what a process
must not have lost on its way: a process that is storing relations has stored
them in the order of `Parents` (`RelatingInOrder`), a resource that was not
inserted has none (`NothingRelated`), and an editor's copy has a status
(`CopyHasStatus`). `ProvenanceKept` follows since a deletion checks, in the
transaction that deletes, that nothing depends on its victim, and foreign keys
refuse a relation to what is gone. `SharedAssumption` is needed: with two
relations, one of two processes that store the same space could report success
after the other's first relation only.

`OrchestrationProofs`. `FramesOK` says that the frames above `top` are idle or
done and those below wait in `run`; it makes every step touch one frame.
`StoreOK` relates what is stored to how far a harness is, `SignalsOK` the
callbacks to the operations that registered them, `ClusterOK` actors and
monitoring to Ray, and `Succeeds`, `Stores`, `Relates`, `RayStops` and `CleansUp`
strengthen the properties by the places in between. Exit states are what functions choose,
so `Succeeds` follows an exception and not a status: as long as a function may
still return a success, what it called has not raised. `CleansUp` is about operations whose set-up got
as far as the registration of the callback; the actors of a set-up that was interrupted are
left, as in the code. Nesting may be of any depth.

`ActuatorProofs`. The first half is about `VllmEnvironments`, where `EnvironmentsKept` is the
property and `IInv` its invariant. It gives every label of a task its meaning: the
task holds an environment exactly while its label is in `Holding`, held
environments are in use and no two tasks share one (`Slots`), a free environment
is ready and has no holder, and the waiting queue holds each waiting task once. The
number of deployments is bounded because `in_use` and `free` together are
(`DeploymentsBounded`). A count of the attempts that are left is part of the
types. `FirstDownloadAloneIfHealthy` needs `HealthyInv` besides: while nothing
fails, the environment that downloads a model is the one recorded as the model's
waiter (`DownloadsInTurn`), and once a model is downloaded nobody is recorded any
more (`NoWaiterAfterDownload`). That an environment is found when one
matches is the well-foundedness of the naturals.

`RayTuneProofs`. Both properties are about counters: a trial reports when
`completedRequests` has reached `submittedExperiments`. `Counted` says that the
difference is the length of the trial's three lists, so that they are empty then,
and `OpenOrSeen` that every number up to `submittedExperiments` is on a list or is
that of a request the operator has seen: a trial that reports has seen them all.
That they are the right ones is `IndependentRequested` and `DependentRequested`:
each independent experiment is due or has a number, and each experiment has as many
numbers as successes that enable it were collected, but for one that is due.
Both speak of numbers (`Numbers`) and not of requests because a request that could
not be stored is gone and its number stays. `Numbered` makes the two the same for
what was seen: a number is given once and its request is in one place. Nothing is
assumed but what the constants are.

Its second half is about `Stoppers`. A stopper keeps a few numbers, and the
criterion it is to apply, the code's and not the documentation's (see below), speaks of all samples so far, so `StopperInv` says what each
number counts: the `SimpleStopper`'s `patience` is what is left of `BufferStates`
after the trials that did not improve on the best metric (`LastAndBest`), the
`GrowthStopper`'s after those that did not grow, and the two counters of the
`InformationGainStopper` are the number of calculations in a row, up to the last,
that had a verdict (`InARow`). The sets are written so that a new sample adds one
element or none, and cardinalities follow (`OneMore`). The run of
`Stoppers` reaches five trials; the theorem holds for any number of them and any settings.

Its second half is about `SFTTrainer`, with `TokenCache` and `AutoStop`. `TrainerInv` is
the types, what the cache may hold (`TokensOK`) and one predicate for each request
(`RequestOK`): a step changes the state of one request, and `StepOfOne` says that the
others stay as they are; a crash alone strikes several. `CounterOK` says what a task that
counts knows: the tokens it holds are those of the content its file is named after, unless
the data set was replaced meanwhile. `CausesOK` says why a task has ended, so that the
exception that is raised decides the right status: an `oom` in memory is among the causes, an
`indivisible` is in the point, and nothing else makes a task `failed` than what is
recorded as something else. `MeasuredOK` says that the metrics of rank 1 are those of the
clocks once it has trained. Three lemmas carry the arithmetic. `GatheredIsEnough`: the
index that the code searches in the cumulated durations is the number of steps of the
documented warm-up. `TokensAreCounted`: the tokens of whole repetitions and of the rest of a
data set are the sum over its samples, one after the other. `StepsTakeBatches`: what a step
takes on all GPUs of all machines is the batch, which needs the remainders that a valid
point has none of. `TrainerAssumption` says that there are finitely many machines, that a
sample is run at least once, and that a clock measures every step there may be;
`TokensAssumption`, that no tokenized data set is empty or looks like a file that is absent
or torn.

Only model-checked: liveness, which is out of the prover's reach. How many points a plan of
TRIM holds is what its recursive functions compute, and no theorem speaks of it.

## Where documentation and code differ

- **CacheIsSynced** (`orchestrator/core/samplestore/sql.py:538`, run `CacheIsSynced`). refresh() "efficiently syncs the local cache with the database" (src/orchestrator/core/samplestore/sql.py:588), its example another process that adds measurements. The code asks for insert_id > the last it has seen, and a result may become visible under an id that was passed: MySQL gives ids when rows are inserted and transactions commit in any order; the plain integer key of SQLite (sql.py:306-316, not AUTOINCREMENT) gives the highest ids again after a deletion. Such a result is not in the cache until it is loaded anew or another reader fetches it.
- **FinalModelTrained** (`plugins/operators/trim/src/trim/trim_sampler.py:135`, run `FinalModel`). "When the stopping criterion is met (or `samplingBudget.maxPoints` is reached): Trains one final, high-quality AutoGluon model" (src/website/docs/operators/trim.md:148). The code trains it when the criterion is met, or when the loop meets an empty batch, which it never does; when the budget is spent the loop just ends, with no final model.
- **WorseIsBelowThreshold** (`plugins/operators/ray_tune/ado_ray_tune/stoppers.py:153`, run `Growth`). "if the metric value gets worse on a step, i.e. negative improvement, it is considered to be below the threshold" (src/website/docs/operators/optimisation-with-ray-tune.md:745). The code takes the absolute difference from the first trial: a worse sample that is far from the first one counts as growth, so that more than grace_trials samples may have become worse without a stop.
- **OutOfMemoryIsInvalid** (`plugins/actuators/sfttrainer/ado_actuators/sfttrainer/actuators.py:981`, run `OutOfMemory`). "The run raises a `torch.cuda.OutOfMemoryError` (considered invalid due to GPU memory exhaustion)" (src/website/docs/actuators/sft-trainer.md:1696). gather() raises what the first rank to fail raised, and the error for lack of memory is looked for among the processes of that rank alone: a run of which one rank is out of memory and another fails otherwise, as it may because of the first, may be marked failed and be measured again.

Each of these has a run in which TLC finds the documented property violated by what
the code does. The following were seen while modelling and have no run; where a
model follows the code into one of them, its properties say what remains true.

Operations, stores and orchestration:

- `entities_in_operation` attaches only the first of an entity's joined rows
  (`sql.py:835-837` skips an entity that is cached, also one it has cached
  itself), so its entities may lack results of the operation.
- After any other reader has cached some entities, `entities` no longer loads
  the rest: it returns what is cached (`sql.py:441`).
- The safeguard of a deletion looks at the status in the metastore, and the
  harness stores the final status (`_orchestrate_core.py:240`) before the
  manager is shut down: a deletion can pass its check while a measurement of
  another operation is half added, and then deletes its unlinked rows.
- Replayed results are processed as finished experiments and each submits
  another one (`randomwalk.py:735`), so more experiments can be in flight than
  the bound `randomwalk.py:593` prints.
- A success that enables two dependents submits one of them; with fewer
  requests outstanding than the batch level the other waits although there is
  room (`ConcurrencyKept` is checked with at most one dependent per result).
- After `onError`, `run()` returns `None` as it does after a normal end, and the
  operation is recorded as a SUCCESS (`_orchestrate_core.py:197-204`).
- Requests of deleted operations count when `delete_operation` asks whether a
  result is shared (`sqlstore.py:1391`): two operations with a common result
  keep each other's requests, also after both were deleted.
- `updateResource` is an upsert (`sqlstore.py:1130`), though its docstring
  (lines 1114-1115) says that it raises for a resource that is not stored: an
  operation deleted between its creation and its start is stored again, without
  its relation to a space, and `ado edit` brings back what was deleted while the
  editor was open.
- `create_operation_and_add_to_metastore` takes every `ValueError` to mean that
  the operation is stored already (`base.py:478-479`); it is also raised when the
  space has been deleted. The operation then runs and is stored without relations.
- `saveSpace` expects the `ValueError` of a space that is there already, and not
  the error of the database when another process stores it at the same time.
- `ado delete datacontainer` calls `delete_discovery_space`
  (`cli/resources/data_container/delete.py:55`): only the relations go.
- The retries of an entity's experiments share one budget, since the tracker is
  keyed by `requestIndex` (`randomwalk.py:801-808`), which is the number of the
  entity; `website/docs/operators/random-walk.md:496` promises N to each.
- `shutdown()` does not drain the measurement queue: after a SIGINT answered
  requests are not stored, although `_explore_orchestration.py:67` says that it
  "should not return until the metric server has processed all updates".
- `delete_operation` deletes every result without a link (`sqlstore.py:1404`),
  also those copied from another sample store that no operation has replayed.
- The comment in `sql.py:987-989`, "We will try to add the results again", is
  about results that a deletion took between the replay and its links: the
  attempt inserts nothing, and the manager's loop ends.
- `measurement_results_count_for_operation` with a filter on the status refers to
  a column that the links do not have (`sql.py:1370-1372`), and
  `containsEntityWithIdentifier` binds the name of the table as a value
  (`sql.py:889-899`). Nothing uses either.
- The `InconsistencyError` that `storedEntitiesWithConstitutivePropertyValues`
  documents for several entities at one point is raised only when they have the
  same identifier.
- An operator's actor that dies with an `onUpdate` not executed makes `gather`
  raise; the loop only logs it, `iscompleted` is never set and `shutdown()` sleeps
  for ever (`discovery_space_manager.py:298`, `_explore_orchestration.py:73`),
  against the comment at `discovery_space_manager.py:338`.
- The handler of SIGTERM runs the callbacks in the order of registration, so Ray
  is stopped before the actors are cleaned up (`_cleanup.py:36`, `orchestrate.py:146`,
  `_explore_orchestration.py:288`), and the deployments that
  `website/docs/actuators/vllm_performance.md:459` promises to delete may stay
  (`creating-actuator-classes.md:629` promises the same of every actuator). `CleanedUpBeforeRayStops` excepts SIGTERM.
- `isConsistent` (`measurementspace.py:298`) accepts spaces whose dependent
  experiments never run: `experimentProvidesRequirements` (`experiment.py:480`)
  wants one experiment to provide every required input. With only a parameterized
  variant the dependents are submitted, and `propertyValuesFromEntity`
  (`experiment.py:659`), which looks for the exact identifier, raises.
- On SQLite foreign keys are not enforced, and `addMeasurement` learns from their
  violation that a replayed result is gone (`sql.py:982`): it is not added again.
- `except Exception` in `delete_operation` (`sqlstore.py:1443`) hides
  `RunningOperationsPreventingDeletionError` from the command line, whose hint
  about `--force` is never shown.

Domains and samplers:

- `isSubDomain` raises (`min(None)`) for several combinations of unbounded
  discrete and continuous domains, and refuses true subdomains whose interval is
  not a multiple of the other's.
- Repeated `values` of a domain are sampled twice.
- `_sequential_group_iterator` clears the very list it has yielded
  (`batch.clear()`), so a consumer must be done with a batch before it asks for
  the next one.
- `isPointCompatibleWithSpace` (`entityspace.py:299`) takes the values 0 and
  `False` for missing ones; only tests use it.
- `ray_tune` converts a domain with an interval to `qrandint`, which includes the
  upper bound (`operator.py:683-694`); `domainRange` excludes it.

ray_tune:

- A NaN is never below the threshold of the `GrowthStopper`, though
  `optimisation-with-ray-tune.md:747` includes such samples, and with a NaN as the first
  sample it never stops. `stop_on_repeat` of the `SimpleStopper` compares with the
  trial just before only, where line 727 has any repeat stop it. `StopsWhenDue` follows the
  code in both.
- The `InformationGainStopper` deletes `result["config"]`, so that a
  `SimpleStopper` after it in a combined stopper raises `KeyError`.
- `get_best_result` raises when nothing but NaN was reported: the operation is an
  ERROR instead of a FAIL.
- "The dependent experiment will not execute more than once", says a comment in
  `operator.py`; with several memoized results of the enabling experiment it is
  requested once for each.

TRIM (`plugins/operators/trim/src/trim`):

- The samples without priors may contain points that are measured, as they are
  combined from the values of unmeasured points, and those of `clhs` may contain
  a point twice, although `no_priors_utils.py:366-370` excludes it. Fewer new
  points result than planned, `minPoints` is not reached, against `trim.md`
  ("Samples until minPoints is reached"), and an `InsufficientDataError` follows.
- `get_index_list_van_der_corput` counts the indexes already sampled among those
  to sample: iterative modelling plans at most as many points as the unmeasured
  exceed the measured, not "all unmeasured points" as in `trim.md`.
- Nor is a final model made when the plan is at its end.
- From the second model on, the training set contains all of the holdout set but
  its newest row (`NewestIsUnseen`), where `trim.md:556` has the holdout set "evaluate
  model generalization without overfitting".
- An operation that measures in the same space makes TRIM raise, since it expects
  one new row; another measurement of a known point counts as that row.
- After the phase without priors the budget of the iterations is the number of
  points that phase has added, and not `maxPoints`. The last entity measured is
  never looked at.

vLLM performance actuator:

- After the first download of a model failed, a task that was woken and one that
  had its environment but had not begun to wait may download at the same time,
  since the latter finds no waiter (`deployment_management.py:36`); `env_manager.py:247-248` promises
  that the first download is alone. `FirstDownloadAlone` of `VllmEnvironments`
  does not hold on a cluster that fails.
- A task that is refused an environment while the last one is given back misses
  the signal (`experiment_executor.py:158`); and a task that asks just when
  another one is woken is served first, so the queue is not the FIFO order that
  `website/docs/actuators/vllm_performance.md:411-414` describes.
- `ordered_pip`: an `RLock` held across awaits excludes no other coroutine of the
  loop, the patch of `create_or_get_virtualenv` is taken back by another
  environment's phase 0, `anyio.Path.exists()` that is not awaited is always
  true, and `modify_context` calls `asyncio.run` inside a running loop.

sfttrainer:

- With invalid actuator parameters `typed_parameters` is never assigned
  (`actuators.py:587`); the `AttributeError` reaches a handler that reads
  `exp.reference` while `exp` is `None`. The task dies and the request is never
  answered: `Answered` excepts this case.
- The file name of a data set's cache is itself cached per process
  (`@functools.cache`, `finetune.py:917`), hence stale in a worker that is used
  again; a data set replaced between its digest and its tokenization leaves
  another content's tokens in the cache for good (`replaced`).
- The path that "will mark it as failed" (`actuators.py`, near line 1345) cannot:
  `ValidMeasurementResult(measurements=[])` raises before (`result.py:195`).
- `report_nccl_error` is never called. The documented condition
  "gpu_model missing or empty" is not checked, and `number_nodes` 0 divides by
  zero. `self.extra.copy()` is shallow: `resources` is divided again for each
  further node.
- `has_gathered_enough_samples` documents the index -1, and returns the index;
  `stop_after_seconds=0` stops at once, but `> 0.0` decides whether metrics are
  dropped. With `distributed_backend` "None" on several machines each trains
  alone and the tokens are counted for all. A cancelled training kills the Ray
  worker, whose `accelerate` child may outlive it.
- The docs say that failed runs are not persisted; their requests are, with an
  `InvalidMeasurementResult`.

Custom experiments, REST API and registry:

- `catalogForActuatorIdentifier` reads the configuration from
  `catalogIdentifierMap` (`registry.py:337`): a required configuration is never
  found.
- Ids of requests are six characters of a uuid (`custom_experiments.py:757`) and
  key the API's answers. `queue.py` says that all requests are kept; only
  answered ones are.
- A legacy experiment that returns nothing, or other labels, for one of several
  entities makes the assignment of `measurements` raise outside the `try`: the
  request is never answered.
- A request that FAILED without measurements makes `series_representation`
  (`request.py:283`) raise in `run_experiment`; a remote execution drops the
  parameterization of a reference; a local command waits in `queue.get()` for ever
  for a request that a death lost. The handle of an actuator that died stays in
  `ActuatorDictionaryActor`.
- A parameterized experiment on an entity that has a value of its own for that
  property runs with the entity's value and is labelled with the
  parameterization: `ResultsAreOfTheEntity` says what remains.
- Ray runs a task again whose worker died, also when it had answered: a local
  command may read the second answer to an earlier request (`repeated`).

## What is not modelled

- measurement requests, memoization and the measurement queue: measure_or_replay, replay, the replay actuator and the mock actuator as the model of an actuator; what a request accepts as its measurements and the status they give it; that measurements are not set twice is not modelled.
- SIGTERM handling and clean-up callbacks: The handler and its callbacks; the resource cleaner is the point at which actors count as cleaned up, its list and its 60 seconds are left out.
- sample store: The tables of requests, results and links with the transactions of addMeasurement, add_external_entities as the initial state, and the reading of an operation's requests; the cache of entities in a process that reads while others write. Migrations between sample stores are not modelled.
- discovery space: Creation with its checks, the entities of the store that match, and the entity for a point; tables, summaries and the time series of operations only read.
- resource metastore: Resources and relations of every kind with adding, relating, upserting, editing, and the deletions with their checks; the queries that only read, and what an upgrade does to a document, are not modelled.
- measurement space and experiments: The consistency of a measurement space and its compatibility with an entity space, the inputs of an experiment taken from an entity and its parameterization, and their validation; representations and virtual properties are not modelled.
- vLLM performance actuator: The environment manager, the conflict manager and the task of a request with its waits, attempts and clean-up; the YAML of deployments, the benchmarks and their results are not modelled.
- sfttrainer actuator: The task of a request, its placement on machines, the launch, errors and automatic stop of the training, and the counting of tokens; the catalog of experiments, the packages and versions, the command line and the extraction of metrics are not modelled.
- ray_tune operator: run(), the trials and the stoppers; the statistics of stoppers, the check of metrics and points before a run starts, virtual metrics, the Latin hypercube sampler and the search itself, which belongs to Ray Tune, are not modelled.
- other plugins: Sequential data analysis and examples.
- ordered pip runtime environments: Planned if time allows: reference-counted virtual environments.
- registries, catalogs and custom experiments: The lookup of an experiment, submit() and the executor of custom experiments; the discovery of plugins at import time and the definition of experiments by the decorator are not modelled.
- schema of properties, domains and entity spaces: Domains of properties, their values and which is a subdomain of which; the validation of other documents is not modelled.
- legacy migrators: Document rewriting, one document at a time.
- command line: Argument parsing and output; it calls the components above.
- documentation, tests, examples and build files: Not part of the running program.

## Plan

Done: the operations, the manager, the stores, the orchestration, the samplers,
single experiments, and the two plugins for actuators and the one for operators
that have concurrency of their own. Left, in this order:

1. `ordered_pip`: the phases of two environments that are built at the same time.
2. The migrators of resources, as functions over bounded inputs, and the command
   line's deletion of several resources.
