-------------------------- MODULE VllmEnvironments --------------------------
(***************************************************************************)
(* The environments of the vLLM performance actuator: the EnvironmentManager *)
(* (an asyncio Ray actor, env_manager.py), its DeploymentConflictManager    *)
(* (deployment_management.py) and the Ray tasks that run experiments on the *)
(* environments it hands out (experiment_executor.py).                      *)
(*                                                                         *)
(* A call of the manager runs up to its next await in one step.  Calls of   *)
(* one task reach the manager in the order they are made, and a call nobody *)
(* waits for (done_creating, done_using) is part of the step of its caller. *)
(* A deployment stands for the deployment and its service.                  *)
(***************************************************************************)
EXTENDS Naturals, FiniteSets, Sequences, SequencesExt

CONSTANTS
  Requests,          \* measurement requests, one Ray task each
  Definitions,       \* environment definitions (the configuration JSON)
  Models,            \* language models
  Entities,          \* Entities[r]: the definitions the entities of r need
  ModelOf,           \* ModelOf[d]: the model definition d deploys
  Names,             \* bound: k8s names, more than are ever in use at once
  MaxEnvironments,   \* values of the actuator parameter max_environments
  Attempts,          \* attempts to create an environment
  None

ASSUME EntitiesAssumption == Entities \in [Requests -> Seq(Definitions) \ {<<>>}]
ASSUME ModelAssumption == ModelOf \in [Definitions -> Models]
ASSUME MaxAssumption == MaxEnvironments \subseteq Nat \ {0}
ASSUME AttemptsAssumption == Attempts \in Nat \ {0}
ASSUME NoneAssumption == None \notin Names \cup Definitions

VARIABLES
  \* the manager
  max_concurrent,    \* its bound on environments
  in_use,            \* names of in_use_environments
  free,              \* names of free_environments, in order
  configuration,     \* definition of every environment, None when there is none
  ready,             \* environments whose state is READY
  envQueue,          \* environments_queue: the task each event wakes
  \* the conflict manager
  waiter,            \* deployments_to_wait_for: name of the deployment, or None
  downloaded,        \* model_already_downloaded
  \* the cluster
  faulty,            \* whether the Kubernetes API and deployments may fail
  deployments,       \* deployments created and not asked to be deleted, which
                     \* Kubernetes does some time after it is asked
  cleaned,           \* whether cleanup() was called
  \* the tasks
  pc,                \* what a task does next
  env,               \* the environment a task was given, or None
  waitFor,           \* the deployment whose download a task waits for
  attempt,           \* failed attempts to create the environment
  results,           \* number of entities with a result, measured or failed
  missed             \* history: an environment was given back between the
                     \* refusal of a task and its call of wait_for_env

manager == <<max_concurrent, in_use, free, configuration, ready, envQueue>>
conflicts == <<waiter, downloaded>>
cluster == <<faulty, deployments, cleaned>>
tasks == <<pc, env, waitFor, attempt, results, missed>>
vllmVars == <<manager, conflicts, cluster, tasks>>

Labels == {"get", "denied", "queued", "start", "waitModel", "woken", "lost",
           "create", "deploying", "failed", "bench", "done"}

VllmInit ==
  /\ max_concurrent \in MaxEnvironments
  /\ in_use = {} /\ free = <<>> /\ ready = {} /\ envQueue = <<>>
  /\ configuration = [n \in Names |-> None]
  /\ waiter = [m \in Models |-> None] /\ downloaded = {}
  /\ faulty \in BOOLEAN /\ deployments = {} /\ cleaned = FALSE
  /\ pc = [r \in Requests |-> "get"]
  /\ env = [r \in Requests |-> None]
  /\ waitFor = [r \in Requests |-> None]
  /\ attempt = [r \in Requests |-> 0]
  /\ results = [r \in Requests |-> 0]
  /\ missed = [r \in Requests |-> FALSE]

Tracked == in_use \cup Range(free)
ActiveEnvironments == Cardinality(in_use) + Len(free)

Definition(r) == Entities[r][results[r] + 1]
Model(r) == ModelOf[Definition(r)]

-----------------------------------------------------------------------------
(* Parts of the manager's methods.                                          *)

\* get_matching_free_environment: the first free environment of a definition.
Matching(d) == {i \in DOMAIN free : configuration[free[i]] = d}
FirstMatch(d) == CHOOSE i \in Matching(d) : \A j \in Matching(d) : i <= j

\* What is left of the free environments when that one is taken.
\* Mutant: it stays among them.
StaysFree(i) == free
FreeWithout(i) == RemoveAt(free, i)

\* A new environment gets a name of its own.
Unused == Names \ (Tracked \cup deployments \cup Range(waiter))
NewName == CHOOSE n \in Unused : TRUE

\* DeploymentConflictManager.maybe_add_deployment.
\* Mutant: a deployment is added although another one downloads.
AddableAgain(m) == m \notin downloaded
Addable(m) == m \notin downloaded /\ waiter[m] = None
WaiterAfterAdding(m, n) ==
  IF Addable(m) THEN [waiter EXCEPT ![m] = n] ELSE waiter

\* DeploymentConflictManager.signal pops the waiter of the model and wakes
\* whoever waits for it.  If the waiter is another deployment's it raises
\* ValueError instead, and the event that was popped is never set.
\* Mutant: the event is not set when the download succeeded.
LabelsAfterError(m, n, labels) ==
  [r \in Requests |->
     IF labels[r] = "waitModel" /\ Model(r) = m /\ waitFor[r] = waiter[m]
     THEN IF waiter[m] = n /\ n \notin deployments THEN "woken" ELSE "lost"
     ELSE labels[r]]
LabelsAfterSignal(m, n, labels) ==
  [r \in Requests |->
     IF labels[r] = "waitModel" /\ Model(r) = m /\ waitFor[r] = waiter[m]
     THEN IF waiter[m] = n THEN "woken" ELSE "lost"
     ELSE labels[r]]

\* EnvironmentsQueue.signal_next wakes the first in the queue, if any.
SignalNext(labels) ==
  /\ envQueue' = IF envQueue = <<>> THEN envQueue ELSE Tail(envQueue)
  /\ pc' = IF envQueue = <<>> THEN labels ELSE [labels EXCEPT ![Head(envQueue)] = "get"]
  /\ missed' = [r \in Requests |-> missed[r] \/ pc[r] = "denied"]

\* The task of r goes on to the next entity, or puts its request on the
\* measurement queue.
NextLabel(r) == IF results[r] + 1 < Len(Entities[r]) THEN "get" ELSE "done"
Record(r) == results' = [results EXCEPT ![r] = @ + 1]

-----------------------------------------------------------------------------
(* get_environment, called by the task of request r.                        *)

\* Environment n is handed to r.
HandOut(r, n) ==
  /\ in_use' = in_use \cup {n}
  /\ waiter' = WaiterAfterAdding(Model(r), n)
  /\ env' = [env EXCEPT ![r] = n]
  /\ attempt' = [attempt EXCEPT ![r] = 0]
  /\ UNCHANGED <<max_concurrent, envQueue, downloaded, faulty, cleaned, waitFor,
                 results, missed>>

\* A free environment of the same definition is used again.
GetMatching(r) ==
  /\ pc[r] = "get" /\ Matching(Definition(r)) # {}
  /\ LET i == FirstMatch(Definition(r)) IN
       /\ free' = FreeWithout(i)
       /\ HandOut(r, free[i])
       /\ pc' = [pc EXCEPT ![r] = IF free[i] \in ready THEN "bench" ELSE "start"]
  /\ UNCHANGED <<configuration, ready, deployments>>

\* There is room for another environment.
GetNew(r) ==
  /\ pc[r] = "get" /\ Matching(Definition(r)) = {}
  /\ ActiveEnvironments < max_concurrent
  /\ Unused # {}
  /\ HandOut(r, NewName)
  /\ configuration' = [configuration EXCEPT ![NewName] = Definition(r)]
  /\ pc' = [pc EXCEPT ![r] = "start"]
  /\ UNCHANGED <<free, ready, deployments>>

\* What is left of the cluster when environment n is deleted.
\* Mutant: only the environment is, not its deployment.
DeploymentsKept(n) == deployments
DeploymentsWithout(n) == deployments \ {n}

\* Room is made by deleting a free environment: the first that can be deleted.
\* Its service goes before its deployment.  Services are left out: one that is
\* gone although its deployment could not be deleted makes a later benchmark of
\* the environment fail, and that is a measurement like any other.
GetEvicting(r) ==
  /\ pc[r] = "get" /\ Matching(Definition(r)) = {}
  /\ ActiveEnvironments >= max_concurrent
  /\ Unused # {}
  /\ \E i \in DOMAIN free :
       /\ i > 1 => faulty
       /\ deployments' = DeploymentsWithout(free[i])
       /\ free' = RemoveAt(free, i)
       /\ ready' = ready \ {free[i]}
       /\ configuration' = [configuration EXCEPT ![free[i]] = None,
                                                 ![NewName] = Definition(r)]
  /\ HandOut(r, NewName)
  /\ pc' = [pc EXCEPT ![r] = "start"]

\* There is no room and none can be made: the task is told to wait.
GetNothing(r) ==
  /\ pc[r] = "get" /\ Matching(Definition(r)) = {}
  /\ ActiveEnvironments >= max_concurrent
  /\ free = <<>> \/ (faulty /\ in_use # {})
  /\ pc' = [pc EXCEPT ![r] = "denied"]
  /\ missed' = [missed EXCEPT ![r] = FALSE]
  /\ UNCHANGED <<manager, conflicts, cluster, env, waitFor, attempt, results>>

\* No free environment can be deleted and none is in use, or a deletion fails
\* otherwise than with the ApiException it expects: the entity fails.
GetRaises(r) ==
  /\ pc[r] = "get" /\ Matching(Definition(r)) = {}
  /\ ActiveEnvironments >= max_concurrent
  /\ free # <<>> /\ faulty
  /\ Record(r)
  /\ pc' = [pc EXCEPT ![r] = NextLabel(r)]
  /\ UNCHANGED <<manager, conflicts, cluster, env, waitFor, attempt, missed>>

\* wait_for_env: a second call of the manager, after get_environment returned.
WaitForEnv(r) ==
  /\ pc[r] = "denied"
  /\ envQueue' = Append(envQueue, r)
  /\ pc' = [pc EXCEPT ![r] = "queued"]
  /\ UNCHANGED <<max_concurrent, in_use, free, configuration, ready, conflicts,
                 cluster, env, waitFor, attempt, results, missed>>

-----------------------------------------------------------------------------
(* The task creates the environment it was given.                           *)

\* wait_deployment_before_starting, up to the await of the waiter's event.
WaitDeployment(r) ==
  /\ pc[r] = "start"
  /\ LET w == waiter[Model(r)] IN
       IF w \in {None, env[r]}
       THEN pc' = [pc EXCEPT ![r] = "create"] /\ UNCHANGED waitFor
       ELSE /\ pc' = [pc EXCEPT ![r] = "waitModel"]
            /\ waitFor' = [waitFor EXCEPT ![r] = w]
  /\ UNCHANGED <<manager, conflicts, cluster, env, attempt, results, missed>>

\* It wakes up: the model is there, or it is the one to download it now, or
\* another deployment is and it waits again.
WakeUp(r) ==
  /\ pc[r] = "woken"
  /\ LET m == Model(r) IN
       IF m \in downloaded \/ Addable(m)
       THEN /\ pc' = [pc EXCEPT ![r] = "create"]
            /\ waiter' = WaiterAfterAdding(m, env[r])
            /\ waitFor' = [waitFor EXCEPT ![r] = None]
       ELSE /\ pc' = [pc EXCEPT ![r] = "waitModel"]
            /\ waitFor' = [waitFor EXCEPT ![r] = waiter[m]]
            /\ UNCHANGED waiter
  /\ UNCHANGED <<manager, downloaded, cluster, env, attempt, results, missed>>

\* create_deployment succeeds.
CreateDeployment(r) ==
  /\ pc[r] = "create" /\ env[r] \notin deployments
  /\ deployments' = deployments \cup {env[r]}
  /\ pc' = [pc EXCEPT ![r] = "deploying"]
  /\ UNCHANGED <<manager, conflicts, faulty, cleaned, env, waitFor, attempt,
                 results, missed>>

\* The deployment gets ready, and the task reports it: done_creating.
DoneCreating(r) ==
  /\ pc[r] = "deploying" /\ env[r] \in deployments
  /\ ready' = ready \cup {env[r]}
  /\ LET m == Model(r) IN
       /\ pc' = LabelsAfterSignal(m, env[r], [pc EXCEPT ![r] = "bench"])
       /\ waiter' = [waiter EXCEPT ![m] = None]
       /\ downloaded' = IF waiter[m] = env[r] THEN downloaded \cup {m} ELSE downloaded
  /\ UNCHANGED <<max_concurrent, in_use, free, configuration, envQueue, cluster,
                 env, waitFor, attempt, results, missed>>

\* What a task does after a failed attempt.
LabelAfterAttempts(n) == IF n < Attempts THEN "create" ELSE "failed"

\* An attempt fails: the deployment exists already, its creation fails, or it
\* does not get ready in time.  There are Attempts attempts.
AttemptFails(r) ==
  /\ \/ pc[r] = "create" /\ (faulty \/ env[r] \in deployments)
     \/ pc[r] = "deploying" /\ (faulty \/ env[r] \notin deployments)
  /\ attempt' = [attempt EXCEPT ![r] = @ + 1]
  /\ pc' = [pc EXCEPT ![r] = LabelAfterAttempts(attempt[r] + 1)]
  /\ UNCHANGED <<manager, conflicts, cluster, env, waitFor, results, missed>>

\* cleanup_failed_deployment: deletes the deployment, gives up the slot and
\* lets the next deployment of the model start.
CleanupFailedDeployment(r) ==
  /\ pc[r] = "failed"
  /\ LET n == env[r]
         m == Model(r) IN
       /\ in_use' = in_use \ {n}
       /\ deployments' = DeploymentsWithout(n)
       /\ configuration' = [configuration EXCEPT ![n] = None]
       /\ SignalNext(LabelsAfterSignal(m, n, [pc EXCEPT ![r] = NextLabel(r)]))
       /\ waiter' = [waiter EXCEPT ![m] = None]
  /\ env' = [env EXCEPT ![r] = None]
  /\ Record(r)
  /\ UNCHANGED <<max_concurrent, free, ready, downloaded, faulty, cleaned, waitFor,
                 attempt>>

\* Its deletion fails: the rest of cleanup_failed_deployment is not executed.
CleanupFailedRaises(r) ==
  /\ pc[r] = "failed" /\ faulty
  /\ Record(r)
  /\ env' = [env EXCEPT ![r] = None]
  /\ pc' = [pc EXCEPT ![r] = NextLabel(r)]
  /\ UNCHANGED <<manager, conflicts, cluster, waitFor, attempt, missed>>

-----------------------------------------------------------------------------
(* The task uses the environment, and gives it back whatever happened.      *)

\* Mutant: nobody is told.
DoneUsingSilently(r) ==
  /\ pc[r] = "bench"
  /\ in_use' = in_use \ {env[r]} /\ free' = Append(free, env[r])
  /\ env' = [env EXCEPT ![r] = None]
  /\ Record(r)
  /\ pc' = [pc EXCEPT ![r] = NextLabel(r)]
  /\ missed' = [q \in Requests |-> missed[q] \/ pc[q] = "denied"]
  /\ UNCHANGED <<max_concurrent, configuration, ready, envQueue, conflicts, cluster,
                 waitFor, attempt>>
DoneUsing(r) ==
  /\ pc[r] = "bench"
  /\ in_use' = in_use \ {env[r]}
  /\ free' = Append(free, env[r])
  /\ SignalNext([pc EXCEPT ![r] = NextLabel(r)])
  /\ env' = [env EXCEPT ![r] = None]
  /\ Record(r)
  /\ UNCHANGED <<max_concurrent, configuration, ready, conflicts, cluster,
                 waitFor, attempt>>

\* EnvironmentManager.cleanup, called when the operation ends: it deletes what
\* it tracks in order, and the first deletion that fails ends it.  Tasks that
\* still run go on.
Cleanup ==
  /\ ~cleaned /\ cleaned' = TRUE
  /\ \E S \in SUBSET Tracked :
       /\ faulty \/ S = Tracked
       /\ deployments' = deployments \ S
  /\ UNCHANGED <<manager, conflicts, faulty, tasks>>

-----------------------------------------------------------------------------
Task(r) ==
  \/ GetMatching(r) \/ GetNew(r) \/ GetEvicting(r) \/ GetNothing(r) \/ GetRaises(r)
  \/ WaitForEnv(r) \/ WaitDeployment(r) \/ WakeUp(r)
  \/ CreateDeployment(r) \/ DoneCreating(r) \/ AttemptFails(r)
  \/ CleanupFailedDeployment(r) \/ CleanupFailedRaises(r)
  \/ DoneUsing(r)

\* As long as nothing fails and nobody deletes deployments in use.
Healthy == ~faulty /\ ~cleaned

Stopped(r) == pc[r] \in {"queued", "waitModel", "lost", "done"}

\* Every task has ended or waits for an event nobody will set.
Terminated == (\A r \in Requests : Stopped(r)) /\ UNCHANGED vllmVars

VllmNext == (\E r \in Requests : Task(r)) \/ Cleanup \/ Terminated

\* Ray runs every task, the actor runs every call, and the cluster and the
\* benchmark answer or fail within their timeouts.
Fairness == \A r \in Requests : WF_vllmVars(Task(r))

VllmSpec == VllmInit /\ [][VllmNext]_vllmVars /\ Fairness

-----------------------------------------------------------------------------
(* Properties.                                                              *)

VllmTypeOK ==
  /\ max_concurrent \in MaxEnvironments
  /\ in_use \subseteq Names /\ free \in Seq(Names) /\ ready \subseteq Names
  /\ configuration \in [Names -> Definitions \cup {None}]
  /\ envQueue \in Seq(Requests)
  /\ waiter \in [Models -> Names \cup {None}] /\ downloaded \subseteq Models
  /\ faulty \in BOOLEAN /\ deployments \subseteq Names /\ cleaned \in BOOLEAN
  /\ pc \in [Requests -> Labels]
  /\ env \in [Requests -> Names \cup {None}]
  /\ waitFor \in [Requests -> Names \cup {None}]
  /\ attempt \in [Requests -> 0 .. Attempts]
  /\ results \in [Requests -> Nat]
  /\ missed \in [Requests -> BOOLEAN]

\* max_environments bounds the deployments of the cluster at every moment:
\* environments are counted from before they are created until they are
\* deleted, and no deployment outlives the environment that stands for it, so
\* that cleanup() reaches every one.
DeploymentsBounded ==
  /\ deployments \subseteq Tracked
  /\ Cardinality(in_use) + Len(free) <= max_concurrent

\* An environment is never used by two experiments, nor offered while one uses
\* it: what a task was given is in use, and nobody else was given it.
NotShared ==
  /\ \A r, q \in Requests : env[r] # None /\ env[r] = env[q] => r = q
  /\ \A r \in Requests : env[r] # None => env[r] \in in_use
  /\ \A i, j \in DOMAIN free : free[i] = free[j] => i = j
  /\ in_use \cap Range(free) = {}

\* An environment that is offered for another experiment is ready, and has
\* the definition it is offered for: a task that failed to create its
\* environment never leaves it to another task.
FreeIsReady ==
  \A n \in Range(free) : n \in ready /\ configuration[n] # None

\* The environments are consistent at every step of every task.
EnvironmentsKept == VllmTypeOK /\ DeploymentsBounded /\ NotShared /\ FreeIsReady

\* The comment in get_environment: the first download of a model is alone.
\* Tasks that create deployments of a model that nobody has downloaded yet.
Downloading(m) ==
  {r \in Requests : pc[r] \in {"create", "deploying"} /\ Model(r) = m}
FirstDownloadAlone ==
  \A m \in Models : m \notin downloaded => Cardinality(Downloading(m)) <= 1

\* It holds as long as no deployment fails and no event is popped unset: the
\* waiter of a model outlives the wait of every task that waits for it.
FirstDownloadAloneIfHealthy ==
  Healthy => FirstDownloadAlone /\ \A r \in Requests : pc[r] # "lost"

\* A task in the queue that no such gap befell gets on.
QueuedIsServed ==
  \A r \in Requests :
    (~faulty /\ pc[r] = "queued" /\ ~missed[r]) ~> (cleaned \/ pc[r] # "queued")

\* With room for all the requests, each of them is answered unless the cluster
\* fails: nobody waits for ever for a download.
AnsweredWithRoom ==
  (~faulty /\ max_concurrent >= Cardinality(Requests)) ~>
    (cleaned \/ \A r \in Requests : pc[r] = "done")

\* Nobody waits for ever, neither for an environment nor for a download.
TasksGetOn == QueuedIsServed /\ AnsweredWithRoom
====
