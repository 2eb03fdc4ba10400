------------------------------ MODULE RestApi ------------------------------
(***************************************************************************)
(* Experiments that are run one at a time, without an operation: through   *)
(* the REST API (api/), by a client that posts entities and then polls for *)
(* the request, or by a command that uses the actuator itself              *)
(* (utilities/run_experiment.py).  The actor of the API that monitors the  *)
(* measurement queue keeps the requests that were answered, by reference   *)
(* and id, for the clients to poll; it, the queue and the actuators are    *)
(* gone when the replica of the API restarts.                              *)
(***************************************************************************)
EXTENDS CustomExperiments, TLC

CONSTANTS
  Remote, Local,   \* clients of the API, and commands that use the actuator
  Validating,      \* the clients that validate the entity before they run anything
  Scenarios        \* the plans that are carried out together: client -> plan, or 0

Clients == Remote \cup Local

\* The function f, and g where f has no value.
Over(f, g) ==
  [k \in DOMAIN f \cup DOMAIN g |-> IF k \in DOMAIN f THEN f[k] ELSE g[k]]

ASSUME RestApiAssumption ==
  /\ Services = {"api"} \cup Local /\ "api" \notin Local
  /\ \A owner \in DOMAIN Requests :
       Requests[owner].service = IF owner[1] \in Local THEN owner[1] ELSE "api"
  /\ Remote \cap Local = {}
  /\ \A plans \in Scenarios :
       /\ DOMAIN plans = Clients
       /\ \A c \in Clients : plans[c] # 0 => <<c, plans[c], 1>> \in DOMAIN Requests
  /\ {MaxRetries, MaxFaults} \subseteq Nat

VARIABLES
  plan,      \* client -> the number of its plan, or 0: its jobs are the requests
             \*   <<client, plan, 1>>, <<client, plan, 2>>, ...
  client,    \* client -> [stage, job, id, answers: the jobs and the requests they got]
  kept,      \* <<reference, id>> -> request: requests_memory_storage
  accepted   \* history: the requests [owner, id] that got an id

vars == <<plan, client, kept, accepted, actuatorVars>>

apiVars == <<plan, client, kept, accepted>>

ServiceOf(c) == IF c \in Local THEN c ELSE "api"

Owner(c) == <<c, plan[c], client[c].job>>

Job(c) == Requests[Owner(c)]

Init ==
  /\ ActuatorInit
  /\ plan \in Scenarios
  /\ client = [c \in Clients |-> [stage |-> IF plan[c] = 0 THEN "done" ELSE "next",
                                  job |-> 1, id |-> 0, answers |-> <<>>]]
  /\ kept = <<>>
  /\ accepted = {}

\* The client once it is through with its job.
Proceed(c) == [client[c] EXCEPT !.stage = "next", !.job = @ + 1, !.id = 0]

\* An error ends a client of the API; a command goes on with the next job.
AfterError(c) ==
  IF c \in Local THEN Proceed(c) ELSE [client[c] EXCEPT !.stage = "failed"]

Goto(c, stage) == client' = [client EXCEPT ![c].stage = stage]

-----------------------------------------------------------------------------
(* The clients.                                                              *)

\* The entity is validated with the experiment the registry has for the
\* reference, without its parameterization.
IsValid(c) ==
  \A entity \in Range(Job(c).entities) :
    ValidatePoint(ExperimentForReference(Actuators, Job(c).reference), entity.point)

\* The API refuses unknown actuators and experiments, and entities without values
\* for what the experiment requires.
Admissible(c) ==
  /\ IsKnown(Actuators, Job(c).reference)
  /\ \A entity \in Range(Job(c).entities) : HasInputs(Target(Owner(c)), entity)

\* The client has no further request to make.
Finish(c) ==
  /\ client[c].stage = "next"
  /\ Owner(c) \notin DOMAIN Requests
  /\ Goto(c, "done")
  /\ UNCHANGED <<plan, kept, accepted, actuatorVars>>

\* The reference is unknown to the client or to the API, or the API refuses the
\* entities: an error.
Rejected(c) ==
  \/ c \in Validating /\ ~IsKnown(Actuators, Job(c).reference)
  \/ c \in Remote /\ ~Admissible(c)
  \/ Job(c).reference.actuator \notin DOMAIN Actuators

\* An entity that the client finds invalid ends only the job.
Skipped(c) == c \in Validating /\ IsKnown(Actuators, Job(c).reference) /\ ~IsValid(c)

\* The checks of a job before the actuator gets it.
Begin(c) ==
  /\ client[c].stage = "next"
  /\ Owner(c) \in DOMAIN Requests
  /\ \/ /\ Skipped(c)
        /\ client' = [client EXCEPT ![c] = Proceed(c)]
        /\ UNCHANGED actuator
     \/ /\ ~Skipped(c) /\ Rejected(c)
        /\ Goto(c, "failed")
        /\ UNCHANGED actuator
     \/ /\ ~Skipped(c) /\ ~Rejected(c)
        /\ Goto(c, "submit")
        /\ GetActuator(ServiceOf(c))
  /\ UNCHANGED <<plan, kept, accepted, executors, queue, lost, repeated, faults>>

\* The actor is dead, or raises: an error.
SubmitFails(c) ==
  LET state == actuator[ServiceOf(c)]
  IN  /\ client[c].stage = "submit"
      /\ \/ state = "dead"
         \/ state = "idle" /\ Refuses(Owner(c))
      /\ client' = [client EXCEPT ![c] = AfterError(c)]
      /\ UNCHANGED <<plan, kept, accepted, actuatorVars>>

\* An id is random: one that was given before, or another.
Ids == LET used == {request.id : request \in accepted}
       IN  1 .. Cardinality(used) + 1

SubmitSucceeds(c, id) ==
  /\ client[c].stage = "submit"
  /\ actuator[ServiceOf(c)] = "idle"
  /\ ~Refuses(Owner(c))
  /\ Submit(Owner(c), id)
  /\ client' = [client EXCEPT ![c].id = id,
                  ![c].stage = IF Target(Owner(c)).useRay THEN "wait" ELSE "inline"]
  /\ accepted' = accepted \cup {[owner |-> Owner(c), id |-> id]}
  /\ UNCHANGED <<plan, kept, queue, lost, repeated, faults>>

\* A request without measurements cannot be shown, which ends the client.
Receive(c, request) ==
  client' = [client EXCEPT ![c] =
               [Proceed(c) EXCEPT
                  !.stage = IF request.results = <<>> THEN "failed" ELSE @,
                  !.answers = Append(@, [job |-> client[c].job, request |-> request])]]

\* Mutant: requests are kept by their ids alone.
KeyIsTheId(owner, id) == <<id>>

\* Where the monitor keeps a request.
Key(owner, id) == <<Reference(owner), id>>

\* A client of the API polls for its request, until it is there or too much time
\* has passed.
Poll(c) ==
  LET key == Key(Owner(c), client[c].id)
  IN  /\ c \in Remote
      /\ client[c].stage = "wait"
      /\ key \in DOMAIN kept
      /\ Receive(c, kept[key])
      /\ UNCHANGED <<plan, kept, accepted, actuatorVars>>

TimesOut(c) ==
  /\ c \in Remote
  /\ client[c].stage = "wait"
  /\ Goto(c, "failed")
  /\ UNCHANGED <<plan, kept, accepted, actuatorVars>>

\* A command takes the next request from its queue, whichever it is.
Get(c) ==
  /\ c \in Local
  /\ client[c].stage = "wait"
  /\ queue[c] # <<>>
  /\ Receive(c, Head(queue[c]))
  /\ queue' = [queue EXCEPT ![c] = Tail(@)]
  /\ UNCHANGED <<plan, kept, accepted, actuator, executors, lost, repeated, faults>>

-----------------------------------------------------------------------------
(* The actors.                                                               *)

\* start_monitoring_queue and add_measurement_request.
Monitor ==
  /\ queue["api"] # <<>>
  /\ LET request == Head(queue["api"])
     IN  kept' = Over([key \in {Key(request.owner, request.id)} |-> request], kept)
  /\ queue' = [queue EXCEPT !["api"] = Tail(@)]
  /\ UNCHANGED <<plan, client, accepted, actuator, executors, lost, repeated, faults>>

\* An execution ends; submit() returns if it executed the request itself.
Ends(executor) ==
  LET c == executor.owner[1]
  IN  /\ End(executor)
      /\ client' = IF Target(executor.owner).useRay THEN client
                   ELSE [client EXCEPT ![c] =
                           IF executor.answered THEN [@ EXCEPT !.stage = "wait"]
                                                ELSE AfterError(c)]
      /\ UNCHANGED <<plan, kept, accepted>>

Execute(executor) ==
  \/ Answer(executor) /\ UNCHANGED apiVars
  \/ Ends(executor)

\* Deaths once every client has ended are left out.
Active == \E c \in Clients : client[c].stage \notin {"done", "failed"}

\* Whoever is being served by the actor that dies gets an error.
ActuatorDies(s) ==
  /\ Active
  /\ ActorDies(s)
  /\ client' = [c \in Clients |-> IF ServiceOf(c) = s /\ client[c].stage = "inline"
                                  THEN AfterError(c) ELSE client[c]]
  /\ UNCHANGED <<plan, kept, accepted>>

\* The actors of the API live as long as its replica; so do the open requests.
ReplicaRestarts ==
  /\ Active
  /\ faults < MaxFaults
  /\ faults' = faults + 1
  /\ kept' = <<>>
  /\ queue' = [queue EXCEPT !["api"] = <<>>]
  /\ actuator' = [actuator EXCEPT !["api"] = "absent"]
  /\ executors' = executors \ Orphans("api")
  /\ lost' = lost \cup {request.owner : request \in {r \in accepted : r.owner[1] \in Remote}}
  /\ client' = [c \in Clients |->
                  IF c \in Remote /\ client[c].stage \in {"submit", "inline"}
                  THEN AfterError(c) ELSE client[c]]
  /\ UNCHANGED <<plan, accepted, repeated>>

-----------------------------------------------------------------------------

ClientStep(c) ==
  \/ Begin(c)
  \/ Finish(c)
  \/ SubmitFails(c)
  \/ \E id \in Ids : SubmitSucceeds(c, id)
  \/ Poll(c)
  \/ Get(c)

Progress ==
  \/ Monitor
  \/ \E executor \in executors : Execute(executor)
  \/ \E c \in Clients : ClientStep(c)

Next ==
  \/ Progress
  \/ \E c \in Clients : TimesOut(c)
  \/ \E executor \in executors : Active /\ WorkerDies(executor) /\ UNCHANGED apiVars
  \/ \E s \in Services : ActuatorDies(s)
  \/ ReplicaRestarts

\* Clients, executors and the monitor do not all stop while one of them can go on.
\* Each has finitely many steps to take, so that nothing more need be assumed.
Fairness == WF_vars(Progress)

Spec == Init /\ [][Next]_vars /\ Fairness

-----------------------------------------------------------------------------
(* Properties.                                                               *)

\* Another request for the same experiment got the same id.
Clashes(request) ==
  \E other \in accepted :
    /\ other.owner # request.owner
    /\ other.id = request.id
    /\ Reference(other.owner) = Reference(request.owner)

\* Every answer is to the very request that the client made for that job.  A
\* client of the API may get another's if the two ids agree, and a command an
\* earlier one of its own if that was executed again after it had been answered.
AnswersAreTheirs ==
  \A c \in Clients :
    \A answer \in Range(client[c].answers) :
      LET owner == <<c, plan[c], answer.job>>
      IN  \/ answer.request.owner = owner
          \/ c \in Remote /\ \E request \in accepted :
                              request.owner = owner /\ Clashes(request)
          \/ c \in repeated

AllAnswered ==
  UNION ({Range(queue[s]) : s \in Services} \cup {Range(kept)}
         \cup {{answer.request : answer \in Range(client[c].answers)} : c \in Clients})

\* The valid results of a function that is an experiment were measured on the values
\* of their entities, completed by those that the requested reference names and by
\* defaults.
IsOfTheEntity(request) ==
  LET x == Target(request.owner)
      Of(result) == CHOOSE e \in Range(Entities(request.owner)) : e.id = result.entity
  IN  x.function = "decorated" =>
        \A result \in {r \in Range(request.results) : r.valid} :
          /\ result.label = "requested"
          /\ ValidatePoint(x, result.inputs)
          /\ DOMAIN result.inputs = DOMAIN x.required \cup DOMAIN x.optional
          /\ \A p \in DOMAIN result.inputs :
               result.inputs[p] =
                 Over(Of(result).point,
                      Over(Reference(request.owner).parameters, x.defaults))[p]

\* However the request came in, its valid results were measured on its entities,
\* with values that are all in their domains.
ResultsAreOfTheEntity == \A request \in AllAnswered : IsOfTheEntity(request)

\* Whoever asks gets the answer to what was asked, measured on what was asked.
AnswersAreRight == AnswersAreTheirs /\ ResultsAreOfTheEntity

\* Whether every way the functions can go gives a request its measurements: its
\* entities are distinct, and there is one, or the experiment is a function that
\* always gives a result.
SureToBeAnswered(owner) ==
  LET entities == Entities(owner)
  IN  /\ \A i, j \in DOMAIN entities : entities[i].id = entities[j].id => i = j
      /\ Len(entities) = 1 \/ Target(owner).function = "decorated"

Answered(request) ==
  \/ Key(request.owner, request.id) \in DOMAIN kept
  \/ client[request.owner[1]].job > request.owner[3]

Open(c) ==
  \E request \in accepted :
    /\ request.owner[1] = c
    /\ SureToBeAnswered(request.owner)
    /\ ~Answered(request)
    /\ request.owner \notin lost

\* In the end no such request that got an id is open: it was answered, unless a
\* death or a restart of the replica lost it.
AcceptedIsAnswered == <>[](\A c \in Clients : ~Open(c))

=============================================================================
