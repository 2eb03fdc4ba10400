------------------------------ MODULE RayTune -------------------------------
(***************************************************************************)
(* The ray_tune operator (plugins/operators/ray_tune/.../operator.py).     *)
(* Ray Tune runs trials in processes of their own; each is one call of     *)
(* tune_trainable, which requests the experiments of one entity, polls the *)
(* operator's actor for the answers, requests dependent experiments, and   *)
(* reports a metric once every request it made was answered.  The operator *)
(* learns of answers and errors from the discovery space manager, of which *)
(* only what StoreThenNotify promises is used here.                        *)
(*                                                                         *)
(* A trial is known by the request index that it takes when it starts.     *)
(***************************************************************************)
EXTENDS Measurements, FiniteSets

CONSTANTS
  Operator,            \* the operator's actor
  MaxConcurrentTrials, \* tuneConfig.max_concurrent_trials
  MetricExperiment,    \* the experiment that measures the target metric
  TrialFaults          \* which of "store", "start" and "submit" may fail

Trials == Indices

ASSUME RayTuneAssumption ==
  /\ MaxConcurrentTrials \in Nat \ {0}
  /\ MetricExperiment \in Experiments
  /\ TrialFaults \subseteq {"store", "start", "submit"}

VARIABLES
  stored, seen, closed, \* of the manager; seen[Operator] is _finishedMeasurements
  criticalError, \* what became of the manager's error: "none", "sent", "received"
  trial,         \* the local variables of each tune_trainable
  stopping,      \* Ray Tune starts no more trials
  exit           \* how run() ended

managerVars == <<stored, seen, closed, criticalError>>
vars == <<measurementVars, managerVars, trial, stopping, exit>>

Manager ==
  INSTANCE StoreThenNotify WITH Subscribers <- {Operator}, Measured <- Answered,
                                waiting <- measurementQueue

\* allResults is abstracted to whether it holds a value of the metric.  During
\* a turn of the loop toCheck are the ids that it has still to look at, and
\* waitingRequestIds those that it found not to be finished.
Idle == [phase |-> "pending", remaining |-> <<>>, waitingRequestIds |-> <<>>,
         toCheck |-> <<>>, newRequests |-> <<>>, completedRequests |-> 0,
         submittedExperiments |-> 0, measured |-> FALSE]

Init ==
  /\ MeasurementsInit
  /\ Manager!Init
  /\ criticalError = "none"
  /\ trial = [t \in Trials |-> Idle]
  /\ stopping = FALSE /\ exit = "none"

-----------------------------------------------------------------------------
(* The manager, and its calls of the operator's actor.                       *)

Unchanged == UNCHANGED <<memoized, inFlight, trial, stopping, exit>>

ManagerStores == Manager!Store /\ UNCHANGED criticalError /\ Unchanged

ManagerFails ==
  /\ "store" \in TrialFaults
  /\ Manager!Fail
  /\ criticalError' = "sent"
  /\ Unchanged

\* Calls of one actor by another are executed in the order they were made.
OnUpdate ==
  /\ Len(stored) > Cardinality(seen[Operator])
  /\ Manager!See(Operator, stored[Cardinality(seen[Operator]) + 1])
  /\ UNCHANGED criticalError
  /\ Unchanged

OnError ==
  /\ criticalError = "sent"
  /\ Len(stored) = Cardinality(seen[Operator])
  /\ criticalError' = "received"
  /\ UNCHANGED <<stored, seen, closed, measurementQueue>>
  /\ Unchanged

ManagerStep == ManagerStores \/ ManagerFails \/ OnUpdate \/ OnError

ActuatorAnswers ==
  /\ \E request \in inFlight : ActuatorCompletes(request)
  /\ UNCHANGED <<managerVars, trial, stopping, exit>>

-----------------------------------------------------------------------------
(* tune_trainable.                                                           *)

Running(t) == trial[t].phase = "running"

Only(t, local) ==
  /\ trial' = [trial EXCEPT ![t] = local]
  /\ UNCHANGED <<managerVars, stopping, exit>>

Ended(t, phase) ==
  [Idle EXCEPT !.phase = phase, !.submittedExperiments = trial[t].submittedExperiments]

Raise(t) == Only(t, Ended(t, "raised")) /\ UNCHANGED measurementVars

\* Ray Tune has room for another trial, and suggests an entity for it.
MayStart(t) ==
  /\ exit = "none" /\ ~stopping
  /\ trial[t].phase = "pending" /\ \A u \in Trials : u < t => trial[u].phase # "pending"
  /\ Cardinality({u \in Trials : Running(u)}) < MaxConcurrentTrials

\* It looks up the entity and takes the next request index.
StartTrial(t) ==
  /\ MayStart(t) /\ criticalError # "received"
  /\ Only(t, [Idle EXCEPT !.phase = "running", !.remaining = IndependentExperiments])
  /\ UNCHANGED measurementVars

StartRaises(t) ==
  /\ MayStart(t)
  /\ criticalError = "received" \/ "start" \in TrialFaults
  /\ Raise(t)

NextItem(t) == [index |-> t, experiment |-> Head(trial[t].remaining)]

\* Mutant: dependent experiments are not counted.
SubmitUncounted(t) ==
  LET n == NumberCreated(NextItem(t))
      last == trial[t].submittedExperiments
  IN  /\ Running(t) /\ trial[t].remaining # <<>>
      /\ MeasureOrReplay(NextItem(t), last)
      /\ Only(t, [trial[t] EXCEPT
                    !.remaining = Tail(@),
                    !.newRequests = @ \o [k \in 1 .. n |-> last + k],
                    !.submittedExperiments = IF trial[t].completedRequests = 0
                                               THEN last + n ELSE last])

\* Both the independent experiments and the dependent ones.  The requests of
\* a trial are numbered.
Submit(t) ==
  LET n == NumberCreated(NextItem(t))
      last == trial[t].submittedExperiments
  IN  /\ Running(t) /\ trial[t].remaining # <<>>
      /\ MeasureOrReplay(NextItem(t), last)
      /\ Only(t, [trial[t] EXCEPT
                    !.remaining = Tail(@),
                    !.newRequests = @ \o [k \in 1 .. n |-> last + k],
                    !.submittedExperiments = last + n])

\* The actuator refuses the experiment.
SubmitRaises(t) ==
  /\ "submit" \in TrialFaults
  /\ Running(t) /\ trial[t].remaining # <<>>
  /\ NeedsMeasurement(NextItem(t))
  /\ Raise(t)

\* The next id in this turn of the loop.
Checks(t) == Running(t) /\ trial[t].remaining = <<>> /\ trial[t].toCheck # <<>>

Finished(t) ==
  {r \in seen[Operator] : r.index = t /\ r.id = Head(trial[t].toCheck)}

NotFinished(t) ==
  /\ Checks(t) /\ Finished(t) = {}
  /\ Only(t, [trial[t] EXCEPT
       !.toCheck = Tail(@),
       !.waitingRequestIds = Append(@, Head(trial[t].toCheck))])
  /\ UNCHANGED measurementVars

\* The last result of the metric counts; a failure is one, with
\* failed_metric_value.
Collect(t) ==
  /\ Checks(t)
  /\ \E request \in Finished(t) :
       Only(t, [trial[t] EXCEPT
         !.toCheck = Tail(@),
         !.completedRequests = @ + 1,
         !.remaining = IF request.status = "Success"
                         THEN DependentsOf[request.experiment] ELSE <<>>,
         !.measured = IF request.experiment = MetricExperiment
                        THEN request.status = "Success" ELSE @])
  /\ UNCHANGED measurementVars

EndOfTurn(t) == Running(t) /\ trial[t].remaining = <<>> /\ trial[t].toCheck = <<>>

WaitingOnExperiments(t) ==
  trial[t].completedRequests < trial[t].submittedExperiments

\* Mutant: errors are looked for at the start only.
NextTurnWithoutCheck(t) ==
  /\ EndOfTurn(t) /\ WaitingOnExperiments(t)
  /\ Only(t, [trial[t] EXCEPT
       !.toCheck = trial[t].waitingRequestIds \o trial[t].newRequests,
       !.waitingRequestIds = <<>>, !.newRequests = <<>>])
  /\ UNCHANGED measurementVars

NextTurn(t) ==
  /\ EndOfTurn(t) /\ WaitingOnExperiments(t) /\ criticalError # "received"
  /\ Only(t, [trial[t] EXCEPT
       !.toCheck = trial[t].waitingRequestIds \o trial[t].newRequests,
       !.waitingRequestIds = <<>>, !.newRequests = <<>>])
  /\ UNCHANGED measurementVars

TurnRaises(t) ==
  /\ EndOfTurn(t) /\ WaitingOnExperiments(t) /\ criticalError = "received"
  /\ Raise(t)

Report(t) ==
  /\ EndOfTurn(t) /\ ~WaitingOnExperiments(t)
  /\ Only(t, [trial[t] EXCEPT !.phase = "reported"])
  /\ UNCHANGED measurementVars

TrialStep(t) ==
  \/ StartTrial(t) \/ StartRaises(t) \/ Submit(t) \/ SubmitRaises(t)
  \/ NotFinished(t) \/ Collect(t) \/ NextTurn(t) \/ TurnRaises(t) \/ Report(t)

-----------------------------------------------------------------------------
(* Ray Tune, tune() and run().                                               *)

Phases(phase) == {t \in Trials : trial[t].phase = phase}

\* A stopper has had enough of the reported results, or a trial has raised and
\* it fails fast: it ends the trials that run, wherever they are.
StopAll ==
  /\ exit = "none" /\ ~stopping
  /\ Phases("reported") \cup Phases("raised") # {}
  /\ stopping' = TRUE
  /\ trial' = [t \in Trials |->
                 IF Running(t) THEN Ended(t, "terminated") ELSE trial[t]]
  /\ UNCHANGED <<measurementVars, managerVars, exit>>

\* Mutant: failed trials are not looked for.
OutcomeOfBest ==
  IF \A t \in Phases("reported") : ~trial[t].measured THEN "ERROR" ELSE "SUCCESS"

\* get_best_result raises when no trial reported a value that is a number; run()
\* turns that into an error whether trials have failed or not.
Outcome ==
  IF \A t \in Phases("reported") : ~trial[t].measured THEN "ERROR"
  ELSE IF Phases("raised") # {} THEN "FAIL" ELSE "SUCCESS"

\* It also unsubscribes, without an effect on what is modelled here.
RunReturns ==
  /\ exit = "none"
  /\ Phases("running") = {}
  /\ stopping \/ Phases("raised") \cup Phases("pending") = {}
  /\ exit' = Outcome
  /\ UNCHANGED <<measurementVars, managerVars, trial, stopping>>

Next ==
  \/ ManagerStep \/ ActuatorAnswers
  \/ \E t \in Trials : TrialStep(t)
  \/ StopAll \/ RunReturns

Spec == Init /\ [][Next]_vars

(***************************************************************************)
(* Actuators answer, the event loops of the manager and of the operator    *)
(* turn, and so does each trial; Ray Tune starts trials, fails fast and    *)
(* returns.                                                                *)
(***************************************************************************)
Fairness ==
  /\ WF_vars(ManagerStores \/ ManagerFails)
  /\ WF_vars(OnUpdate \/ OnError)
  /\ WF_vars(ActuatorAnswers)
  /\ \A t \in Trials : WF_vars(TrialStep(t))
  /\ WF_vars(Phases("raised") # {} /\ StopAll)
  /\ WF_vars(RunReturns)

FairSpec == Spec /\ Fairness

-----------------------------------------------------------------------------
Requests(t, e) == {r \in seen[Operator] : r.index = t /\ r.experiment = e}
Successes(t, e) == {r \in Requests(t, e) : r.status = "Success"}

(***************************************************************************)
(* A trial that reports has measured its entity: every independent         *)
(* experiment, and each dependent one at least once for every success that *)
(* enables it, were answered and stored, and nothing it asked for is       *)
(* still to come (the counters of the polling loop of tune_trainable).     *)
(***************************************************************************)
ReportedMeansMeasured ==
  \A t \in Phases("reported") :
    /\ \A k \in DOMAIN IndependentExperiments :
         Requests(t, IndependentExperiments[k]) # {}
    /\ \A e \in Experiments : \A k \in DOMAIN DependentsOf[e] :
         Cardinality(Requests(t, DependentsOf[e][k])) >= Cardinality(Successes(t, e))
    /\ \A request \in inFlight \cup {measurementQueue[k] : k \in DOMAIN measurementQueue} :
         request.index # t

(***************************************************************************)
(* An optimisation recorded as a success has lost nothing: every request   *)
(* made by a trial that Ray Tune did not cut short was answered, stored    *)
(* and seen by the operator (exit_state of tune()).                        *)
(***************************************************************************)
SuccessMeansStored ==
  exit = "SUCCESS" =>
    \A t \in Trials \ Phases("terminated") :
      Cardinality({r \in seen[Operator] : r.index = t}) = trial[t].submittedExperiments

(***************************************************************************)
(* run() returns, whatever fails and whenever: trials that wait for a      *)
(* request that could not be stored learn of it ("to avoid spinning        *)
(* forever waiting for measurements that will never arrive").              *)
(***************************************************************************)
RunEnds == <>(exit # "none")

=============================================================================
