---------------------------- MODULE ManagedSpace ----------------------------
(***************************************************************************)
(* The discovery space manager among its neighbours: actuators that put    *)
(* answered requests on the queue, any number of subscribed operators that *)
(* execute, unsubscribe or crash as they like, and the driver that starts  *)
(* the manager and asks it to shut down.                                   *)
(***************************************************************************)
EXTENDS DiscoverySpaceManager, Functions

CONSTANTS
  MayCrash   \* subscribers whose actor may die

VARIABLES
  unanswered,  \* requests still with an actuator
  seen,        \* seen[s]: requests s was notified of
  asked        \* shutdown() has been called

environmentVars == <<unanswered, seen, asked>>
vars == <<queue, sent, managerVars, environmentVars>>

TypeOK ==
  /\ ManagerTypeOK
  /\ unanswered \in SUBSET Measured
  /\ seen \in [Subscribers -> SUBSET Measured]
  /\ asked \in BOOLEAN

Init ==
  /\ ManagerInit
  /\ queue = <<>>
  /\ unanswered = Measured
  /\ seen = [s \in Subscribers |-> {}]
  /\ asked = FALSE

\* An actuator finishes a request: put_nowait on the measurement queue.
Answer(request) ==
  /\ request \in unanswered
  /\ unanswered' = unanswered \ {request}
  /\ queue' = Append(queue, request)
  /\ UNCHANGED <<sent, managerVars, seen, asked>>

\* A subscriber executes one of the calls made on it.
ExecuteCall(s, call) ==
  /\ call \in sent[s]
  /\ sent' = [sent EXCEPT ![s] = @ \ {call}]
  /\ seen' = [seen EXCEPT ![s] = IF call = ErrorReport THEN @ ELSE @ \cup {call}]
  /\ UNCHANGED <<queue, managerVars, unanswered, asked>>

Unsubscribe(s) ==
  /\ s \in subscribed
  /\ UnsubscribeFromUpdates(s)
  /\ UNCHANGED environmentVars

Crash(s) ==
  /\ s \in MayCrash
  /\ SubscriberCrashes(s)
  /\ UNCHANGED environmentVars

Start ==
  /\ StartMonitoring
  /\ UNCHANGED environmentVars

AskToShutDown ==
  /\ ~asked
  /\ asked' = TRUE
  /\ Shutdown
  /\ UNCHANGED <<unanswered, seen>>

Monitor ==
  /\ MonitorStep \/ SendRaises
  /\ UNCHANGED environmentVars

Next ==
  \/ \E request \in Measured : Answer(request)
  \/ \E s \in Subscribers : \E call \in sent[s] : ExecuteCall(s, call)
  \/ \E s \in Subscribers : Unsubscribe(s) \/ Crash(s)
  \/ Start \/ AskToShutDown \/ Monitor

Spec == Init /\ [][Next]_vars

(***************************************************************************)
(* The event loops of the manager and of every live subscriber keep        *)
(* turning, actuators answer, and the driver starts the manager.           *)
(***************************************************************************)
FairSpec ==
  /\ Spec
  /\ WF_vars(Monitor)
  /\ WF_vars(Start)
  /\ WF_vars(\E request \in Measured : Answer(request))
  /\ \A s \in Subscribers : WF_vars(\E call \in sent[s] : ExecuteCall(s, call))

-----------------------------------------------------------------------------
\* Storing is over after an error and once the loop has been left.
Closed == monitoringError \/ monitoring \in {"gathering", "completed", "failed"}

(***************************************************************************)
(* The inductive invariant behind the properties below.  A request is with *)
(* an actuator, on the queue or stored, in one place and once.  A          *)
(* subscriber is called once for a request, after it is stored, and knows  *)
(* or is about to learn of everything stored for as long as it is          *)
(* subscribed and the manager can send, unless its actor died and the      *)
(* gather call will find out.                                              *)
(***************************************************************************)
Distinct(seq) == \A j, k \in DOMAIN seq : seq[j] = seq[k] => j = k

OnePlace ==
  /\ Distinct(queue)
  /\ Range(queue) \cap unanswered = {}
  /\ Range(stored) \cap (unanswered \cup Range(queue)) = {}

NotifiedOnce ==
  \A s \in Subscribers :
    /\ seen[s] \cup (sent[s] \ {ErrorReport}) \subseteq Range(stored)
    /\ seen[s] \cap sent[s] = {}

Informed ==
  monitoring # "unsent" =>
  \A s \in subscribed :
    IF s \in crashed THEN promiseBroken \/ seen[s] = Range(stored)
                     ELSE Range(stored) \subseteq seen[s] \cup sent[s]

Completion ==
  /\ iscompleted <=> monitoring = "completed"
  /\ iscompleted => ~promiseBroken /\ UpdatesExecuted
  /\ monitoringError => ~isalive /\ monitoring # "waiting"

Inv == TypeOK /\ OnePlace /\ NotifiedOnce /\ Informed /\ Completion

(***************************************************************************)
(* The manager implements StoreThenNotify: whatever subscribers, actuators *)
(* and the driver do, it stores in arrival order, at most once, and        *)
(* notifies only of what is stored (_monitor_updates_private).             *)
(***************************************************************************)
Abstract == INSTANCE StoreThenNotify WITH waiting <- queue, closed <- Closed

ImplementsStoreThenNotify == Abstract!Spec

(***************************************************************************)
(* iscompleted tells shutdown() that the subscribers are done: every       *)
(* update that was sent has been executed, and whoever is still subscribed *)
(* has seen everything that was stored (comment at the gather call).       *)
(***************************************************************************)
CompletedMeansSeen ==
  iscompleted =>
    /\ \A s \in Subscribers : sent[s] \subseteq {ErrorReport}
    /\ \A s \in subscribed : seen[s] = Range(stored)

(***************************************************************************)
(* A failure to store is not silent: each live operator that was           *)
(* subscribed when it happened is sent onError, and until then it has been *)
(* sent every stored request; unless sending onError itself fails.         *)
(***************************************************************************)
ErrorsReported ==
  [][ (monitoringError' /\ ~monitoringError /\ monitoring' # "unsent") =>
        \A s \in subscribed \ crashed :
          /\ ErrorReport \in sent'[s]
          /\ Range(stored) \subseteq seen[s] \cup sent'[s] ]_vars

(***************************************************************************)
(* Unless the manager is shut down or fails, every answered request is     *)
(* eventually stored (the loop of _monitor_updates_private survives its    *)
(* time-outs and the subscribers it cannot reach but by onError).          *)
(***************************************************************************)
EventuallyStored ==
  \A request \in Measured :
    (request \in Range(queue))
      ~> (request \in Range(stored) \/ ~isalive \/ monitoring = "unsent")

(***************************************************************************)
(* shutdown() always returns, after a failure to store too, unless the     *)
(* actor of an operator dies (then gather may raise) or an onError cannot  *)
(* be sent: in both cases it polls on.                                     *)
(***************************************************************************)
ShutdownReturns ==
  asked ~> (iscompleted \/ crashed # {} \/ monitoring = "unsent")

(***************************************************************************)
(* The manager never stands still: not while it monitors, and not while it *)
(* is shut down.                                                           *)
(***************************************************************************)
ManagerGoesOn == EventuallyStored /\ ShutdownReturns

=============================================================================
