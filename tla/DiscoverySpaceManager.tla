------------------------ MODULE DiscoverySpaceManager -----------------------
(***************************************************************************)
(* The DiscoverySpaceManager actor of an explore operation.                *)
(*                                                                         *)
(* It takes measurement requests off the measurement queue one at a time,  *)
(* stores each in the discovery space and only then calls onUpdate on the  *)
(* subscribed operators.  shutdown() clears isalive and waits for the loop *)
(* to end, for the sent onUpdate calls to finish, and for onCompleted to   *)
(* be sent.                                                                *)
(*                                                                         *)
(* The methods of the actor interleave only at its awaits: on the          *)
(* measurement queue, on gather, on onCompleted and on the sleep in        *)
(* shutdown.  Storing and notifying therefore happen in one step.          *)
(***************************************************************************)
EXTENDS Naturals, Sequences

CONSTANTS
  Subscribers,   \* the operator actors that may subscribe
  MayRefuse,     \* those to which sending a call may itself fail
  Measured,      \* the answered measurement requests that can be on the queue
  ErrorReport    \* what onError is called with

ASSUME ManagerAssumption == ErrorReport \notin Measured

VARIABLES
  queue,           \* the measurement queue
  stored,          \* requests added to the discovery space, in order
  sent,            \* sent[s]: calls to s not yet executed (no order promised)
  subscribed,      \* _subscribers
  crashed,         \* subscribers whose actor is dead
  promiseBroken,   \* an onUpdate call was lost with its actor
  isalive,
  monitoring,      \* where monitorUpdates is
  monitoringError,
  iscompleted

managerVars == <<stored, subscribed, crashed, promiseBroken,
                 isalive, monitoring, monitoringError, iscompleted>>

Call == Measured \cup {ErrorReport}

ManagerTypeOK ==
  /\ queue \in Seq(Measured)
  /\ stored \in Seq(Measured)
  /\ sent \in [Subscribers -> SUBSET Call]
  /\ subscribed \in SUBSET Subscribers
  /\ crashed \in SUBSET Subscribers
  /\ promiseBroken \in BOOLEAN
  /\ isalive \in BOOLEAN
  /\ monitoring \in {"notStarted", "test", "waiting", "gathering",
                     "completed", "failed", "unsent"}
  /\ monitoringError \in BOOLEAN
  /\ iscompleted \in BOOLEAN

ManagerInit ==
  /\ stored = <<>>
  /\ sent = [s \in Subscribers |-> {}]
  /\ subscribed = Subscribers
  /\ crashed = {}
  /\ promiseBroken = FALSE
  /\ isalive = TRUE
  /\ monitoring = "notStarted"
  /\ monitoringError = FALSE
  /\ iscompleted = FALSE

-----------------------------------------------------------------------------
StartMonitoring ==
  /\ monitoring = "notStarted"
  /\ monitoring' = "test"
  /\ UNCHANGED <<queue, stored, sent, subscribed, crashed, promiseBroken,
                 isalive, monitoringError, iscompleted>>

\* while self.isalive
TestIsAlive ==
  /\ monitoring = "test"
  /\ monitoring' = IF isalive THEN "waiting" ELSE "gathering"
  /\ UNCHANGED <<queue, stored, sent, subscribed, crashed, promiseBroken,
                 isalive, monitoringError, iscompleted>>

\* Mutant: the time-out ends the loop.
TimeOutEndsLoop ==
  /\ monitoring = "waiting"
  /\ queue = <<>>
  /\ monitoring' = "gathering"
  /\ UNCHANGED <<queue, stored, sent, subscribed, crashed, promiseBroken,
                 isalive, monitoringError, iscompleted>>

\* Empty: nothing arrived within the five seconds.
GetTimesOut ==
  /\ monitoring = "waiting"
  /\ queue = <<>>
  /\ monitoring' = "test"
  /\ UNCHANGED <<queue, stored, sent, subscribed, crashed, promiseBroken,
                 isalive, monitoringError, iscompleted>>

(***************************************************************************)
(* The request is stored and every subscriber is sent onUpdate.  A call    *)
(* that cannot even be sent (refused) makes the manager send onError to    *)
(* that subscriber instead and unsubscribe it.  A call to an actor that    *)
(* has died is sent, and its promise is broken.                            *)
(***************************************************************************)
StoreAndNotify ==
  /\ monitoring = "waiting"
  /\ queue # <<>>
  /\ queue' = Tail(queue)
  /\ stored' = Append(stored, Head(queue))
  /\ \E refused \in SUBSET (subscribed \cap MayRefuse) :
       /\ sent' = [s \in Subscribers |->
                     IF s \in crashed \/ s \notin subscribed THEN sent[s]
                     ELSE IF s \in refused THEN sent[s] \cup {ErrorReport}
                     ELSE sent[s] \cup {Head(queue)}]
       /\ subscribed' = subscribed \ refused
       /\ promiseBroken' =
            (promiseBroken \/ \E s \in subscribed \ refused : s \in crashed)
  /\ monitoring' = "test"
  /\ UNCHANGED <<crashed, isalive, monitoringError, iscompleted>>

\* Mutant: onError is not sent.
StoreFailsSilently ==
  /\ monitoring = "waiting"
  /\ queue # <<>>
  /\ queue' = Tail(queue)
  /\ isalive' = FALSE
  /\ monitoringError' = TRUE
  /\ subscribed' = {}
  /\ monitoring' = "test"
  /\ UNCHANGED <<stored, sent, crashed, promiseBroken, iscompleted>>

\* Mutant: the loop goes on after a failure.
StoreFailsAndGoesOn ==
  /\ monitoring = "waiting"
  /\ queue # <<>>
  /\ queue' = Tail(queue)
  /\ monitoringError' = TRUE
  /\ sent' = [s \in Subscribers |->
                IF s \in subscribed \ crashed
                THEN sent[s] \cup {ErrorReport} ELSE sent[s]]
  /\ subscribed' = {}
  /\ monitoring' = "test"
  /\ UNCHANGED <<stored, crashed, promiseBroken, isalive, iscompleted>>

(***************************************************************************)
(* addMeasurement, or the queue itself, raises: onError is sent to every   *)
(* subscriber, all are unsubscribed, and the loop will end.                *)
(***************************************************************************)
StoreFails ==
  /\ monitoring = "waiting"
  /\ queue # <<>>
  /\ queue' = Tail(queue)
  /\ isalive' = FALSE
  /\ monitoringError' = TRUE
  /\ sent' = [s \in Subscribers |->
                IF s \in subscribed \ crashed
                THEN sent[s] \cup {ErrorReport} ELSE sent[s]]
  /\ subscribed' = {}
  /\ monitoring' = "test"
  /\ UNCHANGED <<stored, crashed, promiseBroken, iscompleted>>

(***************************************************************************)
(* Neither loop over the subscribers guards its onError: where sending one *)
(* to last raises, monitorUpdates logs it and monitoring is over.  The     *)
(* subscribers before last have been dealt with, the others are not.       *)
(***************************************************************************)
NotifyRaises ==
  /\ monitoring = "waiting"
  /\ queue # <<>>
  /\ queue' = Tail(queue)
  /\ stored' = Append(stored, Head(queue))
  /\ \E last \in subscribed \cap MayRefuse, told \in SUBSET subscribed :
       \E refused \in SUBSET (told \cap MayRefuse) :
         /\ last \notin told
         /\ sent' = [s \in Subscribers |->
                       IF s \in crashed \/ s \notin told THEN sent[s]
                       ELSE IF s \in refused THEN sent[s] \cup {ErrorReport}
                       ELSE sent[s] \cup {Head(queue)}]
         /\ subscribed' = subscribed \ refused
         /\ promiseBroken' =
              (promiseBroken \/ \E s \in told \ refused : s \in crashed)
  /\ monitoring' = "unsent"
  /\ UNCHANGED <<crashed, isalive, monitoringError, iscompleted>>

ReportRaises ==
  /\ monitoring = "waiting"
  /\ queue # <<>>
  /\ queue' = Tail(queue)
  /\ isalive' = FALSE
  /\ monitoringError' = TRUE
  /\ \E last \in subscribed \cap MayRefuse, told \in SUBSET subscribed :
       /\ last \notin told
       /\ sent' = [s \in Subscribers |->
                     IF s \in told \ crashed
                     THEN sent[s] \cup {ErrorReport} ELSE sent[s]]
       /\ subscribed' = subscribed \ told
  /\ monitoring' = "unsent"
  /\ UNCHANGED <<stored, crashed, promiseBroken, iscompleted>>

\* Every onUpdate call has been executed.
UpdatesExecuted == \A s \in Subscribers : sent[s] \subseteq {ErrorReport}

\* Mutant: the sent updates are not awaited.
CompletesWithoutGather ==
  /\ monitoring = "gathering"
  /\ ~promiseBroken
  /\ monitoring' = "completed"
  /\ iscompleted' = TRUE
  /\ UNCHANGED <<queue, stored, sent, subscribed, crashed, promiseBroken,
                 isalive, monitoringError>>

\* Mutant: an error keeps the manager from completing.
CompletesUnlessError ==
  /\ monitoring = "gathering"
  /\ UpdatesExecuted
  /\ ~promiseBroken
  /\ monitoring' = "completed"
  /\ iscompleted' = ~monitoringError
  /\ UNCHANGED <<queue, stored, sent, subscribed, crashed, promiseBroken,
                 isalive, monitoringError>>

\* gather returned; onCompleted is sent unless there was an error.
MonitoringCompletes ==
  /\ monitoring = "gathering"
  /\ UpdatesExecuted
  /\ ~promiseBroken
  /\ monitoring' = "completed"
  /\ iscompleted' = TRUE
  /\ UNCHANGED <<queue, stored, sent, subscribed, crashed, promiseBroken,
                 isalive, monitoringError>>

\* gather raises the first broken promise; monitorUpdates only logs it.
GatherRaises ==
  /\ monitoring = "gathering"
  /\ promiseBroken
  /\ monitoring' = "failed"
  /\ UNCHANGED <<queue, stored, sent, subscribed, crashed, promiseBroken,
                 isalive, monitoringError, iscompleted>>

\* shutdown(): what it changes; it then sleeps until iscompleted.
Shutdown ==
  /\ isalive' = FALSE
  /\ UNCHANGED <<queue, stored, sent, subscribed, crashed, promiseBroken,
                 monitoring, monitoringError, iscompleted>>

UnsubscribeFromUpdates(s) ==
  /\ subscribed' = subscribed \ {s}
  /\ UNCHANGED <<queue, stored, sent, crashed, promiseBroken, isalive,
                 monitoring, monitoringError, iscompleted>>

\* The actor of a subscriber dies: the calls it has not executed are lost.
SubscriberCrashes(s) ==
  /\ s \notin crashed
  /\ crashed' = crashed \cup {s}
  /\ promiseBroken' = (promiseBroken \/ ~(sent[s] \subseteq {ErrorReport}))
  /\ sent' = [sent EXCEPT ![s] = {}]
  /\ UNCHANGED <<queue, stored, subscribed, isalive, monitoring,
                 monitoringError, iscompleted>>

SendRaises == NotifyRaises \/ ReportRaises

MonitorStep ==
  \/ TestIsAlive \/ GetTimesOut \/ StoreAndNotify \/ StoreFails
  \/ MonitoringCompletes \/ GatherRaises

=============================================================================
