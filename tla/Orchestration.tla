---------------------------- MODULE Orchestration ----------------------------
(***************************************************************************)
(* The process that runs an operation: orchestrate() (orchestrate.py), the   *)
(* harness of an operation (_orchestrate_core.py), the set-up and shut-down  *)
(* of an explore operation (_explore_orchestration.py) and the handler of    *)
(* SIGTERM (_cleanup.py).  Operation 1 is the one orchestrate() calls, and   *)
(* operation k + 1 is one that the function of operation k calls.            *)
(*                                                                         *)
(* There is one thread: the frame of operation top runs, those below it wait *)
(* for it to return or to raise.  A signal comes between any two steps, and  *)
(* what its handler raises is raised there.  Modules ExploreOperation and    *)
(* ManagedSpace have what happens while an explore operation runs.           *)
(***************************************************************************)
EXTENDS Naturals, Sequences, FiniteSets, SequencesExt

CONSTANTS
  N,              \* operations, each called by the one before it
  Explore,        \* the explore operations: actors of Ray run them
  MaxInterrupts,  \* bound: SIGINTs
  MaxFaults       \* bound: failures of the database, crashes of operators, and
                  \* ends of the monitoring by an exception

Operations == 1 .. N
Frames == 0 .. N   \* frame 0 is orchestrate()

ASSUME NAssumption == N \in Nat \ {0}
\* Only the function of a general operation calls another operation.
ASSUME ExploreAssumption == Explore \subseteq {N}
ASSUME BoundAssumption == MaxInterrupts \in Nat /\ MaxFaults \in Nat

VARIABLES
  top,         \* the frame that runs
  pc,          \* what each frame does
  exc,         \* the exception a frame has caught, has raised or is to raise
  exit,        \* the exit state an operation is to be stored with
  nested,      \* operations whose nested operation was interrupted
  stored,      \* the latest event in the stored resource of an operation
  related,     \* operations that are related to their nested operation
  callbacks,   \* cleanup_callback_functions, in the order of registration
  terminated,  \* shutdown_signal_received
  handling,    \* the callback that the handler of SIGTERM runs, or 0
  rayUp,       \* whether this process is connected to Ray
  actors,      \* how far the actors of an explore operation are set up
  monitoring,  \* explore operations whose manager was told to monitor updates
  incomplete,  \* those whose monitoring an exception has ended: never completed
  operatorUp,  \* explore operations whose operator has not crashed
  interrupts, faults,
  hit          \* history: operations whose clean-up a signal or the database
               \* interrupted

frames == <<top, pc, exc, exit, nested>>
store == <<stored, related>>
signals == <<callbacks, terminated, handling>>
cluster == <<rayUp, actors, monitoring, incomplete, operatorUp>>
bounded == <<interrupts, faults, hit>>
vars == <<frames, store, signals, cluster, bounded>>

Exceptions == {"none", "KeyboardInterrupt", "InterruptedOperationError", "error"}
Phases == {"idle", "space", "setup", "create", "start", "run", "returned",
           "finalize", "store", "relate", "shutdown", "final", "done"}
ExitStates == {"success", "fail", "error"}

\* The set-up of an explore operation: the actor that it has created last, or
\* that its callback is registered, which cleans all of them up.
Stages == {"none", "cleaner", "actuators", "manager", "operator", "registered", "cleaned"}
NextActor == [none |-> "cleaner", cleaner |-> "actuators", actuators |-> "manager",
              manager |-> "operator"]

\* orchestrate() has connected to Ray and registered the handler of SIGTERM
\* and its callback, which stops Ray.
Init ==
  /\ top = 0
  /\ pc = [k \in Frames |-> IF k = 0 THEN "space" ELSE "idle"]
  /\ exc = [k \in Frames |-> "none"]
  /\ exit = [k \in Frames |-> "error"]
  /\ nested = {}
  /\ stored = [k \in Operations |-> "none"] /\ related = {}
  /\ callbacks = <<0>> /\ terminated = FALSE /\ handling = 0
  /\ rayUp = TRUE
  /\ actors = [k \in Operations |-> "none"]
  /\ monitoring = {} /\ incomplete = {} /\ operatorUp = {}
  /\ interrupts = 0 /\ faults = 0 /\ hit = {}

-----------------------------------------------------------------------------
(* Exceptions.                                                              *)

\* The harness raises InterruptedOperationError after an interrupt, its own or
\* that of a nested operation, and OperationException otherwise; orchestrate()
\* raises what it has caught.
Wrapped(k, e) == IF k = 0 \/ e = "error" THEN e ELSE "InterruptedOperationError"

\* The phases in which an exception is caught: by the try of orchestrate() and
\* of the harness, and by the finally that shuts an explore operation down.
InTry(k) == pc[k] \in {"start", "run"}
InFinally(k) == k \in Explore /\ pc[k] \in {"create", "finalize", "store", "relate"}

\* Exception e is caught in the try of frame k.
Caught(k, e) ==
  /\ exit' = [exit EXCEPT ![k] = "error"]
  /\ nested' = IF k > 0 /\ e = "InterruptedOperationError" THEN nested \cup {k}
               ELSE nested

AfterTry(k) == IF k = 0 THEN "final" ELSE "finalize"

\* Mutant: the harness catches what it expects, and nothing else.
ThrowPastHarness(e) ==
  LET j == IF top > 0 THEN top - 1 ELSE 0 IN
    /\ pc' = [pc EXCEPT ![top] = "done", ![j] = IF j = top THEN "done" ELSE AfterTry(j)]
    /\ top' = j
    /\ exc' = [exc EXCEPT ![top] = e, ![j] = Wrapped(j, e)]
    /\ Caught(j, e)

\* The frame that runs ends by raising e in its caller, which is in its try.
Raise(e) ==
  /\ pc' = [pc EXCEPT ![top] = "done", ![top - 1] = AfterTry(top - 1)]
  /\ top' = top - 1
  /\ exc' = [exc EXCEPT ![top] = e, ![top - 1] = Wrapped(top - 1, e)]
  /\ Caught(top - 1, e)

\* Exception e is raised in the frame that runs: caught there, or in a finally,
\* or else in the caller.  Once its function has returned, the harness goes on
\* to store what that returned, or an error if it has returned nothing, which
\* was to count as a success.
Throw(e) ==
  \/ /\ InTry(top)
     /\ pc' = [pc EXCEPT ![top] = AfterTry(top)]
     /\ exc' = [exc EXCEPT ![top] = Wrapped(top, e)]
     /\ Caught(top, e)
     /\ UNCHANGED top
  \/ /\ InFinally(top)
     /\ pc' = [pc EXCEPT ![top] = "shutdown"]
     /\ exc' = [exc EXCEPT ![top] = e]
     /\ UNCHANGED <<top, exit, nested>>
  \/ /\ pc[top] = "returned"
     /\ pc' = [pc EXCEPT ![top] = "finalize"]
     /\ exc' = [exc EXCEPT ![top] = e]
     /\ \/ UNCHANGED exit
        \/ exit[top] = "success" /\ exit' = [exit EXCEPT ![top] = "error"]
     /\ UNCHANGED <<top, nested>>
  \/ ~InTry(top) /\ ~InFinally(top) /\ pc[top] # "returned" /\ top > 0 /\ Raise(e)
  \/ /\ ~InTry(top) /\ top = 0
     /\ pc' = [pc EXCEPT ![0] = "done"]
     /\ exc' = [exc EXCEPT ![0] = e]
     /\ UNCHANGED <<top, exit, nested>>

\* The frame that runs ends: it returns, or raises what it has caught.
Leave ==
  IF exc[top] # "none"
  THEN Raise(exc[top])
  ELSE /\ pc' = [pc EXCEPT ![top] = "done"]
       /\ top' = top - 1
       /\ UNCHANGED <<exc, exit, nested>>

Goto(phase) ==
  /\ pc' = [pc EXCEPT ![top] = phase]
  /\ UNCHANGED <<top, exc, exit, nested>>

\* No callback of the handler runs, and frame top is in a phase.
At(phase) == handling = 0 /\ pc[top] = phase

-----------------------------------------------------------------------------
(* orchestrate().                                                           *)

SpaceLoaded ==
  /\ At("space") /\ Goto("run")
  /\ UNCHANGED <<store, signals, cluster, bounded>>

\* The space cannot be loaded or is not consistent: raised outside of the try.
SpaceRefused ==
  /\ At("space") /\ Throw("error")
  /\ UNCHANGED <<store, signals, cluster, bounded>>

\* A function calls the next operation.
CallOperation ==
  /\ At("run") /\ top < N /\ pc[top + 1] = "idle"
  /\ top' = top + 1
  /\ pc' = [pc EXCEPT ![top + 1] = IF top + 1 \in Explore THEN "setup" ELSE "create"]
  /\ UNCHANGED <<exc, exit, nested, store, signals, cluster, bounded>>

OperationReturned ==
  /\ At("run") /\ top = 0 /\ pc[1] = "done" /\ Goto("final")
  /\ UNCHANGED <<store, signals, cluster, bounded>>

Without(c) == RemoveFirst(callbacks, c)

\* Here the flag is read through its module: its value is that of the handler.
OrchestrateEnds ==
  /\ At("final") /\ Goto("done")
  /\ rayUp' = IF terminated THEN rayUp ELSE FALSE
  /\ callbacks' = IF terminated THEN callbacks ELSE Without(0)
  /\ UNCHANGED <<store, terminated, handling, actors, monitoring, incomplete, operatorUp,
                 bounded>>

-----------------------------------------------------------------------------
(* An explore operation: its actors are created one after the other, and then *)
(* its callback is registered.  Whatever is raised before that leaves the     *)
(* actors created so far as they are.                                        *)

CreateActor ==
  /\ At("setup") /\ rayUp /\ actors[top] \in DOMAIN NextActor
  /\ actors' = [actors EXCEPT ![top] = NextActor[@]]
  /\ operatorUp' = IF actors'[top] = "operator" THEN operatorUp \cup {top} ELSE operatorUp
  /\ UNCHANGED <<frames, store, signals, rayUp, monitoring, incomplete, bounded>>

RegisterCallback ==
  /\ At("setup") /\ actors[top] = "operator" /\ Goto("create")
  /\ actors' = [actors EXCEPT ![top] = "registered"]
  /\ callbacks' = Append(callbacks, top)
  /\ UNCHANGED <<store, terminated, handling, rayUp, monitoring, incomplete, operatorUp,
                 bounded>>

\* An actor is not created, or does not answer.
SetupRaises ==
  /\ At("setup") /\ Throw("error")
  /\ UNCHANGED <<store, signals, cluster, bounded>>

\* graceful_explore_operation_shutdown waits for the manager, which completes
\* only when it was told to monitor updates and no exception has ended that;
\* then the custom actors are cleaned up and the actors end.
CanComplete(k) == k \in monitoring \ incomplete
ShutDown(k) ==
  /\ rayUp /\ CanComplete(k)
  /\ actors' = [actors EXCEPT ![k] = "cleaned"]

\* Mutant: the actors are left to Ray when the operation has failed.
ShutdownIfReturned ==
  /\ At("shutdown") /\ rayUp /\ CanComplete(top) /\ Leave
  /\ actors' = IF exc[top] = "none" THEN [actors EXCEPT ![top] = "cleaned"] ELSE actors
  /\ callbacks' = Without(top)
  /\ UNCHANGED <<store, terminated, handling, rayUp, monitoring, incomplete, operatorUp,
                 bounded>>

\* The flag was imported by value: the test of it never skips the shut-down.
Shutdown ==
  /\ At("shutdown") /\ ShutDown(top) /\ Leave
  /\ callbacks' = Without(top)
  /\ UNCHANGED <<store, terminated, handling, rayUp, monitoring, incomplete, operatorUp,
                 bounded>>

\* Without a connection each call of an actor raises.
ShutdownRaises ==
  /\ At("shutdown") /\ ~rayUp /\ Throw("error")
  /\ UNCHANGED <<store, signals, cluster, bounded>>

-----------------------------------------------------------------------------
(* The harness.                                                             *)

Create ==
  /\ At("create") /\ Goto("start")
  /\ stored' = [stored EXCEPT ![top] = "added"]
  /\ UNCHANGED <<related, signals, cluster, bounded>>

Start ==
  /\ At("start") /\ Goto("run")
  /\ stored' = [stored EXCEPT ![top] = "started"]
  /\ UNCHANGED <<related, signals, cluster, bounded>>

\* The function of an explore operation has its manager monitor updates.
StartMonitoring ==
  /\ At("run") /\ top \in Explore \ monitoring /\ rayUp
  /\ monitoring' = monitoring \cup {top}
  /\ UNCHANGED <<frames, store, signals, rayUp, actors, incomplete, operatorUp, bounded>>

\* The function returns nothing, which counts as a success, or an output with
\* an exit state of its own choice: that of an explore operation only while its operator
\* and the connection are there, that of another whatever the handler has done.
CanReturn(k) == k \in Explore => rayUp /\ k \in monitoring /\ k \in operatorUp
RunReturns ==
  /\ At("run") /\ top > 0 /\ CanReturn(top)
  /\ pc' = [pc EXCEPT ![top] = "returned"]
  /\ \E s \in ExitStates : exit' = [exit EXCEPT ![top] = s]
  /\ UNCHANGED <<top, exc, nested, store, signals, cluster, bounded>>

\* The harness sleeps for a second before it goes on.
Returned ==
  /\ At("returned") /\ Goto("finalize")
  /\ UNCHANGED <<store, signals, cluster, bounded>>

RunRaises ==
  /\ At("run") /\ top > 0 /\ Throw("error")
  /\ UNCHANGED <<store, signals, cluster, bounded>>

\* The callback of an explore operation asks the operator what it has sampled.
\* What it raises, but for a timeout, ends the finally: no final status is
\* stored.
CanFinalize(k) == k \in Explore => rayUp /\ k \in operatorUp
Finalize ==
  /\ At("finalize") /\ CanFinalize(top) /\ Goto("store")
  /\ UNCHANGED <<store, signals, cluster, bounded>>
\* Mutant: asking an operator that has crashed never returns.
FinalizeWaits ==
  /\ At("finalize") /\ top \in Explore /\ ~rayUp /\ Throw("error")
  /\ UNCHANGED <<store, signals, cluster, bounded>>
FinalizeRaises ==
  /\ At("finalize") /\ ~CanFinalize(top) /\ Throw("error")
  /\ UNCHANGED <<store, signals, cluster, bounded>>

\* The harness ends after it has stored the final status and, if a nested
\* operation was interrupted, the relation to that.
AfterHarness == IF top \in Explore THEN Goto("shutdown") ELSE Leave

\* Mutant: the status of a function that returned overrides what was caught.
StoreFinalAsSuccess ==
  /\ At("store")
  /\ stored' = [stored EXCEPT ![top] = "success"]
  /\ IF top \in nested THEN Goto("relate") ELSE AfterHarness
  /\ UNCHANGED <<related, signals, cluster, bounded>>
StoreFinal ==
  /\ At("store")
  /\ stored' = [stored EXCEPT ![top] = exit[top]]
  /\ IF top \in nested THEN Goto("relate") ELSE AfterHarness
  /\ UNCHANGED <<related, signals, cluster, bounded>>

\* Mutant: the relation is left to the nested operation.
RelateNothing ==
  /\ At("relate") /\ AfterHarness
  /\ UNCHANGED <<store, signals, cluster, bounded>>
Relate ==
  /\ At("relate") /\ AfterHarness
  /\ related' = related \cup {top}
  /\ UNCHANGED <<stored, signals, cluster, bounded>>

-----------------------------------------------------------------------------
(* Signals and faults.                                                      *)

\* What a signal or the database raises in a phase that cleans up.
Hit == hit' = IF pc[top] \in {"finalize", "store", "relate", "shutdown"}
              THEN hit \cup {top} ELSE hit

\* The first SIGTERM: the callbacks run in the order of registration.  Those
\* that come later are ignored.
Sigterm ==
  /\ pc[0] # "done" /\ ~terminated
  /\ terminated' = TRUE
  /\ handling' = IF callbacks = <<>> THEN 0 ELSE 1
  /\ UNCHANGED <<frames, store, callbacks, cluster, bounded>>

\* The callback that runs, and what comes after it.
Callback == callbacks[handling]
NextCallback == handling' = IF handling = Len(callbacks) THEN 0 ELSE handling + 1

\* The callback of orchestrate() is the first: it stops Ray, and every actor.
HandlerStopsRay ==
  /\ handling > 0 /\ Callback = 0
  /\ rayUp' = FALSE
  /\ NextCallback
  /\ UNCHANGED <<frames, store, callbacks, terminated, actors, monitoring, incomplete,
                 operatorUp, bounded>>

\* The callback of an explore operation then raises: while a relation is stored
\* that is caught.
HandlerRaises ==
  /\ handling > 0 /\ Callback > 0 /\ ~rayUp
  /\ (pc[top] = "relate" /\ AfterHarness) \/ Throw("error")
  /\ handling' = 0
  /\ Hit
  /\ UNCHANGED <<store, callbacks, terminated, cluster, interrupts, faults>>

Sigint ==
  /\ pc[0] # "done" /\ interrupts < MaxInterrupts
  /\ Throw("KeyboardInterrupt")
  /\ handling' = 0
  /\ interrupts' = interrupts + 1
  /\ Hit
  /\ UNCHANGED <<store, callbacks, terminated, cluster, faults>>

DatabaseFails ==
  /\ handling = 0 /\ pc[top] \in {"create", "start", "store"} /\ faults < MaxFaults
  /\ Throw("error")
  /\ faults' = faults + 1
  /\ Hit
  /\ UNCHANGED <<store, signals, cluster, interrupts>>

OperatorCrashes(k) ==
  /\ k \in operatorUp /\ actors[k] # "cleaned" /\ faults < MaxFaults
  /\ operatorUp' = operatorUp \ {k}
  /\ faults' = faults + 1
  /\ UNCHANGED <<frames, store, signals, rayUp, actors, monitoring, incomplete,
                 interrupts, hit>>

\* An update that the operator cannot execute any more, or an error that cannot
\* be sent to it: the exception that ends the monitoring is only logged.
MonitoringFails(k) ==
  /\ CanComplete(k) /\ actors[k] # "cleaned" /\ faults < MaxFaults
  /\ incomplete' = incomplete \cup {k}
  /\ faults' = faults + 1
  /\ UNCHANGED <<frames, store, signals, rayUp, actors, monitoring, operatorUp,
                 interrupts, hit>>

-----------------------------------------------------------------------------
Step ==
  \/ SpaceLoaded \/ SpaceRefused \/ CallOperation \/ OperationReturned
  \/ OrchestrateEnds
  \/ CreateActor \/ RegisterCallback \/ SetupRaises \/ Shutdown \/ ShutdownRaises
  \/ Create \/ Start \/ StartMonitoring \/ RunReturns \/ Returned \/ RunRaises
  \/ Finalize \/ FinalizeRaises \/ StoreFinal \/ Relate
  \/ HandlerStopsRay \/ HandlerRaises

Fault ==
  \/ Sigterm \/ Sigint \/ DatabaseFails
  \/ \E k \in Operations : OperatorCrashes(k) \/ MonitoringFails(k)

Next == Step \/ Fault

\* The thread goes on as long as it can, and functions end; nothing says that
\* a signal or a fault comes.
Spec == Init /\ [][Next]_vars /\ WF_vars(Step)

-----------------------------------------------------------------------------
(* Properties.                                                              *)

TypeOK ==
  /\ top \in Frames /\ pc \in [Frames -> Phases] /\ exc \in [Frames -> Exceptions]
  /\ \A k \in Frames : pc[k] \notin {"idle", "done"} => k <= top
  /\ \A k \in Frames : k < top => pc[k] = "run"
  /\ exit \in [Frames -> ExitStates] /\ nested \subseteq Operations
  /\ stored \in [Operations -> {"none", "added", "started"} \cup ExitStates]
  /\ related \subseteq Operations
  /\ callbacks \in Seq(Frames) /\ terminated \in BOOLEAN
  /\ handling \in 0 .. Len(callbacks)
  /\ rayUp \in BOOLEAN /\ actors \in [Operations -> Stages]
  /\ monitoring \subseteq Explore /\ incomplete \subseteq monitoring
  /\ operatorUp \subseteq Explore
  /\ interrupts \in 0 .. MaxInterrupts /\ faults \in 0 .. MaxFaults
  /\ hit \subseteq Frames

\* However an operation ends, the end is stored, or it would count as running
\* when others are to be deleted.  It is not when something is raised in the
\* finally of the harness itself: by a signal, by the database, or by the
\* callback that asks an operator which has crashed, or whose connection
\* SIGTERM has closed.
EndIsStored ==
  \A k \in Operations :
    pc[k] = "done" /\ stored[k] \in {"added", "started"} =>
      k \in hit \/ (k \in Explore /\ (terminated \/ k \notin operatorUp))

\* What ends a nested operation is not lost on the way up: an operation whose
\* nested operation has raised, whatever it raised and in which phase, is not
\* stored as a success.  What its function makes of a nested operation that
\* returned "fail" or "error" is up to the function.
NoSuccessOverException ==
  \A k \in Operations :
    stored[k] = "success" /\ k < N /\ pc[k + 1] = "done" => exc[k + 1] = "none"

\* An interrupted nested operation is found from the operation that called it.
InterruptedIsRelated ==
  \A k \in nested : pc[k] = "done" => k \in related \/ k \in hit

\* Ray is not stopped before the actors of an explore operation are cleaned up
\* that was set up, unless SIGTERM came, or something was raised in the clean-up.
\* What is raised during the set-up leaves the actors created so far.
CleanedUpBeforeRayStops ==
  [][rayUp /\ ~rayUp' =>
       \A k \in Explore : actors[k] = "registered" => terminated \/ k \in hit]_vars

\* The process ends, whatever is raised in it, or it waits for ever in one place
\* only: in the shut-down of an explore operation whose manager cannot complete.
EndsOrWaits ==
  (pc[0] # "space" \/ top > 0) ~>
    \/ pc[0] = "done"
    \/ \E k \in Explore : pc[k] = "shutdown" /\ rayUp /\ ~CanComplete(k)
=============================================================================
