------------------------ MODULE OrchestrationProofs ------------------------
(***************************************************************************)
(* Proofs about the process that runs an operation, for any number of       *)
(* operations that call each other and any number of signals and faults:    *)
(* what is stored of an operation that ends, and of those it called, and     *)
(* that Ray is not stopped under the actors of an explore operation.         *)
(***************************************************************************)
EXTENDS Orchestration, WellFoundedInduction, TLAPS

\* The frames: those below the one that runs wait in their function.
FramesOK ==
  /\ top \in Frames /\ pc \in [Frames -> Phases] /\ exc \in [Frames -> Exceptions]
  /\ \A k \in Frames : pc[k] \notin {"idle", "done"} => k <= top
  /\ \A k \in Frames : k < top => pc[k] = "run"
  /\ exit \in [Frames -> ExitStates] /\ nested \subseteq Operations
  /\ pc[0] \in {"space", "run", "final", "done"}
  /\ \A k \in Operations : pc[k] \notin {"space", "final"}
  /\ \A k \in Operations : pc[k] \in {"setup", "shutdown"} => k \in Explore
  /\ top > 0 => pc[top] \notin {"idle", "done"}

StoreOK ==
  /\ stored \in [Operations -> {"none", "added", "started"} \cup ExitStates]
  /\ related \subseteq Operations
SignalsOK ==
  /\ callbacks \in Seq(Frames) /\ terminated \in BOOLEAN
  /\ handling \in 0 .. Len(callbacks)
ClusterOK ==
  /\ rayUp \in BOOLEAN /\ actors \in [Operations -> Stages]
  /\ monitoring \subseteq Explore /\ incomplete \subseteq monitoring
  /\ operatorUp \subseteq Explore
  /\ interrupts \in 0 .. MaxInterrupts /\ faults \in 0 .. MaxFaults
  /\ hit \subseteq Frames

\* What is stored as a success was returned as one, by a function whose nested
\* operation has not raised.
Succeeds ==
  \A k \in Operations :
    /\ exit[k] = "success" =>
         pc[k] \in {"returned", "finalize", "store", "relate", "shutdown", "done"}
    /\ stored[k] = "success" => exit[k] = "success" /\ pc[k] \in {"relate", "shutdown", "done"}
    /\ k < N /\ pc[k + 1] = "done" /\ (pc[k] = "run" \/ exit[k] = "success") =>
         exc[k + 1] = "none"

\* An operation whose function has not begun has called none.
Early == {"idle", "setup", "create", "start"}
Fresh == \A k \in Operations : k < N /\ pc[k] \in Early => pc[k + 1] = "idle"

\* Only a general operation has an interrupted nested operation, and it is past
\* its function.
Relates ==
  \A k \in nested :
    /\ k \notin Explore /\ pc[k] \in {"finalize", "store", "relate", "done"}
    /\ pc[k] = "done" => k \in related \/ k \in hit

\* What may keep the final status of an operation from being stored.
Excused(k) == k \in hit \/ (k \in Explore /\ (terminated \/ k \notin operatorUp))
Stores ==
  \A k \in Operations :
    /\ pc[k] \in {"idle", "setup", "create"} => stored[k] = "none"
    /\ pc[k] \in {"relate", "shutdown", "done"} /\ stored[k] \in {"added", "started"} =>
         Excused(k)

\* Only SIGTERM, or the end of orchestrate(), closes the connection to Ray.
RayStops ==
  /\ handling > 0 => terminated
  /\ ~rayUp => terminated \/ pc[0] = "done"

CleansUp ==
  \A k \in Explore :
    /\ pc[k] \in {"idle", "setup"} => actors[k] # "registered"
    /\ pc[k] = "done" /\ actors[k] = "registered" => terminated \/ k \in hit

IInv ==
  /\ FramesOK /\ StoreOK /\ SignalsOK /\ ClusterOK
  /\ Fresh /\ Succeeds /\ Relates /\ Stores /\ RayStops /\ CleansUp

-----------------------------------------------------------------------------
(* Removing a callback.                                                    *)

LEMMA NatWellFounded ==
  IsWellFoundedOn({pair \in Nat \X Nat : pair[1] < pair[2]}, Nat)
BY NatLessThanWellFounded DEF OpToRel

LEMMA MinOfNaturals ==
  ASSUME NEW I \in SUBSET Nat, I # {}
  PROVE  \E i \in I : \A j \in I : i <= j
<1>. DEFINE Smaller == {pair \in Nat \X Nat : pair[1] < pair[2]}
<1>1. IsWellFoundedOn(Smaller, Nat)
  BY NatWellFounded
<1>2. PICK i \in I : \A j \in I : <<j, i>> \notin Smaller
  <2>. HIDE DEF Smaller
  <2>. QED
    BY <1>1, WFMin
<1>3. ASSUME NEW j \in I PROVE i <= j
  <2>1. ~(j < i)
    BY <1>2
  <2>. QED
    BY <2>1
<1>. QED
  BY <1>3

LEMMA RemoveAtType ==
  ASSUME NEW S, NEW s \in Seq(S), NEW i \in 1 .. Len(s)
  PROVE  RemoveAt(s, i) \in Seq(S)
BY DEF RemoveAt

LEMMA RemoveFirstType ==
  ASSUME NEW S, NEW s \in Seq(S), NEW e
  PROVE  RemoveFirst(s, e) \in Seq(S)
<1>1. CASE \E i \in 1 .. Len(s) : s[i] = e
  <2>. DEFINE I == {i \in 1 .. Len(s) : s[i] = e}
              first == SelectInSeq(s, LAMBDA v : v = e)
  <2>1. I \in SUBSET Nat /\ I # {}
    BY <1>1
  <2>2. PICK i \in I : \A j \in I : i <= j
    <3>. HIDE DEF I
    <3>. QED
      BY <2>1, MinOfNaturals
  <2>3. first \in 1 .. Len(s)
    BY <1>1, <2>2 DEF SelectInSeq, Min
  <2>4. RemoveFirst(s, e) = RemoveAt(s, first)
    BY <1>1, Zenon DEF RemoveFirst
  <2>. HIDE DEF first
  <2>. QED
    BY <2>3, <2>4, RemoveAtType
<1>2. CASE ~\E i \in 1 .. Len(s) : s[i] = e
  BY <1>2, Zenon DEF RemoveFirst
<1>. QED
  BY <1>1, <1>2

-----------------------------------------------------------------------------
(* The invariant holds at first.                                           *)

LEMMA InitInv == Init => IInv
<1>. SUFFICES ASSUME Init PROVE IInv
  OBVIOUS
<1>. USE NAssumption, BoundAssumption, ExploreAssumption
     DEF Init, Frames, Operations, Phases, Exceptions, ExitStates, Stages
<1>1. FramesOK
  BY DEF FramesOK
<1>2. StoreOK /\ ClusterOK
  BY DEF StoreOK, ClusterOK
<1>5. SignalsOK
  <2>1. <<0>> \in Seq(0 .. N)
    OBVIOUS
  <2>2. Len(<<0>>) = 1
    OBVIOUS
  <2>3. callbacks = <<0>> /\ handling = 0 /\ terminated = FALSE
    OBVIOUS
  <2>. HIDE DEF Init
  <2>4. callbacks \in Seq(0 .. N)
    BY <2>1, <2>3
  <2>5. Len(callbacks) = 1
    BY <2>2, <2>3
  <2>6. handling \in 0 .. Len(callbacks)
    BY <2>3, <2>5
  <2>. QED
    BY <2>3, <2>4, <2>6 DEF SignalsOK
<1>3. Fresh /\ Succeeds /\ Relates /\ Stores
  BY DEF Fresh, Succeeds, Relates, Stores
<1>4. RayStops /\ CleansUp
  BY DEF RayStops, CleansUp
<1>. QED
  BY <1>1, <1>2, <1>3, <1>4, <1>5 DEF IInv

-----------------------------------------------------------------------------
(* Each part of the invariant is preserved.                                *)

LEMMA CaughtBelow ==
  ASSUME FramesOK, top > 0, NEW e \in Exceptions,
         Raise(e)
  PROVE  FramesOK'
<1>. USE NAssumption, ExploreAssumption DEF FramesOK, Frames, Operations
<1>1. top \in 1 .. N /\ top - 1 \in 0 .. N /\ top - 1 < N
  OBVIOUS
<1>2. AfterTry(top - 1) \in {"final", "finalize"} /\ AfterTry(top - 1) \in Phases
  BY DEF AfterTry, Phases
<1>3. /\ pc' \in [Frames -> Phases] /\ pc'[top] = "done"
      /\ pc'[top - 1] = AfterTry(top - 1)
      /\ \A k \in Frames \ {top, top - 1} : pc'[k] = pc[k]
  BY <1>1, <1>2 DEF Phases, Raise
<1>4. exc' \in [Frames -> Exceptions]
  <2>1. Wrapped(top - 1, e) \in Exceptions
    BY DEF Wrapped, Exceptions
  <2>. QED
    BY <1>1, <2>1 DEF Raise
<1>8. exit' \in [Frames -> ExitStates]
  BY <1>1 DEF Raise, Caught, ExitStates
<1>5. nested' \subseteq Operations
  BY <1>1 DEF Raise, Caught
<1>6. /\ \A k \in Frames : pc'[k] \notin {"idle", "done"} => k <= top'
      /\ \A k \in Frames : k < top' => pc'[k] = "run"
  <2>1. ASSUME NEW k \in Frames PROVE /\ pc'[k] \notin {"idle", "done"} => k <= top - 1
                                     /\ k < top - 1 => pc'[k] = "run"
    <3>1. k \in 0 .. N /\ (k = top \/ k = top - 1 \/ k \in Frames \ {top, top - 1})
      OBVIOUS
    <3>. QED
      BY <1>1, <1>3, <3>1
  <2>. QED
    BY <2>1 DEF Raise
<1>7. /\ pc'[0] \in {"space", "run", "final", "done"}
      /\ \A k \in Operations : pc'[k] \notin {"space", "final"}
      /\ \A k \in Operations : pc'[k] \in {"setup", "shutdown"} => k \in Explore
      /\ top' > 0 => pc'[top'] \notin {"idle", "done"}
  BY <1>1, <1>2, <1>3 DEF AfterTry, Raise
<1>. QED
  BY <1>1, <1>3, <1>4, <1>5, <1>6, <1>7, <1>8 DEF Raise

LEMMA ReturnedTo ==
  ASSUME FramesOK, top > 0, pc' = [pc EXCEPT ![top] = "done"], top' = top - 1,
         UNCHANGED <<exc, exit, nested>>
  PROVE  FramesOK'
<1>. USE NAssumption, ExploreAssumption DEF FramesOK, Frames, Operations
<1>1. top \in 1 .. N /\ top - 1 \in 0 .. N /\ top - 1 < N
  OBVIOUS
<1>3. /\ pc' \in [Frames -> Phases] /\ pc'[top] = "done"
      /\ \A k \in Frames \ {top} : pc'[k] = pc[k]
  BY <1>1 DEF Phases
<1>. QED
  BY <1>1, <1>3

LEMMA ThrowFrames ==
  ASSUME FramesOK, NEW e \in {"KeyboardInterrupt", "error"}, Throw(e)
  PROVE  FramesOK'
<1>. USE NAssumption, ExploreAssumption DEF Frames, Operations
<1>. e \in Exceptions
  BY DEF Exceptions
<1>1. CASE InTry(top)
  <2>1. ~InFinally(top) /\ pc[top] # "returned" /\ AfterTry(top) \in Phases
    BY <1>1 DEF InTry, InFinally, AfterTry, Phases
  <2>2. /\ pc' = [pc EXCEPT ![top] = AfterTry(top)]
        /\ exc' = [exc EXCEPT ![top] = Wrapped(top, e)]
        /\ Caught(top, e) /\ UNCHANGED top
    BY <1>1, <2>1 DEF Throw
  <2>3. Wrapped(top, e) \in Exceptions
    BY DEF Wrapped, Exceptions
  <2>4. exit' \in [Frames -> ExitStates] /\ nested' \subseteq Operations
    BY <2>2 DEF Caught, FramesOK, ExitStates
  <2>. QED
    BY <1>1, <2>1, <2>2, <2>3, <2>4 DEF FramesOK, AfterTry
<1>2. CASE InFinally(top)
  <2>1. ~InTry(top) /\ pc[top] # "returned" /\ top > 0 /\ top \in Explore
    BY <1>2 DEF InTry, InFinally, FramesOK
  <2>2. /\ pc' = [pc EXCEPT ![top] = "shutdown"]
        /\ exc' = [exc EXCEPT ![top] = e] /\ UNCHANGED <<top, exit, nested>>
    BY <1>2, <2>1 DEF Throw, Raise
  <2>. QED
    BY <2>1, <2>2 DEF FramesOK, Phases
<1>3. CASE pc[top] = "returned"
  <2>1. top \in 1 .. N /\ ~InTry(top) /\ ~InFinally(top)
    BY <1>3 DEF FramesOK, InTry, InFinally
  <2>2. /\ pc' = [pc EXCEPT ![top] = "finalize"] /\ exc' = [exc EXCEPT ![top] = e]
        /\ exit' \in [Frames -> ExitStates] /\ UNCHANGED <<top, nested>>
    BY <1>3, <2>1 DEF Throw, FramesOK, ExitStates
  <2>. QED
    BY <1>3, <2>1, <2>2 DEF FramesOK, Phases, Exceptions
<1>4. CASE ~InTry(top) /\ ~InFinally(top) /\ pc[top] # "returned"
  <2>1. CASE top > 0 /\ Raise(e)
    BY <2>1, CaughtBelow
  <2>2. CASE /\ top = 0 /\ pc' = [pc EXCEPT ![0] = "done"]
             /\ exc' = [exc EXCEPT ![0] = e] /\ UNCHANGED <<top, exit, nested>>
    BY <2>2 DEF FramesOK, Phases
  <2>. QED
    BY <1>4, <2>1, <2>2 DEF Throw
<1>. QED
  BY <1>1, <1>2, <1>3, <1>4

LEMMA LeaveFrames ==
  ASSUME FramesOK, top > 0, Leave
  PROVE  FramesOK'
<1>1. exc[top] \in Exceptions
  BY DEF FramesOK
<1>. QED
  BY <1>1, CaughtBelow, ReturnedTo DEF Leave

\* A frame that ends a phase of the harness, or of the shut-down, is not the last.
LEMMA HasCaller ==
  ASSUME FramesOK, At("store") \/ At("relate") \/ At("shutdown")
  PROVE  top > 0
BY NAssumption DEF FramesOK, At, Frames

LEMMA GotoFrames ==
  ASSUME FramesOK, top > 0, NEW p \in {"relate", "shutdown"}, Goto(p),
         p = "shutdown" => top \in Explore
  PROVE  FramesOK'
<1>. USE NAssumption, ExploreAssumption DEF FramesOK, Frames, Operations
<1>1. p \in Phases
  BY DEF Phases
<1>2. /\ pc' \in [Frames -> Phases] /\ pc'[top] = p
      /\ \A k \in Frames \ {top} : pc'[k] = pc[k]
      /\ UNCHANGED <<top, exc, exit, nested>>
  BY <1>1 DEF Goto
<1>3. /\ \A k \in Frames : pc'[k] \notin {"idle", "done"} => k <= top
      /\ \A k \in Frames : k < top => pc'[k] = "run"
  BY <1>2
<1>4. /\ pc'[0] \in {"space", "run", "final", "done"}
      /\ \A k \in Operations : pc'[k] \notin {"space", "final"}
      /\ \A k \in Operations : pc'[k] \in {"setup", "shutdown"} => k \in Explore
  BY <1>2
<1>. QED
  BY <1>2, <1>3, <1>4

LEMMA AfterHarnessFrames ==
  ASSUME FramesOK, pc[top] \in {"store", "relate"}, AfterHarness
  PROVE  FramesOK'
<1>. USE NAssumption, ExploreAssumption
<1>1. top > 0
  BY DEF FramesOK, Frames
<1>2. CASE top \in Explore
  BY <1>1, <1>2, GotoFrames DEF AfterHarness
<1>3. CASE top \notin Explore
  BY <1>1, <1>3, LeaveFrames DEF AfterHarness
<1>. QED
  BY <1>2, <1>3

LEMMA FramesNext ==
  ASSUME FramesOK, [Next]_vars
  PROVE  FramesOK'
<1>. USE NAssumption, ExploreAssumption
     DEF FramesOK,
         Frames, Operations, Phases, Exceptions, ExitStates, Stages, NextActor, At, frames, store, signals, cluster,
         bounded
<1>1. ASSUME SpaceLoaded PROVE FramesOK'
  BY <1>1 DEF SpaceLoaded, Goto
<1>2. ASSUME SpaceRefused PROVE FramesOK'
  BY <1>2, ThrowFrames DEF SpaceRefused
<1>3. ASSUME CallOperation PROVE FramesOK'
  BY <1>3 DEF CallOperation
<1>4. ASSUME OperationReturned PROVE FramesOK'
  BY <1>4 DEF OperationReturned, Goto
<1>5. ASSUME OrchestrateEnds PROVE FramesOK'
  BY <1>5 DEF OrchestrateEnds, Goto
<1>6a. ASSUME CreateActor PROVE FramesOK'
  BY <1>6a DEF CreateActor
<1>6b. ASSUME RegisterCallback PROVE FramesOK'
  BY <1>6b DEF RegisterCallback, Goto
<1>7. ASSUME SetupRaises PROVE FramesOK'
  BY <1>7, ThrowFrames DEF SetupRaises
<1>8. ASSUME Shutdown PROVE FramesOK'
  BY <1>8, LeaveFrames, HasCaller DEF Shutdown
<1>9. ASSUME ShutdownRaises PROVE FramesOK'
  BY <1>9, ThrowFrames DEF ShutdownRaises
<1>10. ASSUME Create PROVE FramesOK'
  BY <1>10 DEF Create, Goto
<1>11. ASSUME Start PROVE FramesOK'
  BY <1>11 DEF Start, Goto
<1>12. ASSUME StartMonitoring PROVE FramesOK'
  BY <1>12 DEF StartMonitoring
<1>13a. ASSUME RunReturns PROVE FramesOK'
  BY <1>13a DEF RunReturns, CanReturn
<1>13b. ASSUME Returned PROVE FramesOK'
  BY <1>13b DEF Returned, Goto
<1>14. ASSUME RunRaises PROVE FramesOK'
  BY <1>14, ThrowFrames DEF RunRaises
<1>15. ASSUME Finalize PROVE FramesOK'
  BY <1>15 DEF Finalize, Goto, CanFinalize
<1>16. ASSUME FinalizeRaises PROVE FramesOK'
  BY <1>16, ThrowFrames DEF FinalizeRaises
<1>17. ASSUME StoreFinal PROVE FramesOK'
  <2>1. CASE top \in nested
    BY <1>17, <2>1, HasCaller, GotoFrames DEF StoreFinal
  <2>2. CASE top \notin nested
    BY <1>17, <2>2, AfterHarnessFrames DEF StoreFinal
  <2>. QED
    BY <2>1, <2>2
<1>18. ASSUME Relate PROVE FramesOK'
  BY <1>18, AfterHarnessFrames DEF Relate
<1>19. ASSUME HandlerStopsRay PROVE FramesOK'
  BY <1>19 DEF HandlerStopsRay, NextCallback
<1>20. ASSUME HandlerRaises PROVE FramesOK'
  BY <1>20, ThrowFrames, AfterHarnessFrames DEF HandlerRaises
<1>21. ASSUME Sigterm PROVE FramesOK'
  BY <1>21 DEF Sigterm
<1>22. ASSUME Sigint PROVE FramesOK'
  BY <1>22, ThrowFrames DEF Sigint
<1>23. ASSUME DatabaseFails PROVE FramesOK'
  BY <1>23, ThrowFrames DEF DatabaseFails
<1>24a. ASSUME NEW k \in Operations, OperatorCrashes(k) PROVE FramesOK'
  BY <1>24a DEF OperatorCrashes
<1>24b. ASSUME NEW k \in Operations, MonitoringFails(k) PROVE FramesOK'
  BY <1>24b DEF MonitoringFails, CanComplete
<1>25. CASE UNCHANGED vars
  BY <1>25 DEF vars
<1>. QED
  BY <1>1, <1>2, <1>3, <1>4, <1>5, <1>6a, <1>6b, <1>7, <1>8, <1>9, <1>10, <1>11, <1>12, <1>13a, <1>13b,
       <1>14, <1>15, <1>16, <1>17, <1>18, <1>19, <1>20, <1>21, <1>22, <1>23, <1>24a, <1>24b,
       <1>25 DEF Next, Step, Fault

LEMMA StoreNext ==
  ASSUME FramesOK, StoreOK, [Next]_vars
  PROVE  StoreOK'
<1>. USE NAssumption, ExploreAssumption
     DEF FramesOK, StoreOK,
         Frames, Operations, Phases, Exceptions, ExitStates, Stages, NextActor, At, frames, store, signals, cluster,
         bounded
<1>1. CASE UNCHANGED store
  BY <1>1
<1>2. ASSUME Create PROVE StoreOK'
  BY <1>2 DEF Create, Goto
<1>3. ASSUME Start PROVE StoreOK'
  BY <1>3 DEF Start, Goto
<1>4. ASSUME StoreFinal PROVE StoreOK'
  BY <1>4 DEF StoreFinal, AfterHarness, Goto, Leave, Raise, Caught, Wrapped, AfterTry
<1>5. ASSUME Relate PROVE StoreOK'
  BY <1>5 DEF Relate, AfterHarness, Goto, Leave, Raise, Caught, Wrapped, AfterTry
<1>. QED
  BY <1>1, <1>2, <1>3, <1>4, <1>5
     DEF Next, Step, Fault, vars, SpaceLoaded, SpaceRefused, CallOperation,
         OperationReturned, OrchestrateEnds, CreateActor, RegisterCallback, SetupRaises, Shutdown,
         ShutdownRaises, StartMonitoring, RunReturns, Returned, RunRaises, Finalize,
         FinalizeRaises, HandlerStopsRay, HandlerRaises, Sigterm, Sigint,
         DatabaseFails, OperatorCrashes, MonitoringFails

LEMMA SignalsNext ==
  ASSUME FramesOK, SignalsOK, [Next]_vars
  PROVE  SignalsOK'
<1>. USE NAssumption, ExploreAssumption
     DEF FramesOK, SignalsOK,
         Frames, Operations, Phases, Exceptions, ExitStates, Stages, NextActor, At, frames, store, signals, cluster,
         bounded
<1>1. CASE UNCHANGED signals
  BY <1>1
<1>2. ASSUME OrchestrateEnds PROVE SignalsOK'
  BY <1>2, RemoveFirstType DEF OrchestrateEnds, Goto, Without
<1>3a. ASSUME CreateActor PROVE SignalsOK'
  BY <1>3a DEF CreateActor
<1>3b. ASSUME RegisterCallback PROVE SignalsOK'
  BY <1>3b DEF RegisterCallback, Goto
<1>4. ASSUME Shutdown PROVE SignalsOK'
  BY <1>4, RemoveFirstType DEF Shutdown, Without
<1>5. ASSUME HandlerStopsRay PROVE SignalsOK'
  BY <1>5 DEF HandlerStopsRay, NextCallback
<1>6. ASSUME HandlerRaises PROVE SignalsOK'
  BY <1>6 DEF HandlerRaises, AfterHarness, Goto, Leave, Raise, Caught, Wrapped, AfterTry,
       Throw, InTry, InFinally, Hit
<1>7. ASSUME Sigterm PROVE SignalsOK'
  BY <1>7 DEF Sigterm
<1>8. ASSUME Sigint PROVE SignalsOK'
  BY <1>8 DEF Sigint, Throw, Raise, InTry, InFinally, Caught, Wrapped, AfterTry, Hit
<1>. QED
  BY <1>1, <1>2, <1>3a, <1>3b, <1>4, <1>5, <1>6, <1>7, <1>8
     DEF Next, Step, Fault, vars, SpaceLoaded, SpaceRefused, CallOperation,
         OperationReturned, SetupRaises, ShutdownRaises, Create, Start,
         StartMonitoring, RunReturns, Returned, RunRaises, Finalize, FinalizeRaises, StoreFinal,
         Relate, DatabaseFails, OperatorCrashes, MonitoringFails

LEMMA ClusterNext ==
  ASSUME FramesOK, ClusterOK, [Next]_vars
  PROVE  ClusterOK'
<1>. USE BoundAssumption
<1>. USE NAssumption, ExploreAssumption
     DEF FramesOK, ClusterOK,
         Frames, Operations, Phases, Exceptions, ExitStates, Stages, NextActor, At, frames, store, signals, cluster,
         bounded
<1>1. CASE UNCHANGED <<cluster, bounded>>
  BY <1>1
<1>2. ASSUME OrchestrateEnds PROVE ClusterOK'
  BY <1>2 DEF OrchestrateEnds, Goto
<1>3a. ASSUME CreateActor PROVE ClusterOK'
  BY <1>3a DEF CreateActor
<1>3b. ASSUME RegisterCallback PROVE ClusterOK'
  BY <1>3b DEF RegisterCallback, Goto
<1>4. ASSUME Shutdown PROVE ClusterOK'
  BY <1>4 DEF Shutdown, Leave, Raise, Caught, Wrapped, AfterTry, ShutDown
<1>5. ASSUME StartMonitoring PROVE ClusterOK'
  BY <1>5 DEF StartMonitoring
<1>6. ASSUME HandlerStopsRay PROVE ClusterOK'
  BY <1>6 DEF HandlerStopsRay, NextCallback
<1>7. ASSUME HandlerRaises PROVE ClusterOK'
  BY <1>7 DEF HandlerRaises, AfterHarness, Goto, Leave, Raise, Caught, Wrapped, AfterTry,
       Throw, InTry, InFinally, Hit
<1>8. ASSUME Sigint PROVE ClusterOK'
  BY <1>8 DEF Sigint, Throw, Raise, InTry, InFinally, Caught, Wrapped, AfterTry, Hit
<1>9. ASSUME DatabaseFails PROVE ClusterOK'
  BY <1>9 DEF DatabaseFails, Throw, Raise, InTry, InFinally, Caught, Wrapped, AfterTry, Hit
<1>10a. ASSUME NEW k \in Operations, OperatorCrashes(k) PROVE ClusterOK'
  BY <1>10a DEF OperatorCrashes
<1>10b. ASSUME NEW k \in Operations, MonitoringFails(k) PROVE ClusterOK'
  BY <1>10b DEF MonitoringFails, CanComplete
<1>. QED
  BY <1>1, <1>2, <1>3a, <1>3b, <1>4, <1>5, <1>6, <1>7, <1>8, <1>9, <1>10a, <1>10b
     DEF Next, Step, Fault, vars, SpaceLoaded, SpaceRefused, CallOperation,
         OperationReturned, SetupRaises, ShutdownRaises, Create, Start, RunReturns,
         Returned, RunRaises, Finalize, FinalizeRaises, StoreFinal, Relate, Sigterm

\* How the phases of operations may change.
Moves ==
  \A k \in Operations :
    \/ pc'[k] = pc[k]
    \/ k = top /\ pc[k] \in Early
    \/ k \in {top, top - 1} /\ pc'[k] \notin Early
    \/ k = top + 1 /\ pc[k] = "idle" /\ pc[top] = "run"

LEMMA MovesNext ==
  ASSUME FramesOK, [Next]_vars
  PROVE  Moves
<1>. USE NAssumption
     DEF FramesOK, Frames, Operations, Early, Moves, At, frames, store, signals, cluster,
         bounded
<1>1. ASSUME SpaceLoaded PROVE Moves
  BY <1>1 DEF SpaceLoaded, Goto
<1>2. ASSUME SpaceRefused PROVE Moves
  BY <1>2 DEF SpaceRefused, Throw, Raise, InTry, InFinally, AfterTry
<1>3. ASSUME OperationReturned PROVE Moves
  BY <1>3 DEF OperationReturned, Goto
<1>4. ASSUME OrchestrateEnds PROVE Moves
  BY <1>4 DEF OrchestrateEnds, Goto
<1>5a. ASSUME CreateActor PROVE Moves
  BY <1>5a DEF CreateActor
<1>5b. ASSUME RegisterCallback PROVE Moves
  BY <1>5b DEF RegisterCallback, Goto
<1>6. ASSUME SetupRaises PROVE Moves
  BY <1>6 DEF SetupRaises, Throw, Raise, InTry, InFinally, AfterTry
<1>7. ASSUME Shutdown PROVE Moves
  BY <1>7 DEF Shutdown, Leave, Raise, AfterTry
<1>8. ASSUME ShutdownRaises PROVE Moves
  BY <1>8 DEF ShutdownRaises, Throw, Raise, InTry, InFinally, AfterTry
<1>9. ASSUME Create PROVE Moves
  BY <1>9 DEF Create, Goto
<1>10. ASSUME Start PROVE Moves
  BY <1>10 DEF Start, Goto
<1>11. ASSUME StartMonitoring PROVE Moves
  BY <1>11 DEF StartMonitoring
<1>12a. ASSUME RunReturns PROVE Moves
  BY <1>12a DEF RunReturns
<1>12b. ASSUME Returned PROVE Moves
  BY <1>12b DEF Returned, Goto
<1>13. ASSUME RunRaises PROVE Moves
  BY <1>13 DEF RunRaises, Throw, Raise, InTry, InFinally, AfterTry
<1>14. ASSUME Finalize PROVE Moves
  BY <1>14 DEF Finalize, Goto
<1>15. ASSUME FinalizeRaises PROVE Moves
  BY <1>15 DEF FinalizeRaises, Throw, Raise, InTry, InFinally, AfterTry
<1>16. ASSUME StoreFinal PROVE Moves
  BY <1>16 DEF StoreFinal, AfterHarness, Goto, Leave, Raise, AfterTry
<1>17. ASSUME Relate PROVE Moves
  BY <1>17 DEF Relate, AfterHarness, Goto, Leave, Raise, AfterTry
<1>18. ASSUME HandlerStopsRay PROVE Moves
  BY <1>18 DEF HandlerStopsRay
<1>19. ASSUME HandlerRaises PROVE Moves
  BY <1>19 DEF HandlerRaises, AfterHarness, Goto, Leave, Raise, AfterTry, Throw, InTry, InFinally
<1>20. ASSUME Sigterm PROVE Moves
  BY <1>20 DEF Sigterm
<1>21. ASSUME Sigint PROVE Moves
  BY <1>21 DEF Sigint, Throw, Raise, InTry, InFinally, AfterTry
<1>22. ASSUME DatabaseFails PROVE Moves
  BY <1>22 DEF DatabaseFails, Throw, Raise, InTry, InFinally, AfterTry
<1>23. ASSUME CallOperation PROVE Moves
  BY <1>23 DEF CallOperation
<1>24a. ASSUME NEW k \in Operations, OperatorCrashes(k) PROVE Moves
  BY <1>24a DEF OperatorCrashes
<1>24b. ASSUME NEW k \in Operations, MonitoringFails(k) PROVE Moves
  BY <1>24b DEF MonitoringFails, CanComplete
<1>25. CASE UNCHANGED vars
  BY <1>25 DEF vars
<1>. QED
  BY <1>1, <1>2, <1>3, <1>4, <1>5a, <1>5b, <1>6, <1>7, <1>8, <1>9, <1>10, <1>11, <1>12a, <1>12b,
     <1>13, <1>14, <1>15, <1>16, <1>17, <1>18, <1>19, <1>20, <1>21, <1>22, <1>23, <1>24a, <1>24b, <1>25
  DEF Next, Step, Fault

LEMMA FreshNext ==
  ASSUME FramesOK, Fresh, [Next]_vars
  PROVE  Fresh'
<1>. USE NAssumption DEF FramesOK, Frames, Operations, Fresh, Early
<1>. SUFFICES ASSUME NEW k \in Operations, k < N, pc'[k] \in Early
              PROVE  pc'[k + 1] = "idle"
  OBVIOUS
<1>1. k \in 1 .. N /\ k + 1 \in 1 .. N
  OBVIOUS
<1>2. Moves
  BY MovesNext
<1>3. pc[k] \in Early
  BY <1>1, <1>2 DEF Moves
<1>4. pc[k + 1] = "idle" /\ k >= top
  BY <1>1, <1>3
<1>. QED
  BY <1>1, <1>2, <1>3, <1>4 DEF Moves

LEMMA RaiseSucceeds ==
  ASSUME FramesOK, StoreOK, Succeeds, top > 0, NEW e \in Exceptions, Raise(e),
         \/ stored' = stored
         \/ pc[top] = "store" /\ stored' = [stored EXCEPT ![top] = exit[top]]
  PROVE  Succeeds'
<1>. USE NAssumption DEF FramesOK, StoreOK, Frames, Operations, ExitStates
<1>1. top \in 1 .. N /\ top - 1 \in 0 .. N /\ (top - 1 > 0 => pc[top - 1] = "run")
  OBVIOUS
<1>2. /\ exit'[top - 1] = "error" /\ pc'[top] = "done"
      /\ pc'[top - 1] \in {"final", "finalize"}
      /\ \A k \in Operations \ {top - 1} : exit'[k] = exit[k]
      /\ \A k \in Operations \ {top, top - 1} : pc'[k] = pc[k] /\ exc'[k] = exc[k]
  BY <1>1 DEF Raise, Caught, AfterTry
<1>3. stored'[top] = "success" => exit[top] = "success"
  BY <1>1 DEF Succeeds, StoreOK
<1>4. \A k \in Operations \ {top} : stored'[k] = stored[k]
  OBVIOUS
<1>5. top - 1 > 0 => stored[top - 1] # "success"
  BY <1>1 DEF Succeeds
<1>6. top < N /\ exit'[top] = "success" /\ pc'[top + 1] = "done" => exc'[top + 1] = "none"
  BY <1>1, <1>2 DEF Succeeds
<1>. QED
  BY <1>1, <1>2, <1>3, <1>4, <1>5, <1>6 DEF Succeeds

\* What a frame that does not run has come to is kept.
LEMMA ThrowSucceeds ==
  ASSUME FramesOK, StoreOK, Succeeds, NEW e \in {"KeyboardInterrupt", "error"}, Throw(e),
         stored' = stored
  PROVE  Succeeds'
<1>. USE NAssumption DEF FramesOK, StoreOK, Frames, Operations, ExitStates
<1>1. CASE top > 0 /\ Raise(e)
  BY <1>1, RaiseSucceeds DEF Exceptions
<1>2. CASE InTry(top) /\ pc' = [pc EXCEPT ![top] = AfterTry(top)]
           /\ exc' = [exc EXCEPT ![top] = Wrapped(top, e)] /\ Caught(top, e)
           /\ UNCHANGED top
  <2>1. exit' = [exit EXCEPT ![top] = "error"] /\ pc[top] \in {"start", "run"}
    BY <1>2 DEF Caught, InTry
  <2>2. AfterTry(top) \in {"final", "finalize"}
    BY DEF AfterTry
  <2>. QED
    BY <1>2, <2>1, <2>2 DEF Succeeds
<1>3. CASE InFinally(top) /\ pc' = [pc EXCEPT ![top] = "shutdown"]
           /\ exc' = [exc EXCEPT ![top] = e] /\ UNCHANGED <<top, exit, nested>>
  BY <1>3 DEF Succeeds, InFinally
<1>4. CASE pc[top] = "returned" /\ pc' = [pc EXCEPT ![top] = "finalize"]
           /\ exc' = [exc EXCEPT ![top] = e]
           /\ (UNCHANGED exit \/ exit' = [exit EXCEPT ![top] = "error"])
           /\ UNCHANGED <<top, nested>>
  BY <1>4 DEF Succeeds
<1>5. CASE top = 0 /\ pc' = [pc EXCEPT ![0] = "done"]
           /\ exc' = [exc EXCEPT ![0] = e] /\ UNCHANGED <<top, exit, nested>>
  BY <1>5 DEF Succeeds
<1>. QED
  BY <1>1, <1>2, <1>3, <1>4, <1>5 DEF Throw

LEMMA LeaveSucceeds ==
  ASSUME FramesOK, StoreOK, Succeeds, Leave, pc[top] \in {"store", "relate", "shutdown"},
         \/ stored' = stored
         \/ pc[top] = "store" /\ stored' = [stored EXCEPT ![top] = exit[top]]
  PROVE  Succeeds'
<1>. USE NAssumption DEF FramesOK, StoreOK, Frames, Operations, ExitStates
<1>1. top \in 1 .. N
  OBVIOUS
<1>2. CASE exc[top] # "none"
  BY <1>1, <1>2, RaiseSucceeds DEF Leave
<1>3. CASE exc[top] = "none"
  BY <1>1, <1>3 DEF Leave, Succeeds
<1>. QED
  BY <1>2, <1>3

LEMMA AfterHarnessSucceeds ==
  ASSUME FramesOK, StoreOK, Succeeds, AfterHarness, pc[top] \in {"store", "relate"},
         \/ stored' = stored
         \/ pc[top] = "store" /\ stored' = [stored EXCEPT ![top] = exit[top]]
  PROVE  Succeeds'
<1>. USE NAssumption DEF FramesOK, StoreOK, Frames, Operations, ExitStates
<1>1. CASE Goto("shutdown")
  BY <1>1 DEF Goto, Succeeds
<1>2. CASE Leave
  BY <1>2, LeaveSucceeds
<1>. QED
  BY <1>1, <1>2 DEF AfterHarness

\* Before its function begins an operation has no exit state and has called none.
LEMMA StartSucceeds ==
  ASSUME FramesOK, StoreOK, Fresh, Succeeds, pc[top] \in {"create", "start"},
         NEW phase \in {"start", "run"}, NEW event \in {"added", "started"},
         Goto(phase), stored' = [stored EXCEPT ![top] = event]
  PROVE  Succeeds'
<1>. USE NAssumption DEF Frames, Operations
<1>1. top \in 1 .. N /\ pc \in [0 .. N -> Phases] /\ stored'[top] = event
  BY DEF FramesOK, StoreOK
<1>2. pc' = [pc EXCEPT ![top] = phase] /\ UNCHANGED <<top, exc, exit>>
  BY DEF Goto
<1>3. exit[top] # "success" /\ (top < N => pc[top + 1] = "idle")
  BY <1>1 DEF Succeeds, Fresh, Early
<1>4. ASSUME NEW k \in 1 .. N, k # top
      PROVE  pc'[k] = pc[k] /\ stored'[k] = stored[k]
  BY <1>1, <1>2, <1>4 DEF StoreOK
<1>5. ASSUME NEW k \in 1 .. N
      PROVE  exit'[k] = "success" =>
               pc'[k] \in {"returned", "finalize", "store", "relate", "shutdown", "done"}
  BY <1>2, <1>3, <1>4, <1>5 DEF Succeeds
<1>6. ASSUME NEW k \in 1 .. N, stored'[k] = "success"
      PROVE  exit'[k] = "success" /\ pc'[k] \in {"relate", "shutdown", "done"}
  BY <1>1, <1>2, <1>4, <1>6 DEF Succeeds
<1>7. ASSUME NEW k \in 1 .. N, k < N, pc'[k + 1] = "done",
             pc'[k] = "run" \/ exit'[k] = "success"
      PROVE  exc'[k + 1] = "none"
  <2>1. k + 1 \in 1 .. N /\ k + 1 # k
    BY <1>7
  <2>2. k + 1 # top
    BY <1>1, <1>2, <1>7
  <2>3. pc[k + 1] = "done"
    BY <1>4, <1>7, <2>1, <2>2
  <2>4. k # top
    BY <1>3, <1>7, <2>3
  <2>. QED
    BY <1>2, <1>4, <1>7, <2>3, <2>4 DEF Succeeds
<1>. QED
  BY <1>5, <1>6, <1>7 DEF Succeeds

LEMMA SucceedsNext ==
  ASSUME FramesOK, StoreOK, Fresh, Succeeds, [Next]_vars
  PROVE  Succeeds'
<1>. USE NAssumption, ExploreAssumption
     DEF FramesOK, StoreOK, Succeeds,
         Frames, Operations, Phases, Exceptions, ExitStates, Stages, NextActor, At, frames, store, signals, cluster,
         bounded
<1>1. ASSUME SpaceLoaded PROVE Succeeds'
  BY <1>1 DEF SpaceLoaded, Goto
<1>2. ASSUME SpaceRefused PROVE Succeeds'
  BY <1>2, ThrowSucceeds DEF SpaceRefused
<1>3. ASSUME CallOperation PROVE Succeeds'
  BY <1>3 DEF CallOperation
<1>4. ASSUME OperationReturned PROVE Succeeds'
  BY <1>4 DEF OperationReturned, Goto
<1>5. ASSUME OrchestrateEnds PROVE Succeeds'
  BY <1>5 DEF OrchestrateEnds, Goto
<1>6a. ASSUME CreateActor PROVE Succeeds'
  BY <1>6a DEF CreateActor
<1>6b. ASSUME RegisterCallback PROVE Succeeds'
  BY <1>6b DEF RegisterCallback, Goto
<1>7. ASSUME SetupRaises PROVE Succeeds'
  BY <1>7, ThrowSucceeds DEF SetupRaises
<1>8. ASSUME Shutdown PROVE Succeeds'
  BY <1>8, LeaveSucceeds DEF Shutdown
<1>9. ASSUME ShutdownRaises PROVE Succeeds'
  BY <1>9, ThrowSucceeds DEF ShutdownRaises
<1>10. ASSUME Create PROVE Succeeds'
  BY <1>10, StartSucceeds DEF Create
<1>11. ASSUME Start PROVE Succeeds'
  BY <1>11, StartSucceeds DEF Start
<1>12. ASSUME StartMonitoring PROVE Succeeds'
  BY <1>12 DEF StartMonitoring
<1>13a. ASSUME RunReturns PROVE Succeeds'
  BY <1>13a DEF RunReturns, CanReturn
<1>13b. ASSUME Returned PROVE Succeeds'
  BY <1>13b DEF Returned, Goto
<1>14. ASSUME RunRaises PROVE Succeeds'
  BY <1>14, ThrowSucceeds DEF RunRaises
<1>15. ASSUME Finalize PROVE Succeeds'
  BY <1>15 DEF Finalize, Goto, CanFinalize
<1>16. ASSUME FinalizeRaises PROVE Succeeds'
  BY <1>16, ThrowSucceeds DEF FinalizeRaises
<1>17. ASSUME StoreFinal PROVE Succeeds'
  <2>1. CASE Goto("relate")
    BY <1>17, <2>1 DEF StoreFinal, Goto
  <2>2. CASE AfterHarness
    BY <1>17, <2>2, AfterHarnessSucceeds DEF StoreFinal
  <2>. QED
    BY <1>17, <2>1, <2>2 DEF StoreFinal
<1>18. ASSUME Relate PROVE Succeeds'
  BY <1>18, AfterHarnessSucceeds DEF Relate
<1>19. ASSUME HandlerStopsRay PROVE Succeeds'
  BY <1>19 DEF HandlerStopsRay, NextCallback
<1>20. ASSUME HandlerRaises PROVE Succeeds'
  BY <1>20, ThrowSucceeds, AfterHarnessSucceeds DEF HandlerRaises
<1>21. ASSUME Sigterm PROVE Succeeds'
  BY <1>21 DEF Sigterm
<1>22. ASSUME Sigint PROVE Succeeds'
  BY <1>22, ThrowSucceeds DEF Sigint
<1>23. ASSUME DatabaseFails PROVE Succeeds'
  BY <1>23, ThrowSucceeds DEF DatabaseFails
<1>24a. ASSUME NEW k \in Operations, OperatorCrashes(k) PROVE Succeeds'
  BY <1>24a DEF OperatorCrashes
<1>24b. ASSUME NEW k \in Operations, MonitoringFails(k) PROVE Succeeds'
  BY <1>24b DEF MonitoringFails, CanComplete
<1>25. CASE UNCHANGED vars
  BY <1>25 DEF vars
<1>. QED
  BY <1>1, <1>2, <1>3, <1>4, <1>5, <1>6a, <1>6b, <1>7, <1>8, <1>9, <1>10, <1>11, <1>12, <1>13a, <1>13b,
       <1>14, <1>15, <1>16, <1>17, <1>18, <1>19, <1>20, <1>21, <1>22, <1>23, <1>24a, <1>24b,
       <1>25 DEF Next, Step, Fault

LEMMA ThrowRelates ==
  ASSUME FramesOK, Relates, NEW e \in {"KeyboardInterrupt", "error"}, Throw(e),
         related' = related, hit \subseteq hit', top \in nested => top \in hit'
  PROVE  Relates'
<1>. USE NAssumption DEF FramesOK, Frames, Operations
<1>1. nested' = nested
  BY DEF Throw, Raise, Caught
<1>2. ASSUME NEW k \in nested, k # top
      PROVE  pc'[k] = pc[k]
  <2>1. k \in 1 .. N /\ (top > 0 => k # top - 1)
    BY DEF Relates
  <2>. QED
    BY <1>2, <2>1 DEF Throw, Raise
<1>3. ASSUME top \in nested PROVE pc'[top] = "done" /\ top \in hit' /\ top \notin Explore
  BY <1>3 DEF Throw, Raise, Relates, InTry, InFinally
<1>. QED
  BY <1>1, <1>2, <1>3 DEF Relates

LEMMA LeaveRelates ==
  ASSUME FramesOK, Relates, Leave, top > 0, related \subseteq related',
         hit \subseteq hit', top \in nested => top \in related' \/ top \in hit'
  PROVE  Relates'
<1>. USE NAssumption DEF FramesOK, Frames, Operations
<1>0. top \in 1 .. N /\ top - 1 \in 0 .. N /\ top - 1 < N
  OBVIOUS
<1>1. ASSUME NEW k \in nested, k # top
      PROVE  pc'[k] = pc[k]
  <2>1. k \in 1 .. N /\ k # top - 1
    BY DEF Relates
  <2>. QED
    BY <1>1, <2>1 DEF Leave, Raise
<1>2. top \in nested => top \notin Explore /\ pc'[top] = "done"
  BY <1>0 DEF Leave, Raise, Relates
<1>3. nested' = nested \/ (nested' = nested \cup {top - 1} /\ top - 1 > 0
                           /\ pc'[top - 1] = "finalize")
  <2>1. AfterTry(top - 1) = IF top - 1 = 0 THEN "final" ELSE "finalize"
    BY DEF AfterTry
  <2>2. exc[top] # "none" => pc'[top - 1] = AfterTry(top - 1)
    BY <1>0 DEF Leave, Raise
  <2>. QED
    BY <1>0, <2>1, <2>2 DEF Leave, Raise, Caught
<1>4. top - 1 \notin Explore
  BY <1>0, ExploreAssumption
<1>5. ASSUME NEW k \in nested', k \in nested, k # top
      PROVE  /\ k \notin Explore /\ pc'[k] \in {"finalize", "store", "relate", "done"}
             /\ pc'[k] = "done" => k \in related' \/ k \in hit'
  BY <1>1, <1>5 DEF Relates
<1>6. ASSUME NEW k \in nested', k \notin nested
      PROVE  k \notin Explore /\ pc'[k] = "finalize"
  BY <1>3, <1>4, <1>6
<1>. QED
  BY <1>2, <1>5, <1>6 DEF Relates

LEMMA GotoRelates ==
  ASSUME FramesOK, Relates, NEW p \in {"relate", "shutdown"}, Goto(p),
         p = "relate" \/ top \in Explore, related \subseteq related', hit \subseteq hit'
  PROVE  Relates'
<1>1. \A k \in nested : IF k = top THEN pc'[k] = p ELSE pc'[k] = pc[k]
  BY DEF Goto, FramesOK, Frames, Operations
<1>2. p = "shutdown" => top \notin nested
  BY DEF Relates
<1>. QED
  BY <1>1, <1>2 DEF Goto, Relates

LEMMA AfterHarnessRelates ==
  ASSUME FramesOK, Relates, pc[top] \in {"store", "relate"}, AfterHarness,
         related \subseteq related', hit \subseteq hit',
         top \in nested => top \in related' \/ top \in hit'
  PROVE  Relates'
<1>. USE NAssumption, ExploreAssumption
<1>1. top > 0
  BY DEF FramesOK, Frames
<1>2. CASE top \in Explore
  BY <1>1, <1>2, GotoRelates DEF AfterHarness
<1>3. CASE top \notin Explore
  BY <1>1, <1>3, LeaveRelates DEF AfterHarness
<1>. QED
  BY <1>2, <1>3

LEMMA RelatesNext ==
  ASSUME FramesOK, StoreOK, ClusterOK, Relates, [Next]_vars
  PROVE  Relates'
<1>. USE NAssumption, ExploreAssumption
     DEF FramesOK, StoreOK, ClusterOK, Relates,
         Frames, Operations, Phases, Exceptions, ExitStates, Stages, NextActor, At, frames, store, signals, cluster,
         bounded
<1>1. ASSUME SpaceLoaded PROVE Relates'
  BY <1>1 DEF SpaceLoaded, Goto
<1>2. ASSUME SpaceRefused PROVE Relates'
  <2>. top \notin nested
    BY <1>2 DEF SpaceRefused
  <2>. QED
    BY <1>2, ThrowRelates DEF SpaceRefused
<1>3. ASSUME CallOperation PROVE Relates'
  BY <1>3 DEF CallOperation
<1>4. ASSUME OperationReturned PROVE Relates'
  BY <1>4 DEF OperationReturned, Goto
<1>5. ASSUME OrchestrateEnds PROVE Relates'
  BY <1>5 DEF OrchestrateEnds, Goto
<1>6a. ASSUME CreateActor PROVE Relates'
  BY <1>6a DEF CreateActor
<1>6b. ASSUME RegisterCallback PROVE Relates'
  BY <1>6b DEF RegisterCallback, Goto
<1>7. ASSUME SetupRaises PROVE Relates'
  <2>. top \notin nested
    BY <1>7 DEF SetupRaises
  <2>. QED
    BY <1>7, ThrowRelates DEF SetupRaises
<1>8. ASSUME Shutdown PROVE Relates'
  <2>. top \notin nested
    BY <1>8 DEF Shutdown
  <2>. QED
    BY <1>8, LeaveRelates, HasCaller DEF Shutdown
<1>9. ASSUME ShutdownRaises PROVE Relates'
  <2>. top \notin nested
    BY <1>9 DEF ShutdownRaises
  <2>. QED
    BY <1>9, ThrowRelates DEF ShutdownRaises
<1>10. ASSUME Create PROVE Relates'
  BY <1>10 DEF Create, Goto
<1>11. ASSUME Start PROVE Relates'
  BY <1>11 DEF Start, Goto
<1>12. ASSUME StartMonitoring PROVE Relates'
  BY <1>12 DEF StartMonitoring
<1>13a. ASSUME RunReturns PROVE Relates'
  BY <1>13a DEF RunReturns, CanReturn
<1>13b. ASSUME Returned PROVE Relates'
  BY <1>13b DEF Returned, Goto
<1>14. ASSUME RunRaises PROVE Relates'
  <2>. top \notin nested
    BY <1>14 DEF RunRaises
  <2>. QED
    BY <1>14, ThrowRelates DEF RunRaises
<1>15. ASSUME Finalize PROVE Relates'
  BY <1>15 DEF Finalize, Goto, CanFinalize
<1>16. ASSUME FinalizeRaises PROVE Relates'
  <2>. top \notin nested
    BY <1>16 DEF FinalizeRaises, CanFinalize
  <2>. QED
    BY <1>16, ThrowRelates DEF FinalizeRaises
<1>17. ASSUME StoreFinal PROVE Relates'
  <2>1. CASE top \in nested
    BY <1>17, <2>1, GotoRelates DEF StoreFinal
  <2>2. CASE top \notin nested
    BY <1>17, <2>2, AfterHarnessRelates DEF StoreFinal
  <2>. QED
    BY <2>1, <2>2
<1>18. ASSUME Relate PROVE Relates'
  <2>. related \subseteq related' /\ top \in related'
    BY <1>18 DEF Relate
  <2>. QED
    BY <1>18, AfterHarnessRelates DEF Relate
<1>19. ASSUME HandlerStopsRay PROVE Relates'
  BY <1>19 DEF HandlerStopsRay, NextCallback
<1>20. ASSUME HandlerRaises PROVE Relates'
  <2>. hit \subseteq hit' /\ (top \in nested => top \in hit')
    BY <1>20 DEF HandlerRaises, Hit
  <2>1. CASE Throw("error")
    BY <1>20, <2>1, ThrowRelates DEF HandlerRaises
  <2>2. CASE pc[top] = "relate" /\ AfterHarness
    BY <1>20, <2>2, AfterHarnessRelates DEF HandlerRaises
  <2>. QED
    BY <1>20, <2>1, <2>2 DEF HandlerRaises
<1>21. ASSUME Sigterm PROVE Relates'
  BY <1>21 DEF Sigterm
<1>22. ASSUME Sigint PROVE Relates'
  <2>. hit \subseteq hit' /\ (top \in nested => top \in hit')
    BY <1>22 DEF Sigint, Hit
  <2>. QED
    BY <1>22, ThrowRelates DEF Sigint
<1>23. ASSUME DatabaseFails PROVE Relates'
  <2>. hit \subseteq hit' /\ (top \in nested => top \in hit')
    BY <1>23 DEF DatabaseFails, Hit
  <2>. QED
    BY <1>23, ThrowRelates DEF DatabaseFails
<1>24a. ASSUME NEW k \in Operations, OperatorCrashes(k) PROVE Relates'
  BY <1>24a DEF OperatorCrashes
<1>24b. ASSUME NEW k \in Operations, MonitoringFails(k) PROVE Relates'
  BY <1>24b DEF MonitoringFails, CanComplete
<1>25. CASE UNCHANGED vars
  BY <1>25 DEF vars
<1>. QED
  BY <1>1, <1>2, <1>3, <1>4, <1>5, <1>6a, <1>6b, <1>7, <1>8, <1>9, <1>10, <1>11, <1>12, <1>13a, <1>13b,
       <1>14, <1>15, <1>16, <1>17, <1>18, <1>19, <1>20, <1>21, <1>22, <1>23, <1>24a, <1>24b,
       <1>25 DEF Next, Step, Fault

LEMMA StoresStep ==
  ASSUME FramesOK, Stores, stored' = stored,
         \A k \in Operations : Excused(k) => Excused(k)',
         \A k \in Operations :
           \/ pc'[k] = pc[k] \/ pc'[k] = "finalize"
           \/ /\ pc'[k] \in {"shutdown", "done"}
              /\ pc[k] \in {"setup", "create", "relate", "shutdown"} \/ Excused(k)'
  PROVE  Stores'
BY DEF Stores

LEMMA StoresNext ==
  ASSUME FramesOK, StoreOK, ClusterOK, RayStops, Stores, [Next]_vars
  PROVE  Stores'
<1>. USE NAssumption, ExploreAssumption
     DEF FramesOK, StoreOK, ClusterOK, RayStops, Stores, Excused,
         Frames, Operations, Phases, Exceptions, ExitStates, Stages, NextActor, At, frames, store, signals, cluster,
         bounded
<1>1. ASSUME SpaceLoaded PROVE Stores'
  BY <1>1 DEF SpaceLoaded, Goto
<1>2. ASSUME SpaceRefused PROVE Stores'
  BY <1>2 DEF SpaceRefused, Throw, Raise, InTry, InFinally, Caught, Wrapped, AfterTry
<1>3. ASSUME CallOperation PROVE Stores'
  BY <1>3 DEF CallOperation
<1>4. ASSUME OperationReturned PROVE Stores'
  BY <1>4 DEF OperationReturned, Goto
<1>5. ASSUME OrchestrateEnds PROVE Stores'
  BY <1>5 DEF OrchestrateEnds, Goto
<1>6a. ASSUME CreateActor PROVE Stores'
  BY <1>6a DEF CreateActor
<1>6b. ASSUME RegisterCallback PROVE Stores'
  BY <1>6b DEF RegisterCallback, Goto
<1>7. ASSUME SetupRaises PROVE Stores'
  BY <1>7 DEF SetupRaises, Throw, Raise, InTry, InFinally, Caught, Wrapped, AfterTry
<1>8. ASSUME Shutdown PROVE Stores'
  BY <1>8 DEF Shutdown, Leave, Raise, Caught, Wrapped, AfterTry, ShutDown
<1>9. ASSUME ShutdownRaises PROVE Stores'
  <2>1. \A k \in Operations : Excused(k) => Excused(k)'
    BY <1>9 DEF ShutdownRaises
  <2>2. \A k \in Operations : k < top => pc[k] = "run"
    OBVIOUS
  <2>3. \A k \in Operations :
          \/ pc'[k] = pc[k] \/ pc'[k] = "finalize"
          \/ k = top /\ pc'[k] = "done"
    BY <1>9, <2>2 DEF ShutdownRaises, Throw, Raise, InTry, InFinally, AfterTry
  <2>. QED
    BY <1>9, <2>1, <2>3, StoresStep DEF ShutdownRaises
<1>10. ASSUME Create PROVE Stores'
  BY <1>10 DEF Create, Goto
<1>11. ASSUME Start PROVE Stores'
  BY <1>11 DEF Start, Goto
<1>12. ASSUME StartMonitoring PROVE Stores'
  BY <1>12 DEF StartMonitoring
<1>13a. ASSUME RunReturns PROVE Stores'
  BY <1>13a DEF RunReturns, CanReturn
<1>13b. ASSUME Returned PROVE Stores'
  BY <1>13b DEF Returned, Goto
<1>14. ASSUME RunRaises PROVE Stores'
  BY <1>14 DEF RunRaises, Throw, Raise, InTry, InFinally, Caught, Wrapped, AfterTry
<1>15. ASSUME Finalize PROVE Stores'
  BY <1>15 DEF Finalize, Goto, CanFinalize
<1>16. ASSUME FinalizeRaises PROVE Stores'
  BY <1>16 DEF FinalizeRaises, Throw, Raise, InTry, InFinally, Caught, Wrapped, AfterTry,
       CanFinalize
<1>17. ASSUME StoreFinal PROVE Stores'
  <2>1. top \in Operations /\ stored'[top] \notin {"none", "added", "started"}
    <3>1. top \in 1 .. N
      BY <1>17 DEF StoreFinal
    <3>2. stored'[top] = exit[top]
      BY <1>17, <3>1 DEF StoreFinal
    <3>. QED
      BY <3>1, <3>2
  <2>2. \A k \in Operations \ {top} : stored'[k] = stored[k]
                                    /\ (pc'[k] = pc[k] \/ pc'[k] = "finalize")
    BY <1>17 DEF StoreFinal, AfterHarness, Goto, Leave, Raise, AfterTry
  <2>3. pc'[top] \in {"relate", "shutdown", "done"}
    BY <1>17 DEF StoreFinal, AfterHarness, Goto, Leave, Raise, AfterTry
  <2>4. \A k \in Operations : Excused(k) => Excused(k)'
    BY <1>17 DEF StoreFinal
  <2>. QED
    BY <2>1, <2>2, <2>3, <2>4
<1>18. ASSUME Relate PROVE Stores'
  BY <1>18 DEF Relate, AfterHarness, Goto, Leave, Raise, Caught, Wrapped, AfterTry
<1>19. ASSUME HandlerStopsRay PROVE Stores'
  BY <1>19 DEF HandlerStopsRay, NextCallback
<1>20. ASSUME HandlerRaises PROVE Stores'
  <2>1. \A k \in Operations : Excused(k) => Excused(k)'
    BY <1>20 DEF HandlerRaises, Hit
  <2>2. \A k \in Operations :
          \/ pc'[k] = pc[k] \/ pc'[k] = "finalize"
          \/ k = top /\ pc'[k] \in {"shutdown", "done"}
             /\ pc[k] \notin {"start", "run", "returned"}
    <3>1. CASE Throw("error")
      BY <3>1 DEF Throw, Raise, InTry, InFinally, AfterTry
    <3>2. CASE pc[top] = "relate" /\ AfterHarness
      BY <3>2 DEF AfterHarness, Goto, Leave, Raise, AfterTry
    <3>. QED
      BY <1>20, <3>1, <3>2 DEF HandlerRaises
  <2>3. top \in Operations => pc[top] \notin {"idle", "space", "final", "done"}
    OBVIOUS
  <2>4. \A k \in Operations :
          k = top /\ pc[k] \in {"finalize", "store"} => Excused(k)'
    BY <1>20 DEF HandlerRaises, Hit
  <2>. QED
    BY <1>20, <2>1, <2>2, <2>3, <2>4, StoresStep DEF HandlerRaises
<1>21. ASSUME Sigterm PROVE Stores'
  BY <1>21 DEF Sigterm
<1>22. ASSUME Sigint PROVE Stores'
  BY <1>22 DEF Sigint, Throw, Raise, InTry, InFinally, Caught, Wrapped, AfterTry, Hit
<1>23. ASSUME DatabaseFails PROVE Stores'
  BY <1>23 DEF DatabaseFails, Throw, Raise, InTry, InFinally, Caught, Wrapped, AfterTry, Hit
<1>24a. ASSUME NEW k \in Operations, OperatorCrashes(k) PROVE Stores'
  BY <1>24a DEF OperatorCrashes
<1>24b. ASSUME NEW k \in Operations, MonitoringFails(k) PROVE Stores'
  BY <1>24b DEF MonitoringFails, CanComplete
<1>25. CASE UNCHANGED vars
  BY <1>25 DEF vars
<1>. QED
  BY <1>1, <1>2, <1>3, <1>4, <1>5, <1>6a, <1>6b, <1>7, <1>8, <1>9, <1>10, <1>11, <1>12, <1>13a, <1>13b,
       <1>14, <1>15, <1>16, <1>17, <1>18, <1>19, <1>20, <1>21, <1>22, <1>23, <1>24a, <1>24b,
       <1>25 DEF Next, Step, Fault

LEMMA RayStopsNext ==
  ASSUME FramesOK, SignalsOK, RayStops, [Next]_vars
  PROVE  RayStops'
<1>. USE NAssumption, ExploreAssumption
     DEF FramesOK, SignalsOK, RayStops,
         Frames, Operations, Phases, Exceptions, ExitStates, Stages, NextActor, At, frames, store, signals, cluster,
         bounded
<1>1. ASSUME SpaceLoaded PROVE RayStops'
  BY <1>1 DEF SpaceLoaded, Goto
<1>2. ASSUME SpaceRefused PROVE RayStops'
  BY <1>2 DEF SpaceRefused, Throw, Raise, InTry, InFinally, Caught, Wrapped, AfterTry
<1>3. ASSUME CallOperation PROVE RayStops'
  BY <1>3 DEF CallOperation
<1>4. ASSUME OperationReturned PROVE RayStops'
  BY <1>4 DEF OperationReturned, Goto
<1>5. ASSUME OrchestrateEnds PROVE RayStops'
  BY <1>5 DEF OrchestrateEnds, Goto
<1>6a. ASSUME CreateActor PROVE RayStops'
  BY <1>6a DEF CreateActor
<1>6b. ASSUME RegisterCallback PROVE RayStops'
  BY <1>6b DEF RegisterCallback, Goto
<1>7. ASSUME SetupRaises PROVE RayStops'
  BY <1>7 DEF SetupRaises, Throw, Raise, InTry, InFinally, Caught, Wrapped, AfterTry
<1>8. ASSUME Shutdown PROVE RayStops'
  BY <1>8 DEF Shutdown, Leave, Raise, Caught, Wrapped, AfterTry, ShutDown
<1>9. ASSUME ShutdownRaises PROVE RayStops'
  BY <1>9 DEF ShutdownRaises, Throw, Raise, InTry, InFinally, Caught, Wrapped, AfterTry
<1>10. ASSUME Create PROVE RayStops'
  BY <1>10 DEF Create, Goto
<1>11. ASSUME Start PROVE RayStops'
  BY <1>11 DEF Start, Goto
<1>12. ASSUME StartMonitoring PROVE RayStops'
  BY <1>12 DEF StartMonitoring
<1>13a. ASSUME RunReturns PROVE RayStops'
  BY <1>13a DEF RunReturns, CanReturn
<1>13b. ASSUME Returned PROVE RayStops'
  BY <1>13b DEF Returned, Goto
<1>14. ASSUME RunRaises PROVE RayStops'
  BY <1>14 DEF RunRaises, Throw, Raise, InTry, InFinally, Caught, Wrapped, AfterTry
<1>15. ASSUME Finalize PROVE RayStops'
  BY <1>15 DEF Finalize, Goto, CanFinalize
<1>16. ASSUME FinalizeRaises PROVE RayStops'
  BY <1>16 DEF FinalizeRaises, Throw, Raise, InTry, InFinally, Caught, Wrapped, AfterTry,
       CanFinalize
<1>17. ASSUME StoreFinal PROVE RayStops'
  BY <1>17 DEF StoreFinal, AfterHarness, Goto, Leave, Raise, Caught, Wrapped, AfterTry
<1>18. ASSUME Relate PROVE RayStops'
  BY <1>18 DEF Relate, AfterHarness, Goto, Leave, Raise, Caught, Wrapped, AfterTry
<1>19. ASSUME HandlerStopsRay PROVE RayStops'
  BY <1>19 DEF HandlerStopsRay, NextCallback
<1>20. ASSUME HandlerRaises PROVE RayStops'
  BY <1>20 DEF HandlerRaises, AfterHarness, Goto, Leave, Raise, Caught, Wrapped, AfterTry,
       Throw, InTry, InFinally, Hit
<1>21. ASSUME Sigterm PROVE RayStops'
  BY <1>21 DEF Sigterm
<1>22. ASSUME Sigint PROVE RayStops'
  BY <1>22 DEF Sigint, Throw, Raise, InTry, InFinally, Caught, Wrapped, AfterTry, Hit
<1>23. ASSUME DatabaseFails PROVE RayStops'
  BY <1>23 DEF DatabaseFails, Throw, Raise, InTry, InFinally, Caught, Wrapped, AfterTry, Hit
<1>24a. ASSUME NEW k \in Operations, OperatorCrashes(k) PROVE RayStops'
  BY <1>24a DEF OperatorCrashes
<1>24b. ASSUME NEW k \in Operations, MonitoringFails(k) PROVE RayStops'
  BY <1>24b DEF MonitoringFails, CanComplete
<1>25. CASE UNCHANGED vars
  BY <1>25 DEF vars
<1>. QED
  BY <1>1, <1>2, <1>3, <1>4, <1>5, <1>6a, <1>6b, <1>7, <1>8, <1>9, <1>10, <1>11, <1>12, <1>13a, <1>13b,
       <1>14, <1>15, <1>16, <1>17, <1>18, <1>19, <1>20, <1>21, <1>22, <1>23, <1>24a, <1>24b,
       <1>25 DEF Next, Step, Fault

LEMMA CleansUpNext ==
  ASSUME FramesOK, ClusterOK, RayStops, CleansUp, [Next]_vars
  PROVE  CleansUp'
<1>. USE NAssumption, ExploreAssumption
     DEF FramesOK, ClusterOK, RayStops, CleansUp,
         Frames, Operations, Phases, Exceptions, ExitStates, Stages, NextActor, At, frames, store, signals, cluster,
         bounded
<1>1. ASSUME SpaceLoaded PROVE CleansUp'
  BY <1>1 DEF SpaceLoaded, Goto
<1>2. ASSUME SpaceRefused PROVE CleansUp'
  BY <1>2 DEF SpaceRefused, Throw, Raise, InTry, InFinally, Caught, Wrapped, AfterTry
<1>3. ASSUME CallOperation PROVE CleansUp'
  BY <1>3 DEF CallOperation
<1>4. ASSUME OperationReturned PROVE CleansUp'
  BY <1>4 DEF OperationReturned, Goto
<1>5. ASSUME OrchestrateEnds PROVE CleansUp'
  BY <1>5 DEF OrchestrateEnds, Goto
<1>6a. ASSUME CreateActor PROVE CleansUp'
  BY <1>6a DEF CreateActor
<1>6b. ASSUME RegisterCallback PROVE CleansUp'
  BY <1>6b DEF RegisterCallback, Goto
<1>7. ASSUME SetupRaises PROVE CleansUp'
  BY <1>7 DEF SetupRaises, Throw, Raise, InTry, InFinally, Caught, Wrapped, AfterTry
<1>8. ASSUME Shutdown PROVE CleansUp'
  BY <1>8 DEF Shutdown, Leave, Raise, Caught, Wrapped, AfterTry, ShutDown
<1>9. ASSUME ShutdownRaises PROVE CleansUp'
  BY <1>9 DEF ShutdownRaises, Throw, Raise, InTry, InFinally, Caught, Wrapped, AfterTry
<1>10. ASSUME Create PROVE CleansUp'
  BY <1>10 DEF Create, Goto
<1>11. ASSUME Start PROVE CleansUp'
  BY <1>11 DEF Start, Goto
<1>12. ASSUME StartMonitoring PROVE CleansUp'
  BY <1>12 DEF StartMonitoring
<1>13a. ASSUME RunReturns PROVE CleansUp'
  BY <1>13a DEF RunReturns, CanReturn
<1>13b. ASSUME Returned PROVE CleansUp'
  BY <1>13b DEF Returned, Goto
<1>14. ASSUME RunRaises PROVE CleansUp'
  BY <1>14 DEF RunRaises, Throw, Raise, InTry, InFinally, Caught, Wrapped, AfterTry
<1>15. ASSUME Finalize PROVE CleansUp'
  BY <1>15 DEF Finalize, Goto, CanFinalize
<1>16. ASSUME FinalizeRaises PROVE CleansUp'
  BY <1>16 DEF FinalizeRaises, Throw, Raise, InTry, InFinally, Caught, Wrapped, AfterTry,
       CanFinalize
<1>17. ASSUME StoreFinal PROVE CleansUp'
  BY <1>17 DEF StoreFinal, AfterHarness, Goto, Leave, Raise, Caught, Wrapped, AfterTry
<1>18. ASSUME Relate PROVE CleansUp'
  BY <1>18 DEF Relate, AfterHarness, Goto, Leave, Raise, Caught, Wrapped, AfterTry
<1>19. ASSUME HandlerStopsRay PROVE CleansUp'
  BY <1>19 DEF HandlerStopsRay, NextCallback
<1>20. ASSUME HandlerRaises PROVE CleansUp'
  BY <1>20 DEF HandlerRaises, AfterHarness, Goto, Leave, Raise, Caught, Wrapped, AfterTry,
       Throw, InTry, InFinally, Hit
<1>21. ASSUME Sigterm PROVE CleansUp'
  BY <1>21 DEF Sigterm
<1>22. ASSUME Sigint PROVE CleansUp'
  BY <1>22 DEF Sigint, Throw, Raise, InTry, InFinally, Caught, Wrapped, AfterTry, Hit
<1>23. ASSUME DatabaseFails PROVE CleansUp'
  BY <1>23 DEF DatabaseFails, Throw, Raise, InTry, InFinally, Caught, Wrapped, AfterTry, Hit
<1>24a. ASSUME NEW k \in Operations, OperatorCrashes(k) PROVE CleansUp'
  BY <1>24a DEF OperatorCrashes
<1>24b. ASSUME NEW k \in Operations, MonitoringFails(k) PROVE CleansUp'
  BY <1>24b DEF MonitoringFails, CanComplete
<1>25. CASE UNCHANGED vars
  BY <1>25 DEF vars
<1>. QED
  BY <1>1, <1>2, <1>3, <1>4, <1>5, <1>6a, <1>6b, <1>7, <1>8, <1>9, <1>10, <1>11, <1>12, <1>13a, <1>13b,
       <1>14, <1>15, <1>16, <1>17, <1>18, <1>19, <1>20, <1>21, <1>22, <1>23, <1>24a, <1>24b,
       <1>25 DEF Next, Step, Fault

LEMMA InvNext == IInv /\ [Next]_vars => IInv'
BY FramesNext, StoreNext, SignalsNext, ClusterNext, FreshNext, SucceedsNext,
   RelatesNext, StoresNext, RayStopsNext, CleansUpNext DEF IInv

LEMMA Invariant == Spec => []IInv
BY InitInv, InvNext, PTL DEF Spec

-----------------------------------------------------------------------------
(* The theorems.                                                           *)

\* Every variable keeps its type, and the frames below the one that runs wait.
THEOREM TypeCorrect == Spec => []TypeOK
<1>1. IInv => TypeOK
  BY DEF IInv, FramesOK, StoreOK, SignalsOK, ClusterOK, TypeOK
<1>. QED
  BY <1>1, Invariant, PTL

\* No operation is stored as a success over a nested one that has raised
\* (_orchestrate_core.py).
THEOREM NoSuccessOverExceptionCorrect == Spec => []NoSuccessOverException
<1>1. IInv => NoSuccessOverException
  BY DEF IInv, Succeeds, NoSuccessOverException
<1>. QED
  BY <1>1, Invariant, PTL

\* The end of an operation is stored, however it ends, but for what is raised in
\* its clean-up (_orchestrate_core.py).
THEOREM EndIsStoredCorrect == Spec => []EndIsStored
<1>1. IInv => EndIsStored
  BY DEF IInv, Stores, Excused, EndIsStored
<1>. QED
  BY <1>1, Invariant, PTL

\* An interrupted nested operation is related to the one that called it
\* (_orchestrate_core.py).
THEOREM InterruptedIsRelatedCorrect == Spec => []InterruptedIsRelated
<1>1. IInv => InterruptedIsRelated
  BY DEF IInv, Relates, InterruptedIsRelated
<1>. QED
  BY <1>1, Invariant, PTL

\* Ray is not stopped while the actors of an explore operation that was set up are
\* not cleaned up, but for SIGTERM and for what is raised in the clean-up
\* (orchestrate.py, _explore_orchestration.py).
THEOREM CleanedUpCorrect == Spec => CleanedUpBeforeRayStops
<1>1. ASSUME IInv, [Next]_vars, rayUp, ~rayUp', NEW k \in Explore, actors[k] = "registered"
      PROVE  terminated \/ k \in hit
  <2>. USE <1>1 DEF IInv
  <2>1. ASSUME OrchestrateEnds PROVE terminated \/ k \in hit
    BY <2>1, ExploreAssumption, NAssumption
       DEF OrchestrateEnds, At, FramesOK, CleansUp, Frames, Operations, Phases
  <2>2. ASSUME HandlerStopsRay PROVE terminated
    BY <2>2 DEF HandlerStopsRay, RayStops
  <2>3. OrchestrateEnds \/ HandlerStopsRay
    BY DEF Next, Step, Fault, SpaceLoaded, SpaceRefused, CallOperation, OperationReturned,
           CreateActor, RegisterCallback, SetupRaises, Shutdown, ShutdownRaises, Create, Start, StartMonitoring,
           RunReturns, Returned, RunRaises, Finalize, FinalizeRaises, StoreFinal, Relate,
           HandlerRaises, Sigterm, Sigint, DatabaseFails, OperatorCrashes, MonitoringFails, cluster, vars
  <2>. QED
    BY <2>1, <2>2, <2>3
<1>2. IInv /\ [Next]_vars =>
        [rayUp /\ ~rayUp' =>
           \A k \in Explore : actors[k] = "registered" => terminated \/ k \in hit]_vars
  BY <1>1
<1>. QED
  BY <1>2, Invariant, PTL DEF Spec, CleanedUpBeforeRayStops

=============================================================================
