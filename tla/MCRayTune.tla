------------------------------ MODULE MCRayTune ------------------------------
(* Constants of the run of RayTune and of the Stoppers: an experiment d that  *)
(* needs a result of a.                                                       *)
EXTENDS RayTune, Stoppers

CONSTANTS a, d

A == <<a>>
DependsOnA == [e \in Experiments |-> IF e = a THEN <<d>> ELSE <<>>]

\* An optimisation is followed, or a stopper called, beside the other in its
\* initial state.  A stopper tells trials apart only by their order.
NoStopper == StopperInit /\ kind = "Simple"
MCInit == Init /\ StopperInit
MCNext == \/ NoStopper /\ Next /\ UNCHANGED stopperVars
          \/ Init /\ StopperNext /\ seen_trial_ids' = 1 .. Len(history') /\ UNCHANGED vars
StoppersSpec == MCInit /\ [][MCNext]_<<vars, stopperVars>>

\* Fairness is of the optimisation: RunEnds is about behaviours in which it runs.
MCSpec == StoppersSpec /\ Fairness

=============================================================================
