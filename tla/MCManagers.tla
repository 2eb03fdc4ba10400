----------------------------- MODULE MCManagers -----------------------------
(* Constants of the run of the two managers: VllmEnvironments, with three    *)
(* requests of an entity each for two definitions that deploy one model, and *)
(* ManagedSpace, the manager of the space that stores the answers.           *)
EXTENDS VllmEnvironments, ManagedSpace, TLC

CONSTANTS r1, r2, r3, d1, d2, model

MCEntities == r1 :> <<d1>> @@ r2 :> <<d1>> @@ r3 :> <<d2>>
MCModelOf == d1 :> model @@ d2 :> model

\* Which of the two runs; the other stays in its initial state.
VARIABLE part

MCInit ==
  /\ part \in {"environments", "space"}
  /\ VllmInit /\ (part = "space" => max_concurrent = 1 /\ ~faulty)
  /\ Init

MCNext ==
  /\ UNCHANGED part
  /\ \/ part = "environments" /\ VllmNext /\ UNCHANGED vars
     \/ part = "space" /\ Next /\ UNCHANGED vllmVars

\* The fairness of each, for the one that runs
MCFairness ==
  /\ \A r \in Requests : WF_vllmVars(part = "environments" /\ Task(r))
  /\ WF_vars(part = "space" /\ Monitor)
  /\ WF_vars(part = "space" /\ Start)
  /\ WF_vars(part = "space" /\ \E request \in Measured : Answer(request))
  /\ \A s \in Subscribers :
       WF_vars(part = "space" /\ \E call \in sent[s] : ExecuteCall(s, call))

MCSpec == MCInit /\ [][MCNext]_<<part, vllmVars, vars>> /\ MCFairness

=============================================================================
