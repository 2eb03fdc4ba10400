------------------------- MODULE MCTrainerAndHarness -------------------------
(* Constants of the run of SFTTrainer, what two requests ask for, and of      *)
(* Orchestration: general operations, each of which calls the next, and an    *)
(* explore operation that the last of them calls.                             *)
EXTENDS SFTTrainer, Orchestration, TLC

CONSTANTS r1, r2, v1, v2

One == [method |-> "train", known |-> TRUE, gpus |-> 1, nodes |-> 1, multi |-> "unset",
        backend |-> "FSDP", batch |-> 4, accumulation |-> 1, ep |-> 0,
        version |-> "new", experts |-> 0, auto |-> TRUE]
TwoMachines == [One EXCEPT !.gpus = 4, !.nodes = 2, !.multi = "yes", !.accumulation = 0]
Small == [One EXCEPT !.gpus = 2, !.nodes = 2, !.auto = FALSE]

AskedWithOne ==
  {One,
   [One EXCEPT !.gpus = 2, !.method = "full-error"],
   \* no GPU, and a single machine for an experiment of several
   [One EXCEPT !.gpus = 0, !.multi = "yes", !.auto = FALSE]}

AskedAlone ==
  {TwoMachines,
   [Small EXCEPT !.backend = "none"],
   [TwoMachines EXCEPT !.method = "full-error"],
   [One EXCEPT !.known = FALSE],
   \* inconsistent ones
   [One EXCEPT !.gpus = 2, !.batch = 3],
   [Small EXCEPT !.multi = "no"],
   [One EXCEPT !.nodes = 2],
   [One EXCEPT !.gpus = 2, !.ep = 2, !.version = "old"]}

\* Those on several machines meet one that holds as many, or one that ends at once.
MCPoints ==
  {r1 :> p @@ r2 :> [One EXCEPT !.auto = FALSE] : p \in AskedWithOne}
    \cup {r1 :> p @@ r2 :> [One EXCEPT !.method = "deprecated"] : p \in AskedAlone}
    \cup {r1 :> Small @@ r2 :> [Small EXCEPT !.ep = 2, !.experts = 3]}

MCCounters == Trainings \X {1, 2}
MCTokens == v1 :> <<2, 7, 3>> @@ v2 :> <<1, 4, 6, 2, 9>>
MCClocks == {<<2, 1, 1, 1, 1>>, <<1, 1, 0, 1, 1>>}

MCExplore == {N}

\* Which of the two runs; the other stays in its initial state.
VARIABLE part

AnyPoint == r1 :> One @@ r2 :> [One EXCEPT !.auto = FALSE]

MCInit ==
  /\ part \in {"trainer", "operation"}
  /\ TrainerInit /\ (part = "operation" => typed /\ point = AnyPoint)
  /\ Init

MCNext ==
  /\ UNCHANGED part
  /\ \/ part = "trainer" /\ TrainerNext /\ UNCHANGED vars
     \/ part = "operation" /\ Next /\ UNCHANGED trainerVars

\* The fairness of each, for the one that runs
MCFairness ==
  /\ \A r \in Trainings : WF_trainerVars(part = "trainer" /\ Serve(r))
  /\ WF_vars(part = "operation" /\ Step)

MCSafety == MCInit /\ [][MCNext]_<<part, trainerVars, vars>>
MCSpec == MCSafety /\ MCFairness

=============================================================================
