----------------------------- MODULE SFTTrainer -----------------------------
(***************************************************************************)
(* The sfttrainer actuator (actuators.py, experiments/common.py) and the    *)
(* Ray tasks that train for it (finetune.py, wrapper_sfttrainer.py): how a  *)
(* request gets its GPUs, on one machine or on several, and which answer is *)
(* put on the measurement queue.                                            *)
(*                                                                         *)
(* An asyncio task serves a request up to its next await in one step.  A    *)
(* request has one Ray task per machine, its ranks.  Ray gives a task the   *)
(* machine and the GPUs it asks for, all bundles of a placement group at    *)
(* once, and kills what is cancelled; a machine that crashes comes back.    *)
(***************************************************************************)
EXTENDS TokenCache, AutoStop, FiniteSetsExt, Functions

CONSTANTS
  Trainings,         \* measurement requests, one entity each
  Points,            \* what the requests may ask for together
  Machines,          \* Ray nodes
  GPUs,              \* GPUs of a machine
  Clocks,            \* durations of the steps, as a machine measures them
  SampleRuns,        \* number_sample_runs: 5
  MaxCrashes         \* bound: crashes of machines

\* What a request asks for: the entity's values and the experiment's.  known
\* says whether its data set, model, weights and packages are; experts is the model's num_local_experts, 0 if it cannot be read.
PointType ==
  [method : {"train", "full-error", "deprecated"}, known : BOOLEAN,
   gpus : Nat, nodes : Nat \ {0}, multi : {"yes", "no", "unset"},
   backend : {"none", "DDP", "FSDP"}, batch : Nat \ {0}, accumulation : Nat,
   ep : Nat, version : {"old", "new"}, experts : Nat, auto : BOOLEAN]

ASSUME PointsAssumption == \A ps \in Points : \A r \in Trainings : ps[r] \in PointType

\* A clock measures every step there may be.
ASSUME TrainerAssumption ==
  /\ IsFiniteSet(Machines) /\ SampleRuns \in Nat \ {0} /\ MaxCrashes \in Nat
  /\ Clocks \subseteq [1..MaxSteps -> Nat]

MachineRanks == 1 .. Cardinality(Machines)
ASSUME CountersAssumption == Counters = Trainings \X MachineRanks

VARIABLES
  typed,             \* whether the actuator parameters were valid
  point,             \* what each request asks for
  stage,             \* what serves a request
  machines,          \* the machines a request holds, by rank
  task,              \* the state of its Ray tasks, by rank
  metrics,           \* what they returned
  tally,             \* how its sample runs ended (full-error)
  answer,            \* what was put on the queue, Nothing before
  crashes,
  causes,            \* history: whether a rank ran out of GPU memory ("oom"), and
                     \* whether anything else went wrong for a request ("other")
  clocks             \* history: how long the steps of its training took

actuator == <<typed, point, stage, tally, answer>>
ray == <<machines, task, metrics, crashes>>
trainerVars == <<tokenVars, actuator, ray, causes, clocks>>

TaskStates == {"start", "train", "count", "ok", "oom", "indivisible", "failed"}
Errors == {"oom", "indivisible", "failed"}
NoMetrics == [steps |-> 0, warmup |-> 0, tokens |-> 0]
Metrics == [steps : Nat, warmup : Nat, tokens : Int]
Answers == [status : {"valid", "invalid", "failed"}, result : Metrics]
ASSUME NothingAssumption == Nothing \notin Answers

TrainerInit ==
  /\ TokenInit
  /\ typed \in BOOLEAN
  /\ point \in Points
  /\ stage = [r \in Trainings |-> "new"]
  /\ machines = [r \in Trainings |-> <<>>]
  /\ task = [r \in Trainings |-> <<>>]
  /\ metrics = [r \in Trainings |-> <<>>]
  /\ tally = [r \in Trainings |-> [oom |-> 0, other |-> 0, none |-> 0]]
  /\ answer = [r \in Trainings |-> Nothing]
  /\ crashes = 0
  /\ causes = [r \in Trainings |-> {}]
  /\ clocks = [r \in Trainings |-> <<>>]

AtLeastOne(n) == IF n = 0 THEN 1 ELSE n
OneOrMore(p) == AtLeastOne(p.gpus)

\* validate_and_update: the entities that will never be measured.
\* Mutant: GPUs that do not spread over the machines pass.
InvalidUnlessSpread(p) ==
  \/ p.batch % OneOrMore(p) # 0
  \/ p.nodes > 1 /\ p.multi = "no"
  \/ p.ep > 0 /\ (p.gpus % p.ep # 0 \/ p.version = "old")
Invalid(p) ==
  \/ p.batch % OneOrMore(p) # 0
  \/ p.nodes > 1 /\ p.multi = "no"
  \/ OneOrMore(p) % p.nodes # 0
  \/ p.ep > 0 /\ (p.gpus % p.ep # 0 \/ p.version = "old")

\* _cli_args_for_measurement: what the actuator knows nothing of
Unknown(p) == ~p.known

\* Updates of validate_and_update: one GPU needs no backend, one machine no placement group.
Backend(p) == IF p.gpus < 2 THEN "none" ELSE p.backend
MultiNode(p) == p.nodes > 1
Ranks(p) == 1 .. p.nodes
GPUsPerMachine(p) == p.gpus \div p.nodes

\* The processes of a rank that train: without a backend there is one.
Processes(p) == IF Backend(p) = "none" THEN {1} ELSE 1 .. GPUsPerMachine(p)

-----------------------------------------------------------------------------
(* The answer of a request.                                                 *)

Goes(r, to) == stage' = [stage EXCEPT ![r] = to]

\* The tasks that still run are killed with whatever they were doing.
Killed(r) ==
  counter' = [c \in Counters |-> IF c[1] = r THEN Idle ELSE counter[c]]

\* The request leaves the cluster.
Release(r) ==
  /\ machines' = [machines EXCEPT ![r] = <<>>]
  /\ task' = [task EXCEPT ![r] = <<>>]
  /\ metrics' = [metrics EXCEPT ![r] = <<>>]
  /\ Killed(r)
  /\ UNCHANGED <<dataset, files, replacements, replaced>>

Put(r, status, result) ==
  /\ answer' = [answer EXCEPT ![r] = [status |-> status, result |-> result]]
  /\ Goes(r, "answered")

Wrong(r, cause) == causes' = [causes EXCEPT ![r] = @ \cup {cause}]

Fails(r) == Put(r, "failed", NoMetrics) /\ Wrong(r, "other")

-----------------------------------------------------------------------------
(* Before anything runs.                                                    *)

\* A deprecated experiment is refused.
Submit(r) ==
  /\ stage[r] = "new"
  /\ Goes(r, IF point[r].method = "deprecated" THEN "refused" ELSE "prepare")
  /\ UNCHANGED <<tokenVars, typed, point, tally, answer, ray, causes, clocks>>

\* Invalid actuator parameters: typed_parameters was never assigned, and the
\* handler of the AttributeError raises another one, for there is no
\* experiment yet.  The request is not answered.
PrepareDies(r) ==
  /\ stage[r] = "prepare" /\ ~typed
  /\ Goes(r, "dead")
  /\ UNCHANGED <<tokenVars, typed, point, tally, answer, ray, causes, clocks>>

\* prepare_finetune_context
Prepare(r) ==
  /\ stage[r] = "prepare" /\ typed
  /\ LET p == point[r] IN
       \/ Invalid(p) /\ Put(r, "invalid", NoMetrics) /\ UNCHANGED causes
       \/ ~Invalid(p) /\ Unknown(p) /\ Fails(r)
       \/ ~Invalid(p) /\ ~Unknown(p) /\ Goes(r, "file") /\ UNCHANGED <<answer, causes>>
  /\ UNCHANGED <<tokenVars, typed, point, tally, ray, clocks>>

\* The file of the data set is there, or it is not.
CheckFile(r) ==
  /\ stage[r] = "file"
  /\ \/ Fails(r)
     \/ /\ MultiNode(point[r]) /\ point[r].method = "full-error"
        /\ Fails(r)
     \/ /\ ~(MultiNode(point[r]) /\ point[r].method = "full-error")
        /\ Goes(r, "place") /\ UNCHANGED <<answer, causes>>
  /\ UNCHANGED <<tokenVars, typed, point, tally, ray, clocks>>

-----------------------------------------------------------------------------
(* Machines for it.                                                         *)

\* The ranks of other requests that hold a machine
Holders(m) == {h \in Counters : h[2] \in DOMAIN machines[h[1]] /\ machines[h[1]][h[2]] = m}
Occupied(m) == MapThenSumSet(LAMBDA h : GPUsPerMachine(point[h[1]]), Holders(m))

\* full-worker is a resource that each machine has once.
Fits(r, m) ==
  /\ Occupied(m) + GPUsPerMachine(point[r]) <= GPUs
  /\ MultiNode(point[r]) => \A h \in Holders(m) : ~MultiNode(point[h[1]])

\* All bundles of a STRICT_SPREAD placement group are placed at once, on
\* different machines; a run on one machine needs no port of its own yet.
Place(r) ==
  /\ stage[r] = "place"
  /\ \E ms \in [Ranks(point[r]) -> Machines] :
       /\ \A i \in Ranks(point[r]) : Fits(r, ms[i])
       /\ \A i, j \in Ranks(point[r]) : ms[i] = ms[j] => i = j
       /\ machines' = [machines EXCEPT ![r] = ms]
  /\ Goes(r, IF MultiNode(point[r]) THEN "port" ELSE "run")
  /\ task' = [task EXCEPT ![r] = IF MultiNode(point[r]) THEN <<>> ELSE <<"start">>]
  /\ metrics' = [metrics EXCEPT ![r] = [i \in Ranks(point[r]) |-> NoMetrics]]
  /\ UNCHANGED <<tokenVars, typed, point, tally, answer, crashes, causes, clocks>>

\* A free port of the machine of rank 1, and its address, for all of them
ChoosePort(r) ==
  /\ stage[r] = "port"
  /\ Goes(r, "run")
  /\ task' = [task EXCEPT ![r] = [i \in Ranks(point[r]) |-> "start"]]
  /\ UNCHANGED <<tokenVars, typed, point, tally, answer, machines, metrics, crashes,
                 causes, clocks>>

PortRaises(r) ==
  /\ stage[r] = "port"
  /\ Fails(r)
  /\ Release(r)
  /\ UNCHANGED <<typed, point, tally, crashes, clocks>>

-----------------------------------------------------------------------------
(* launch_finetune, on the machine of each rank.                            *)

Becomes(r, i, state) ==
  /\ task' = [task EXCEPT ![r][i] = state]
  /\ UNCHANGED <<machines, crashes>>

\* The kernel up to the start of its processes.  Rank 1 needs the port that
\* was chosen; somebody else may have taken it.
Launch(r, i) ==
  /\ i \in DOMAIN task[r] /\ task[r][i] = "start"
  /\ LET indivisible == point[r].ep > 0 /\ point[r].experts % point[r].ep # 0 IN
       \/ indivisible /\ Becomes(r, i, "indivisible") /\ UNCHANGED causes
       \/ ~indivisible /\ Becomes(r, i, "train") /\ UNCHANGED causes
       \/ /\ ~indivisible /\ MultiNode(point[r]) /\ i = 1 /\ Backend(point[r]) # "none"
          /\ Becomes(r, i, "failed")
          /\ Wrong(r, "other")
  /\ UNCHANGED <<tokenVars, actuator, metrics, clocks>>

\* What the processes of a rank reported makes its exception: an
\* ExperimentError goes first.
\* Mutant: the first process that reported anything.
FirstReport(reports) ==
  IF \E q \in DOMAIN reports : /\ reports[q] = "oom"
                               /\ \A o \in DOMAIN reports : o < q => reports[o] = "none"
  THEN "oom" ELSE "failed"
Exception(reports) ==
  IF \E q \in DOMAIN reports : reports[q] = "oom" THEN "oom" ELSE "failed"

\* The processes of a rank end with an error.  Those of other ranks then wait
\* for them, for as long as it takes.
TrainingFails(r, i) ==
  /\ i \in DOMAIN task[r] /\ task[r][i] = "train"
  /\ \E reports \in [Processes(point[r]) -> {"none", "oom", "other"}] :
       /\ Becomes(r, i, Exception(reports))
       /\ Wrong(r, IF "oom" \in Range(reports) THEN "oom" ELSE "other")
  /\ UNCHANGED <<tokenVars, actuator, metrics, clocks>>

\* The ranks that train with rank i: without a backend it trains alone.
Together(r, i) == IF Backend(point[r]) = "none" THEN {i} ELSE DOMAIN task[r]

Updated(f, g) ==
  [x \in DOMAIN f \cup DOMAIN g |-> IF x \in DOMAIN g THEN g[x] ELSE f[x]]

\* The ranks that train together do so step by step, to the same end.
\* training_steps leaves out the warm-up of the rank.
TrainingEnds(r, i) ==
  /\ i \in DOMAIN task[r]
  /\ \A j \in Together(r, i) : task[r][j] = "train"
  /\ \E cs \in [Together(r, i) -> IF point[r].auto THEN Clocks ELSE {<<>>}] :
       LET steps == IF point[r].auto THEN StopsAfter(cs) ELSE MaxSteps
           warmup(j) == IF point[r].auto THEN WarmupSteps(cs[j], steps) ELSE 0
       IN  /\ clocks' = [clocks EXCEPT ![r] = Updated(@, cs)]
           /\ metrics' = [metrics EXCEPT ![r] = Updated(@, [j \in DOMAIN cs |->
                [steps |-> steps - warmup(j), warmup |-> warmup(j), tokens |-> 0]])]
  /\ LET ends == IF point[r].method = "full-error" THEN "ok" ELSE "count" IN
       /\ task' = [task EXCEPT ![r] = Updated(@, [j \in Together(r, i) |-> ends])]
       /\ counter' = [c \in Counters |->
            IF ends = "count" /\ c[1] = r /\ c[2] \in Together(r, i)
            THEN [Idle EXCEPT !.stage = "look"] ELSE counter[c]]
  /\ UNCHANGED <<dataset, files, replacements, replaced, actuator, machines, crashes, causes>>

\* The entries of a step, on all GPUs of all machines.
\* Mutant: on those of one machine.
EntriesOfOneMachine(p) ==
  (p.batch \div OneOrMore(p)) * AtLeastOne(GPUsPerMachine(p)) * AtLeastOne(p.accumulation)
EntriesInOneStep(p) ==
  LET perDevice == p.batch \div OneOrMore(p)
      worldSize == AtLeastOne(GPUsPerMachine(p)) * p.nodes
  IN  perDevice * worldSize * AtLeastOne(p.accumulation)

\* The tokens of the entries of the training without those of its warm-up
CountTokens(r, i) ==
  /\ <<r, i>> \in Counters /\ i \in DOMAIN task[r] /\ task[r][i] = "count"
  /\ counter[<<r, i>>].stage = "counted"
  /\ LET tokens == counter[<<r, i>>].tokens
         entries == EntriesInOneStep(point[r])
         warmup == metrics[r][i].warmup
     IN  metrics' = [metrics EXCEPT ![r][i].tokens =
           TokenizeText(tokens, entries * (warmup + metrics[r][i].steps), entries * warmup)]
  /\ Becomes(r, i, "ok")
  /\ counter' = [counter EXCEPT ![<<r, i>>] = Idle]
  /\ UNCHANGED <<dataset, files, replacements, replaced, actuator, causes, clocks>>

\* The data set cannot be read, its digest taken or its samples be tokenized, or
\* the tokenizer not be loaded again for the sum: the rank fails.
CountingRaises(r, i) ==
  /\ <<r, i>> \in Counters /\ i \in DOMAIN task[r] /\ task[r][i] = "count"
  /\ counter[<<r, i>>].stage \in {"look", "tokenize", "counted"}
  /\ Becomes(r, i, "failed")
  /\ Wrong(r, "other")
  /\ counter' = [counter EXCEPT ![<<r, i>>] = Idle]
  /\ UNCHANGED <<dataset, files, replacements, replaced, actuator, metrics, clocks>>

\* A machine crashes: what runs on it fails, what has ended does not.
MachineCrashes(m) ==
  /\ crashes < MaxCrashes /\ crashes' = crashes + 1
  /\ LET on(r, i) == machines[r][i] = m /\ task[r][i] \in {"start", "train", "count"} IN
       /\ task' = [r \in Trainings |-> [i \in DOMAIN task[r] |->
            IF on(r, i) THEN "failed" ELSE task[r][i]]]
       /\ causes' = [r \in Trainings |->
            IF \E i \in DOMAIN task[r] : on(r, i) THEN causes[r] \cup {"other"} ELSE causes[r]]
       /\ counter' = [c \in Counters |->
            IF c[2] \in DOMAIN task[c[1]] /\ on(c[1], c[2]) THEN Idle ELSE counter[c]]
  /\ UNCHANGED <<dataset, files, replacements, replaced, actuator, machines, metrics, clocks>>

-----------------------------------------------------------------------------
(* The request is answered.                                                 *)

\* An ExperimentError makes the entity invalid, anything else the request fail.
StatusOf(exception) == IF exception = "failed" THEN "failed" ELSE "invalid"

Answerable(r) == stage[r] = "run" /\ point[r].method = "train"

\* A rank has failed: its exception is that of the request, whether the others
\* have ended or not.
\* Mutant: gather() waits for all of them.
ExceptionOfAll(r) ==
  /\ Answerable(r)
  /\ \A i \in DOMAIN task[r] : task[r][i] \in Errors \cup {"ok"}
  /\ \E i \in DOMAIN task[r] :
       task[r][i] \in Errors /\ Put(r, StatusOf(task[r][i]), NoMetrics)
  /\ Release(r)
  /\ clocks' = [clocks EXCEPT ![r] = <<>>]
  /\ UNCHANGED <<typed, point, tally, crashes, causes>>
RanksRaise(r) ==
  /\ Answerable(r)
  /\ \E i \in DOMAIN task[r] :
       task[r][i] \in Errors /\ Put(r, StatusOf(task[r][i]), NoMetrics)
  /\ Release(r)
  /\ clocks' = [clocks EXCEPT ![r] = <<>>]
  /\ UNCHANGED <<typed, point, tally, crashes, causes>>

\* All ranks have ended: the training metrics are those of rank 1.
\* Decoding them may raise.
RanksReturn(r) ==
  /\ Answerable(r)
  /\ \A i \in DOMAIN task[r] : task[r][i] = "ok"
  /\ \/ Put(r, "valid", metrics[r][1]) /\ UNCHANGED causes
        /\ UNCHANGED clocks
     \/ Fails(r) /\ clocks' = [clocks EXCEPT ![r] = <<>>]
  /\ Release(r)
  /\ UNCHANGED <<typed, point, tally, crashes>>

\* full-error: the experiment is run SampleRuns times, one after the other,
\* and how they end is the measurement.
SampleRunEnds(r) ==
  /\ stage[r] = "run" /\ point[r].method = "full-error"
  /\ \/ task[r][1] = "oom" /\ tally' = [tally EXCEPT ![r].oom = @ + 1]
     \/ task[r][1] \in {"indivisible", "failed"} /\ tally' = [tally EXCEPT ![r].other = @ + 1]
     \/ task[r][1] = "ok" /\ tally' = [tally EXCEPT ![r].none = @ + 1]
  /\ LET runs == tally[r].oom + tally[r].other + tally[r].none + 1 IN
       IF runs < SampleRuns THEN Goes(r, "place") /\ UNCHANGED answer
                            ELSE Put(r, "valid", NoMetrics)
  /\ Release(r)
  /\ UNCHANGED <<typed, point, crashes, causes, clocks>>

-----------------------------------------------------------------------------
CountStep(c) == Count(c) /\ UNCHANGED <<actuator, ray, causes, clocks>>

Serve(r) ==
  \/ PrepareDies(r) \/ Prepare(r) \/ CheckFile(r)
  \/ Place(r) \/ ChoosePort(r) \/ PortRaises(r)
  \/ RanksRaise(r) \/ RanksReturn(r) \/ SampleRunEnds(r)
  \/ \E i \in MachineRanks :
       Launch(r, i) \/ TrainingEnds(r, i) \/ CountStep(<<r, i>>) \/ CountTokens(r, i)

TrainerNext ==
  \/ \E r \in Trainings :
       \/ Submit(r) \/ Serve(r)
       \/ \E i \in MachineRanks : TrainingFails(r, i) \/ CountingRaises(r, i)
  \/ UpdateDataset /\ UNCHANGED <<actuator, ray, causes, clocks>>
  \/ \E m \in Machines : MachineCrashes(m)

\* The actuator's tasks and what Ray has placed for them run, and a training
\* none of whose ranks fails ends.  Nothing makes a training end after a rank
\* has failed, and nobody is obliged to submit.
TrainerFairness == \A r \in Trainings : WF_trainerVars(Serve(r))

TrainerSpec == TrainerInit /\ [][TrainerNext]_trainerVars /\ TrainerFairness

-----------------------------------------------------------------------------
(* Properties.                                                              *)

TrainerTypeOK ==
  /\ TokenTypeOK
  /\ typed \in BOOLEAN /\ point \in Points
  /\ crashes \in 0..MaxCrashes
  /\ \A r \in Trainings :
       /\ stage[r] \in {"new", "refused", "prepare", "dead", "file", "place", "port",
                        "run", "answered"}
       /\ DOMAIN task[r] \subseteq MachineRanks
       /\ \A i \in DOMAIN task[r] : task[r][i] \in TaskStates /\ machines[r][i] \in Machines
       /\ (answer[r] = Nothing) <=> (stage[r] # "answered")

\* The documented conditions of a valid point (sft-trainer.md, Validation).
Multiple(n, of) == \E k \in 0..n : k * of = n
Consistent(p) ==
  /\ Multiple(p.batch, OneOrMore(p)) /\ Multiple(OneOrMore(p), p.nodes)
  /\ p.nodes > 1 => p.multi # "no"
  /\ p.ep > 0 => Multiple(p.gpus, p.ep) /\ Multiple(p.experts, p.ep) /\ p.version = "new"

\* Invalid, and so never measured again, is only what can never be measured: an
\* inconsistent entity, or one that ran out of GPU memory on some rank.  Failed,
\* and so measured again, is only what something else went wrong for, on a rank
\* of its own if not before; valid only what nothing went wrong for on any rank,
\* or a count of all runs.  Of ranks that fail differently the first to be heard
\* decides: see OutOfMemoryIsInvalid.
AnswerIsRight ==
  \A r \in Trainings : answer[r] # Nothing =>
    LET p == point[r]
        status == answer[r].status
    IN  /\ status = "invalid" => ~Consistent(p) \/ "oom" \in causes[r]
        /\ status = "failed" => Consistent([p EXCEPT !.ep = 0]) /\ "other" \in causes[r]
        /\ status = "valid" /\ p.method = "train" => Consistent(p) /\ causes[r] = {}
        /\ status = "valid" /\ p.method = "full-error" =>
             /\ tally[r].oom + tally[r].other + tally[r].none = SampleRuns
             /\ (tally[r].oom > 0) <=> ("oom" \in causes[r])

\* A measurement of a training whose ranks train together
Trained(r) ==
  /\ answer[r] # Nothing /\ answer[r].status = "valid" /\ point[r].method = "train"
  /\ MultiNode(point[r]) => Backend(point[r]) # "none"

\* auto_stop_method: the training goes on until each rank, by its own clock,
\* has sampled enough after its warm-up, and no longer; the reported steps
\* are then those of rank 1 without its warm-up.
StoppedWhenEnough(cs, result) ==
  LET steps == result.warmup + result.steps
      AllEnough(s) == \A i \in DOMAIN cs : Enough(cs[i], s)
  IN  /\ AllEnough(steps) \/ steps = MaxSteps
      /\ \A s \in 1 .. steps - 1 : ~AllEnough(s)
      /\ Enough(cs[1], steps) => result.warmup = Cardinality(Warmup(cs[1], steps))

\* Throughput is tokens per time, and both leave out the warm-up: the tokens of
\* a measurement are those of the batches of its reported steps, in a data set
\* that is repeated as often as needed.  Whoever counts, crashes or is killed
\* while counting, a cache file never gives the tokens of another content,
\* unless the data set was replaced while its tokens were computed.
ThroughputIsRight ==
  /\ \A r \in Trainings : Trained(r) /\ point[r].auto =>
       StoppedWhenEnough(clocks[r], answer[r].result)
  /\ ~replaced =>
       /\ \A v \in Versions : files[v] \in {Absent, Torn, Tokens[v]}
       /\ \A r \in Trainings : Trained(r) =>
            LET result == answer[r].result
                batch == point[r].batch * AtLeastOne(point[r].accumulation)
            IN  \E v \in Versions :
                  result.tokens = TokensBetween(Tokens[v], batch * result.warmup,
                                                batch * (result.warmup + result.steps))

\* Answers and measurements are right at every step, whatever fails and whoever
\* is killed.
MeasurementsAreRight == TrainerTypeOK /\ AnswerIsRight /\ ThroughputIsRight

\* "The run raises a `torch.cuda.OutOfMemoryError` (considered invalid due to GPU
\* memory exhaustion)" (sft-trainer.md:1696).  The code looks for it among the
\* processes of one rank, and gather() raises what the first rank did.
OutOfMemoryIsInvalid ==
  \A r \in Trainings :
    answer[r] # Nothing /\ point[r].method = "train" /\ "oom" \in causes[r]
      => answer[r].status = "invalid"

\* Every request is answered, whatever fails: requests that wait for machines
\* never wait for each other, and one whose rank has failed does not wait for
\* the others.  With invalid actuator parameters none is.
Answered == \A r \in Trainings : (typed /\ stage[r] = "prepare") ~> (stage[r] = "answered")
=============================================================================
