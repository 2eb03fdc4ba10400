-------------------------------- MODULE Trim --------------------------------
(***************************************************************************)
(* The TRIM operator (plugins/operators/trim/src/trim): it has a random    *)
(* walk sample a discovery space until enough points have a value of the   *)
(* target output ("no priors"), and then another random walk, of one       *)
(* entity at a time, whose sampler trains a model after every measurement  *)
(* and stops when the models no longer improve.  The sampler never hears   *)
(* of the measurements: it compares the table of the space with the one it *)
(* read the step before, while other operations measure in the same space. *)
(*                                                                         *)
(* A row of the table is a point and the mean of its measurements, known   *)
(* by their number.  What AutoGluon computes is abstracted to the choices  *)
(* it leads to: the order of the features, and whether to stop.            *)
(***************************************************************************)
EXTENDS DiscoverySpace

CONSTANTS
  TrimSpaces,       \* the spaces TRIM runs on: discrete, with finitely many points
  TrimParameters,   \* [minPoints, maxPoints, iterationSize, batchSize, strategy, enabled]
  MaxEarlier,       \* bound: points measured before TRIM starts
  MaxOthers         \* bound: measurements of other operations meanwhile, by the
                    \*   number of dimensions

\* The domains of a space are valid and have finitely many values, and no two
\* dimensions have one name.
ASSUME TrimAssumption ==
  /\ MaxEarlier \in Nat /\ MaxOthers \in Seq(Nat)
  /\ \A p \in TrimParameters :
       /\ {p.minPoints, p.maxPoints} \subseteq Nat
       /\ {p.iterationSize, p.batchSize} \subseteq Nat \ {0}
       /\ p.strategy \in {"random", "clhs", "sobol"} /\ p.enabled \in BOOLEAN
  /\ \A s \in TrimSpaces :
       /\ s \in Seq([name : {s[i].name : i \in DOMAIN s}, domain : Domains])
       /\ \A i, j \in DOMAIN s : s[i].name = s[j].name => i = j
       /\ \A i \in DOMAIN s :
            LET d == EntitySpaceDomain(s[i].domain) IN IsValidDomain(d) /\ HasValues(d)

VARIABLES
  params,
  stage,      \* where the operator is
  measured,   \* measured[p]: the measurements of the target in point p
  others,     \* measurements by other operations so far
  earlier,    \* initial_source_space_size
  budget,     \* numberEntities of the random walk
  plan,       \* list_of_entities of its sampler
  sampled,    \* entities sampled by the random walk
  measuring,  \* requests that are not finished: [point, replayed]
  initialSource, previousSource,
  yieldedRows,
  models,     \* what they were trained and tested on
  finalModel  \* the rows it was trained on

walkVars == <<budget, plan, sampled, measuring>>
modelVars == <<initialSource, previousSource, yieldedRows, models, finalModel>>
trimVars == <<params, stage, measured, others, earlier, walkVars, modelVars>>

Untrained == {}

-----------------------------------------------------------------------------
(* The table of the space.                                                   *)

Points == ToSet(SequentialPoints)

Source == {<<p, measured[p]>> : p \in DOMAIN measured}
Target == Points \ DOMAIN measured

PointsIn(rows) == {row[1] : row \in rows}

\* Another measurement of a point changes its mean.
WithMeasurement(p) ==
  [q \in DOMAIN measured \cup {p} |->
     (IF q \in DOMAIN measured THEN measured[q] ELSE 0) + (IF q = p THEN 1 ELSE 0)]

-----------------------------------------------------------------------------
(* The order in which points are sampled.                                    *)

\* The density of the indexes taken, as far as d on both sides of i, is at
\* most that around j.
NotDenser(taken, length, d, i, j) ==
  LET Left(k) == IF k < d THEN 0 ELSE k - d
      Right(k) == IF k + d < length THEN k + d ELSE length - 1
      Total(k) == Cardinality({t \in taken : Left(k) <= t /\ t <= Right(k)})
      Denominator(k) == Right(k) - Left(k) + 1
  IN  Total(i) * Denominator(j) <= Total(j) * Denominator(i)

\* The next index: the candidates with the least dense neighbourhood, for
\* neighbourhoods that grow, and then the first of them.
NextIndex(taken, length) ==
  LET candidates[d \in 0 .. length] ==
        IF d = 0 THEN 0 .. length - 1 \ taken
        ELSE LET previous == candidates[d - 1]
             IN  {i \in previous :
                    \A j \in previous : NotDenser(taken, length, d, i, j)}
  IN  CHOOSE i \in candidates[length] : \A j \in candidates[length] : i <= j

\* The list goes on until it has as many indexes as are wanted.
Filled(list, length, total) ==
  LET filled[k \in 0 .. total] ==
        IF k <= Len(list) THEN list
        ELSE Append(filled[k - 1], NextIndex(ToSet(filled[k - 1]), length))
  IN  filled[total]

Without(s, members) == Keep(s, {k \in DOMAIN s : s[k] \notin members})

\* get_index_list_van_der_corput.  The indexes sampled before are counted among
\* those to sample; the ends of the segment come first, and are taken even when
\* the total is reached before.
IndexList(length, total, sampledIndices) ==
  LET distinctEnds ==
        Without(IF length = 1 THEN <<0>> ELSE <<0, length - 1>>, ToSet(sampledIndices))
      room == total - Len(sampledIndices)
  IN  IF total = 0 THEN <<>>
      ELSE IF Len(sampledIndices) = length THEN [k \in 1 .. length |-> k - 1]
      ELSE IF room < 0 THEN sampledIndices
      ELSE IF room \in 1 .. Len(distinctEnds)
             THEN sampledIndices \o SubSeq(distinctEnds, 1, room)
             ELSE Filled(sampledIndices \o distinctEnds, length, total)

\* Indexes of points are those of a table sorted by the features.
SampledIndices(sorted) ==
  Keep([k \in DOMAIN sorted |-> k - 1], {k \in DOMAIN sorted : sorted[k] \in DOMAIN measured})

\* Mutant: the points that are measured are left in.
IndexOrderUnfiltered(sorted) ==
  IndexList(Len(sorted), Cardinality(Target), SampledIndices(sorted))

IndexOrder(sorted) ==
  Without(IndexList(Len(sorted), Cardinality(Target), SampledIndices(sorted)),
          ToSet(SampledIndices(sorted)))

\* The features by their importance for what has been measured.
FeatureOrders == {[i \in DOMAIN space |-> space[f[i]]] : f \in Bijection(DOMAIN space, DOMAIN space)}

SortedTables == {PointsOf(features) : features \in FeatureOrders}

Plans ==
  {LET order == IndexOrder(sorted)
   IN  [k \in DOMAIN order |-> sorted[order[k] + 1]] : sorted \in SortedTables}

\* Without priors, points are combined from the values that unmeasured points
\* have, so that points may be among them that are measured.
ValuesOf(name) == {p[name] : p \in Target}
Combinations == {p \in Points : \A name \in DOMAIN p : p[name] \in ValuesOf(name)}

RandomSamples(n) == {s \in [1 .. n -> Combinations] : IsInjective(s)}

\* In every dimension, all values are drawn before one is drawn again, but the
\* points need not be distinct.
LatinSamples(n) ==
  {s \in [1 .. n -> Combinations] :
     \A name \in Names : \A j, k \in 1 .. n :
       LET d == Cardinality(ValuesOf(name))
       IN  j < k /\ (j - 1) \div d = (k - 1) \div d => s[j][name] # s[k][name]}

\* Sobol's points if they are distinct, or else those of clhs.
SobolSamples(n) == RandomSamples(n) \cup LatinSamples(n)

SamplesBy(strategy, n) ==
  CASE strategy = "random" -> RandomSamples(n)
    [] strategy = "clhs" -> LatinSamples(n)
    [] strategy = "sobol" -> SobolSamples(n)

\* As many as TRIM needs in all, however many there are already.
samples == params.minPoints

NoPriorsSamples ==
  LET n == IF samples < Cardinality(Target) THEN samples ELSE Cardinality(Target)
  IN  IF n = 0 THEN {<<>>} ELSE SamplesBy(params.strategy, n)

-----------------------------------------------------------------------------
(* The random walks.                                                         *)

Raise == stage' = "raised"

WalkStarts(entities, batchSize, then) ==
  /\ budget' = entities
  /\ plan' = <<>> /\ sampled' = 0 /\ measuring' = <<>>
  /\ IF batchSize <= entities /\ entities <= Cardinality(Points)
       THEN stage' = then ELSE Raise

\* The entity is requested; what is measured already is replayed.
Sampling(p) ==
  /\ sampled' = sampled + 1
  /\ measuring' = Append(measuring, [point |-> p, replayed |-> p \in DOMAIN measured])

MayFinish(k) == stage \in {"noPriors", "iterating"} /\ k \in DOMAIN measuring

Finishes(k) == measuring' = RemoveAt(measuring, k)

MeasurementSucceeds(k) ==
  /\ MayFinish(k)
  /\ Finishes(k)
  /\ measured' = IF measuring[k].replayed THEN measured ELSE WithMeasurement(measuring[k].point)
  /\ UNCHANGED <<params, stage, others, earlier, budget, plan, sampled, modelVars>>

\* It fails, or succeeds without a value of the target.
MeasurementHasNoTarget(k) ==
  /\ MayFinish(k) /\ ~measuring[k].replayed
  /\ Finishes(k)
  /\ UNCHANGED <<params, stage, measured, others, earlier, budget, plan, sampled, modelVars>>

OtherMeasures(p) ==
  /\ stage \notin {"done", "raised"}
  /\ others < MaxOthers[Len(space)]
  /\ others' = others + 1
  /\ measured' = WithMeasurement(p)
  /\ UNCHANGED <<params, stage, earlier, walkVars, modelVars>>

-----------------------------------------------------------------------------
(* The operator.                                                             *)

Assess ==
  /\ stage = "assessing"
  /\ earlier' = Cardinality(Source)
  /\ IF Cardinality(Source) < params.minPoints
       THEN WalkStarts(params.minPoints - Cardinality(Source), params.batchSize, "sampler")
       ELSE WalkStarts(params.maxPoints, 1, "planning")
  /\ UNCHANGED <<params, measured, others, modelVars>>

NoPriorsPlans ==
  /\ stage = "sampler"
  /\ plan' \in NoPriorsSamples
  /\ stage' = "noPriors"
  /\ UNCHANGED <<params, measured, others, earlier, budget, sampled, measuring, modelVars>>

NoPriorsNext ==
  /\ stage = "noPriors"
  /\ Len(measuring) < params.batchSize
  /\ sampled < budget /\ sampled < Len(plan)
  /\ Sampling(plan[sampled + 1])
  /\ UNCHANGED <<params, stage, measured, others, earlier, budget, plan, modelVars>>

\* Without enough points even so it is an InsufficientDataError.  The budget of
\* the second walk is what the first one has added.
NoPriorsDone ==
  /\ stage = "noPriors"
  /\ measuring = <<>> /\ (sampled = budget \/ sampled = Len(plan))
  /\ IF Cardinality(Source) < params.minPoints
       THEN Raise /\ UNCHANGED walkVars
       ELSE WalkStarts(Cardinality(Source) - earlier, 1, "planning")
  /\ UNCHANGED <<params, measured, others, earlier, modelVars>>

\* The values of the target must not all be the same; of an empty table there is
\* not even the column.
IterationPlans ==
  /\ stage = "planning"
  /\ \E single \in BOOLEAN :
       /\ Cardinality(Source) = 1 => single
       /\ IF single \/ Source = {}
            THEN Raise /\ UNCHANGED plan
            ELSE stage' = "iterating" /\ plan' \in Plans
  /\ UNCHANGED <<params, measured, others, earlier, budget, sampled, measuring, modelVars>>

-----------------------------------------------------------------------------
(* The iterations of the sampler; sampled is their index.                    *)

\* The size of the holdout set and of the windows.
K == params.iterationSize

NewRows == Source \ previousSource

\* The random walk asks for the next entity.
Asks ==
  /\ stage = "iterating"
  /\ measuring = <<>> /\ sampled < budget /\ sampled < Len(plan)

FirstEntity ==
  /\ Asks /\ sampled = 0
  /\ initialSource' = Source /\ previousSource' = Source
  /\ Sampling(plan[1])
  /\ UNCHANGED <<params, stage, measured, others, earlier, budget, plan,
                 yieldedRows, models, finalModel>>

\* Nothing new is an InsufficientDataError, more than one row a ValueError.
NotOneRow ==
  /\ Asks /\ sampled > 0
  /\ Cardinality(NewRows) # 1
  /\ Raise
  /\ UNCHANGED <<params, measured, others, earlier, walkVars, modelVars>>

Ring == LET rows == Append(yieldedRows, CHOOSE row \in NewRows : TRUE)
        IN  SubSeq(rows, IF Len(rows) > K THEN Len(rows) - K + 1 ELSE 1, Len(rows))

NextEntity ==
  /\ Asks /\ sampled \in 1 .. K - 1
  /\ Cardinality(NewRows) = 1
  /\ yieldedRows' = Ring
  /\ previousSource' = Source
  /\ Sampling(plan[sampled + 1])
  /\ UNCHANGED <<params, stage, measured, others, earlier, budget, plan,
                 initialSource, models, finalModel>>

Holdout == IF sampled = K THEN Source \ initialSource ELSE ToSet(Ring)

\* Mutant: the newest row is trained on.
TrainRowsWithNew == Source

TrainRows == Source \cap (IF sampled = K THEN initialSource ELSE previousSource)

\* Nothing to train on is a ValueError.
NothingToTrainOn ==
  /\ Asks /\ sampled >= K
  /\ Cardinality(NewRows) = 1 /\ TrainRows = {}
  /\ Raise
  /\ UNCHANGED <<params, measured, others, earlier, walkVars, modelVars>>

ModelTrained ==
  /\ Asks /\ sampled >= K
  /\ Cardinality(NewRows) = 1 /\ TrainRows # {}
  /\ yieldedRows' = Ring
  /\ previousSource' = Source
  /\ models' = Append(models, [index |-> sampled, train |-> TrainRows, holdout |-> Holdout,
                               new |-> NewRows, source |-> Source])

Continues ==
  /\ ModelTrained
  /\ Sampling(plan[sampled + 1])
  /\ UNCHANGED <<params, stage, measured, others, earlier, budget, plan,
                 initialSource, finalModel>>

\* Two windows of models are compared.
Stops ==
  /\ ModelTrained
  /\ params.enabled /\ sampled >= 3 * K - 1
  /\ stage' = "finalizing"
  /\ UNCHANGED <<params, measured, others, earlier, walkVars, initialSource, finalModel>>

\* The table is read again.
FinalizeModel ==
  /\ stage = "finalizing"
  /\ finalModel' = Source
  /\ stage' = "done"
  /\ UNCHANGED <<params, measured, others, earlier, walkVars,
                 initialSource, previousSource, yieldedRows, models>>

\* The budget is spent or the plan is at its end, and there is no final model.
IterationDone ==
  /\ stage = "iterating"
  /\ measuring = <<>> /\ (sampled = budget \/ sampled = Len(plan))
  /\ stage' = "done"
  /\ UNCHANGED <<params, measured, others, earlier, walkVars, modelVars>>

-----------------------------------------------------------------------------
\* The discovery space exists, and some of its points have been measured.
TrimInit ==
  /\ space \in TrimSpaces /\ experiments = {} /\ phase = "trim"
  /\ store = <<>> /\ sampler = NoSampler /\ number = 0
  /\ walk = <<>> /\ sample = <<>> /\ batch = <<>> /\ yielded = <<>>
  /\ params \in TrimParameters
  /\ stage = "assessing"
  /\ \E points \in SUBSET Points :
       Cardinality(points) <= MaxEarlier /\ measured = [p \in points |-> 1]
  /\ others = 0 /\ earlier = 0
  /\ budget = 0 /\ plan = <<>> /\ sampled = 0 /\ measuring = <<>>
  /\ initialSource = {} /\ previousSource = {} /\ yieldedRows = <<>>
  /\ models = <<>> /\ finalModel = Untrained

TrimStep ==
  \/ Assess \/ NoPriorsPlans \/ NoPriorsNext \/ NoPriorsDone
  \/ IterationPlans \/ FirstEntity \/ NotOneRow \/ NextEntity
  \/ NothingToTrainOn \/ Continues \/ Stops \/ FinalizeModel \/ IterationDone
  \/ \E k \in DOMAIN measuring : MeasurementSucceeds(k) \/ MeasurementHasNoTarget(k)
  \/ \E p \in Points : OtherMeasures(p)

TrimNext == phase = "trim" /\ TrimStep /\ UNCHANGED spaceVars

TrimSpec == TrimInit /\ [][TrimNext]_<<spaceVars, trimVars>>

-----------------------------------------------------------------------------
(* Properties.                                                               *)

\* How much of its holdout set a model has not seen.  Whatever other operations
\* measure meanwhile, all the rows that are known are used; the first model has
\* seen no point of its holdout set, and every later one has seen all of them
\* but the newest, under this mean or another.  Without other operations the
\* holdout set is what trim.md says, "the last holdoutSize points that have been
\* sampled".
NewestIsUnseen ==
  \A k \in DOMAIN models :
    LET m == models[k]
        unseen == IF k = 1 THEN m.holdout ELSE m.new
    IN  /\ m.source = m.train \cup unseen
        /\ m.new \subseteq m.holdout
        /\ PointsIn(m.holdout) \ PointsIn(m.train) = PointsIn(unseen)
        /\ others = 0 =>
             PointsIn(m.holdout) = {plan[j] : j \in m.index - K + 1 .. m.index}

\* TRIM spends its budget on points that it does not know: it never samples a
\* point of the iterations twice, or one that is measured unless another
\* operation has measured it meanwhile, and it ends normally only with enough
\* points to start from.  There is a final model, on everything that the others
\* knew, if two windows of models have ended the sampling, and otherwise the
\* budget or the plan is used up: see FinalModelTrained.
BudgetWellSpent ==
  /\ stage = "iterating" =>
       /\ IsInjective(plan)
       /\ others = 0 => \A j \in sampled + 1 .. Len(plan) : plan[j] \in Target
  /\ stage = "done" =>
       /\ Cardinality(Source) >= params.minPoints
       /\ IF finalModel = Untrained
            THEN sampled = budget \/ sampled = Len(plan)
            ELSE /\ Len(models) >= 2 * K
                 /\ others = 0 => finalModel = models[Len(models)].source

\* "When the stopping criterion is met (or `samplingBudget.maxPoints` is
\* reached): Trains one final, high-quality AutoGluon model" (trim.md:148-150).
\* The code trains it only when the criterion is met.
FinalModelTrained ==
  stage = "done" /\ sampled = params.maxPoints => finalModel # Untrained

=============================================================================
