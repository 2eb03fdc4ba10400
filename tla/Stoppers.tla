------------------------------ MODULE Stoppers ------------------------------
(***************************************************************************)
(* The stoppers that ado adds to Ray Tune                                  *)
(* (plugins/operators/ray_tune/ado_ray_tune/stoppers.py): objects that Ray *)
(* Tune calls with the result of each trial, in the order in which trials  *)
(* end and often twice for one trial, and that decide when an optimisation *)
(* is over.                                                                *)
(*                                                                         *)
(* A result is the configuration of the trial and the value of its metric, *)
(* NaN if it was not measured, and higher values are better.  What two     *)
(* stoppers compute with statistics is abstracted to the outcome, part of  *)
(* the result here: the InformationGainStopper's whether the mutual        *)
(* information and the ranks are converging, or cannot be calculated, the  *)
(* BayesianMetricDifferenceStopper's which side it is confident of, if any.*)
(***************************************************************************)
EXTENDS Integers, Sequences, FiniteSets

CONSTANTS
  Kinds,           \* the stoppers considered
  TrialIds,        \* the trials, 1 .. the number of samples
  Configs,         \* configurations a trial may have
  Values,          \* values of the metric, in Nat
  MinTrials,       \* SimpleStopper: min_trials
  BufferStates,    \* SimpleStopper: buffer_states
  StopOnRepeat,    \* SimpleStopper: stop_on_repeat
  CountNan,        \* SimpleStopper: count_nan
  GrowthThreshold, \* GrowthStopper: growth_threshold
  GraceTrials,     \* GrowthStopper: grace_trials
  MaxSamples,      \* MaxSamplesStopper: max_samples
  MinSamples,      \* the statistical stoppers: samples before they judge
  SamplesBelowLimit \* InformationGainStopper: samples_below_limit

NaN == -1

\* No configuration yet
None == [none |-> TRUE]

ASSUME StoppersAssumption ==
  /\ Kinds \subseteq {"Simple", "Growth", "MaxSamples", "InformationGain",
                      "MetricDifference"}
  /\ Values \subseteq Nat
  /\ {MinTrials, BufferStates, GrowthThreshold, GraceTrials, MaxSamples,
      MinSamples, SamplesBelowLimit} \subseteq Nat
  /\ {StopOnRepeat, CountNan} \subseteq BOOLEAN
  /\ Configs # {} /\ None \notin Configs

\* What the statistics of a stopper say when the result has come in.
Verdicts(k) ==
  CASE k = "InformationGain" ->
         {"converging", "ranksChange", "informationGrows", "diverging",
          "unparsable", "fails"}
    [] k = "MetricDifference" -> {"above", "within", "undecided"}
    [] OTHER -> {"none"}

\* Only the SimpleStopper looks at configurations, and statistics hide the
\* values: what a stopper does not look at is not distinguished.
Results(k) ==
  [config : IF k = "Simple" THEN Configs ELSE {CHOOSE c \in Configs : TRUE},
   metric : IF k \in {"Simple", "Growth"} THEN Values \cup {NaN}
            ELSE IF k = "MetricDifference" THEN {NaN, 0} ELSE {0},
   verdict : Verdicts(k)]

VARIABLES
  kind,            \* the stopper in use
  seen_trial_ids,  \* the trials it was called for
  trials_num,      \* how many of them count
  should_stop,
  last_experiment, \* SimpleStopper: the configuration of the trial before
  last_metric,     \* the best metric (SimpleStopper) or the first (GrowthStopper)
  patience,        \* wait_until_stop, grace_trials: may get negative
  below_cnt,       \* InformationGainStopper: all_below_diff_threshold_cnt
  no_changes_cnt,  \* InformationGainStopper: no_changes_in_ranks_cnt
  history          \* the results of the trials, in the order of the first calls

stopperVars == <<kind, seen_trial_ids, trials_num, should_stop, last_experiment,
          last_metric, patience, below_cnt, no_changes_cnt, history>>

\* set_config and configure_details.
StopperInit ==
  /\ kind \in Kinds
  /\ seen_trial_ids = {} /\ trials_num = 0 /\ should_stop = FALSE
  /\ last_experiment = None /\ last_metric = NaN
  /\ patience = IF kind = "Simple" THEN BufferStates ELSE GraceTrials
  /\ below_cnt = 0 /\ no_changes_cnt = 0
  /\ history = <<>>

-----------------------------------------------------------------------------
\* The first call for a trial; those that follow return at once.
Seen(trial, result) ==
  /\ trial \notin seen_trial_ids
  /\ seen_trial_ids' = seen_trial_ids \cup {trial}
  /\ history' = Append(history, result)
  /\ UNCHANGED kind

\* The statistical stoppers do not look at results once they want to stop.
Judges == kind \in {"InformationGain", "MetricDifference"} => ~should_stop

SimpleVars == <<last_experiment, last_metric, patience>>
GainVars == <<below_cnt, no_changes_cnt>>

InGracePeriod == trials_num' <= MinTrials

IsRepeat(result) ==
  StopOnRepeat /\ result.config = last_experiment /\ ~InGracePeriod

\* A metric that is NaN is not better than anything; the first one that is a
\* number is, for last_metric starts at infinity.
IsBetter(metric) == metric # NaN /\ (last_metric = NaN \/ metric > last_metric)

SimpleRepeats(result) ==
  /\ IsRepeat(result)
  /\ should_stop' = TRUE
  /\ UNCHANGED SimpleVars

SimpleSkips(result) ==
  /\ ~IsRepeat(result) /\ result.metric = NaN /\ ~CountNan
  /\ last_experiment' = result.config
  /\ UNCHANGED <<should_stop, last_metric, patience>>

SimpleImproves(result) ==
  /\ ~IsRepeat(result) /\ IsBetter(result.metric)
  /\ last_experiment' = result.config
  /\ last_metric' = result.metric
  /\ UNCHANGED <<should_stop, patience>>

\* Mutant: it stops when the buffer is used up.
SimpleWaitsLess(result) ==
  /\ ~IsRepeat(result) /\ ~IsBetter(result.metric)
  /\ result.metric = NaN => CountNan
  /\ last_experiment' = result.config
  /\ patience' = IF InGracePeriod THEN patience ELSE patience - 1
  /\ should_stop' = (should_stop \/ patience' <= 0)
  /\ UNCHANGED last_metric

SimpleWaits(result) ==
  /\ ~IsRepeat(result) /\ ~IsBetter(result.metric)
  /\ result.metric = NaN => CountNan
  /\ last_experiment' = result.config
  /\ patience' = IF InGracePeriod THEN patience ELSE patience - 1
  /\ should_stop' = (should_stop \/ patience' < 0)
  /\ UNCHANGED last_metric

SimpleStopper(trial, result) ==
  /\ kind = "Simple"
  /\ Seen(trial, result)
  /\ trials_num' = trials_num + 1
  /\ \/ SimpleRepeats(result) \/ SimpleSkips(result)
     \/ SimpleImproves(result) \/ SimpleWaits(result)
  /\ UNCHANGED GainVars

-----------------------------------------------------------------------------
\* A comparison with NaN is false: such a trial is not below the threshold,
\* and if it is the first one no trial is.
BelowThreshold(metric) ==
  /\ metric # NaN /\ last_metric # NaN
  /\ metric - last_metric < GrowthThreshold
  /\ last_metric - metric < GrowthThreshold

\* It compares with the first trial, whatever is measured later, and whatever
\* the mode is.  trials_num tells the first call here.
GrowthStopper(trial, result) ==
  /\ kind = "Growth"
  /\ Seen(trial, result)
  /\ trials_num' = trials_num + 1
  /\ IF trials_num = 0
       THEN last_metric' = result.metric /\ UNCHANGED <<patience, should_stop>>
       ELSE /\ patience' = IF BelowThreshold(result.metric) THEN patience - 1
                                                            ELSE patience
            /\ should_stop' = (should_stop \/ patience' < 0)
            /\ UNCHANGED last_metric
  /\ UNCHANGED <<last_experiment, below_cnt, no_changes_cnt>>

MaxSamplesStopper(trial, result) ==
  /\ kind = "MaxSamples"
  /\ Seen(trial, result)
  /\ trials_num' = trials_num + 1
  /\ should_stop' = (trials_num' >= MaxSamples \/ should_stop)
  /\ UNCHANGED <<SimpleVars, GainVars>>

-----------------------------------------------------------------------------
\* A result that cannot be converted to numbers is not counted.
\* consider_invalid_experiment_factor is never set.
GainIgnores(result) ==
  /\ result.verdict = "unparsable"
  /\ UNCHANGED <<trials_num, should_stop, GainVars>>

GainCollects(result) ==
  /\ result.verdict # "unparsable"
  /\ trials_num' = trials_num + 1
  /\ trials_num' < MinSamples
  /\ UNCHANGED <<should_stop, GainVars>>

GainFails(result) ==
  /\ result.verdict = "fails"
  /\ trials_num' = trials_num + 1
  /\ trials_num' >= MinSamples
  /\ should_stop' = TRUE
  /\ UNCHANGED GainVars

GainCalculates(result) ==
  /\ result.verdict \notin {"unparsable", "fails"}
  /\ trials_num' = trials_num + 1
  /\ trials_num' >= MinSamples
  /\ below_cnt' = IF result.verdict \in {"informationGrows", "diverging"}
                    THEN 0 ELSE below_cnt + 1
  /\ no_changes_cnt' = IF result.verdict \in {"ranksChange", "diverging"}
                         THEN 0 ELSE no_changes_cnt + 1
  /\ should_stop' = (/\ no_changes_cnt' >= SamplesBelowLimit
                     /\ below_cnt' >= SamplesBelowLimit)

InformationGainStopper(trial, result) ==
  /\ kind = "InformationGain" /\ Judges
  /\ Seen(trial, result)
  /\ \/ GainIgnores(result) \/ GainCollects(result)
     \/ GainFails(result) \/ GainCalculates(result)
  /\ UNCHANGED SimpleVars

\* trials_num counts the differences here: a trial without both metrics has
\* none.
BayesianMetricDifferenceStopper(trial, result) ==
  /\ kind = "MetricDifference" /\ Judges
  /\ Seen(trial, result)
  /\ trials_num' = IF result.metric = NaN THEN trials_num ELSE trials_num + 1
  /\ should_stop' = (/\ result.metric # NaN
                     /\ trials_num' >= MinSamples
                     /\ result.verdict # "undecided")
  /\ UNCHANGED <<SimpleVars, GainVars>>

-----------------------------------------------------------------------------
\* A stopper that is called again, for a trial it has seen, changes nothing.
StopperNext ==
  \E trial \in TrialIds, result \in Results(kind) :
    \/ SimpleStopper(trial, result)
    \/ GrowthStopper(trial, result)
    \/ MaxSamplesStopper(trial, result)
    \/ InformationGainStopper(trial, result)
    \/ BayesianMetricDifferenceStopper(trial, result)

StopperSpec == StopperInit /\ [][StopperNext]_stopperVars

-----------------------------------------------------------------------------
(* The criterion that each stopper applies one call at a time, as a           *)
(* definition over the results of all trials so far.  It is the code's: the  *)
(* documentation (website/docs/operators/optimisation-with-ray-tune.md) has  *)
(* a repeat stop whenever it is seen (:727), where only the trial just       *)
(* before is compared and only after min_trials; worse values below the      *)
(* threshold of growth (:745) and NaN always included (:747), where only the *)
(* distance from the first trial counts.  See WorseIsBelowThreshold.         *)

Told == DOMAIN history

\* More than buffer_states samples in all have not improved on the best one
\* before them, of those after the first min_trials; or one of those has the
\* configuration of the one just before it.
Improves(k) ==
  \A j \in 1 .. k - 1 : history[j].metric < history[k].metric
NotImproving ==
  {k \in Told : /\ k > MinTrials
                 /\ IF history[k].metric = NaN THEN CountNan ELSE ~Improves(k)}
SimpleDue ==
  \/ Cardinality(NotImproving) > BufferStates
  \/ StopOnRepeat /\ \E k \in Told :
       k > 1 /\ k > MinTrials /\ history[k].config = history[k - 1].config

\* More than grace_trials samples in all differ from the first one, up or down,
\* by less than the threshold.
NotGrowing ==
  {k \in Told \ {1} :
     /\ NaN \notin {history[k].metric, history[1].metric}
     /\ history[k].metric - history[1].metric
          \in 1 - GrowthThreshold .. GrowthThreshold - 1}
GrowthDue == Cardinality(NotGrowing) > GraceTrials

\* The mutual information and the ranks both stay unchanged for
\* samples_below_limit samples, the first of them the min_samples-th.
Parsed(k) == {j \in 1 .. k : history[j].verdict # "unparsable"}
Calculated == {k \in Told : k \in Parsed(k) /\ Cardinality(Parsed(k)) >= MinSamples}
SamplesSince(k) == Cardinality(Parsed(Len(history))) - Cardinality(Parsed(k))
InformationGainDue ==
  \/ \E k \in Calculated : history[k].verdict = "fails"
  \/ /\ Calculated # {} /\ Cardinality(Calculated) >= SamplesBelowLimit
     /\ \A k \in Calculated :
          SamplesSince(k) < SamplesBelowLimit => history[k].verdict = "converging"

\* It is confident of a side once it has min_samples differences.
Differences(k) == {j \in 1 .. k : history[j].metric # NaN}
MetricDifferenceDue ==
  \E k \in Told :
    /\ k \in Differences(k) /\ history[k].verdict # "undecided"
    /\ Cardinality(Differences(k)) >= MinSamples

\* Counting call by call, with what earlier calls left in its fields, a stopper
\* wants to stop as soon as its criterion is met over the whole history, never
\* before, and then does not change its mind.
StopsWhenDue ==
  should_stop <=>
    CASE kind = "Simple" -> SimpleDue
      [] kind = "Growth" -> GrowthDue
      [] kind = "MaxSamples" -> history # <<>> /\ Len(history) >= MaxSamples
      [] kind = "InformationGain" -> InformationGainDue
      [] kind = "MetricDifference" -> MetricDifferenceDue

\* "If the metric value gets worse on a step, i.e. negative improvement, it is
\* considered to be below the threshold" (optimisation-with-ray-tune.md:745),
\* and grace_trials is how many such samples to wait for (:760).
GotWorse ==
  {k \in Told \ {1} :
     /\ NaN \notin {history[k].metric, history[k - 1].metric, history[1].metric}
     /\ history[k].metric < history[k - 1].metric
     /\ history[k].metric < history[1].metric}
WorseIsBelowThreshold ==
  kind = "Growth" /\ Cardinality(GotWorse) > GraceTrials => should_stop

=============================================================================
