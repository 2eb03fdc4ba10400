------------------------------ MODULE AutoStop ------------------------------
(***************************************************************************)
(* When the training of an sfttrainer measurement stops by itself           *)
(* (auto_stop_method, wrapper_sfttrainer.py), and how its tokens are        *)
(* counted (finetune.py).  The process with local rank 0 of every node      *)
(* keeps the durations of the optimization steps by its own clock; clock    *)
(* is such a sequence.                                                      *)
(***************************************************************************)
EXTENDS Integers, Sequences, FiniteSets

CONSTANTS
  WarmupTime,        \* warmup_seconds: 60
  SampleTime,        \* meaningful_samples_seconds: 120
  SampleSteps,       \* meaningful_samples_amount: 10
  MaxSteps,          \* steps after which the training ends in any case
  MaxSeqLength       \* the shorter of max_seq_length and the model's maximum

ASSUME AutoStopAssumption ==
  /\ WarmupTime \in Nat /\ SampleTime \in Nat \ {0} /\ SampleSteps \in Nat \ {0}
  /\ MaxSteps \in Nat \ {0} /\ MaxSeqLength \in Nat \ {0}

\* The sum of the first n elements
SumTo(seq, n) ==
  LET sum[k \in Nat] == IF k = 0 THEN 0 ELSE sum[k - 1] + seq[k]
  IN  sum[n]

\* cs: how long the training took up to the end of a step
RunningFor(clock, step) == SumTo(clock, step)

\* np.searchsorted(cs, warmup_seconds, side="right") + 1, counted from 0: how
\* many steps belong to the warm-up.
\* Mutant: the step that ends after the warm-up is not one of them.
FirstIfEndsAfter(clock, steps) ==
  Cardinality({s \in 1..steps : RunningFor(clock, s) <= WarmupTime})
FirstAfterWarmup(clock, steps) ==
  Cardinality({s \in 1..steps : RunningFor(clock, s) <= WarmupTime}) + 1

HasGatheredEnoughSamples(clock, steps) ==
  LET first == FirstAfterWarmup(clock, steps)
  IN  /\ steps > 0
      /\ RunningFor(clock, steps) > WarmupTime + SampleTime
      /\ first < steps
      /\ steps - first >= SampleSteps
      /\ RunningFor(clock, steps) - RunningFor(clock, first) >= SampleTime

\* A node knows its warm-up once it has gathered enough, also when the others
\* have not and the training goes on; 0 stands for None.
WarmupSteps(clock, steps) ==
  LET enough == {s \in 1..steps : HasGatheredEnoughSamples(clock, s)}
  IN  IF enough = {} THEN 0 ELSE FirstAfterWarmup(clock, steps)

\* Mutant: one vote is enough (MAX).
StopsAfterFirstVote(clocks) ==
  LET votes == {s \in 1..MaxSteps :
                  \E n \in DOMAIN clocks : HasGatheredEnoughSamples(clocks[n], s)}
  IN  IF votes = {} THEN MaxSteps ELSE CHOOSE s \in votes : \A t \in votes : s <= t

\* on_step_end: all processes stop after the step at which every node votes for
\* it (all_reduce with MIN), or when there are no more steps.
StopsAfter(clocks) ==
  LET agreed == {s \in 1..MaxSteps :
                   \A n \in DOMAIN clocks : HasGatheredEnoughSamples(clocks[n], s)}
  IN  IF agreed = {} THEN MaxSteps ELSE CHOOSE s \in agreed : \A t \in agreed : s <= t

Shorter(entry) == IF entry < MaxSeqLength THEN entry ELSE MaxSeqLength
TokensOf(tokens, samples) == SumTo([i \in DOMAIN tokens |-> Shorter(tokens[i])], samples)

AggregateTokensOfSamples(tokens, samples) ==
  TokensOf(tokens, Len(tokens)) * (samples \div Len(tokens))
    + TokensOf(tokens, samples % Len(tokens))

\* tokenize_text: the tokens a training processed after its warm-up
TokenizeText(tokens, entries, skip) ==
  AggregateTokensOfSamples(tokens, entries) - AggregateTokensOfSamples(tokens, skip)

-----------------------------------------------------------------------------
\* What the documentation promises of a training whose nodes read these clocks
\* and that ended after that many steps: a node's warm-up are the steps that
\* began within the first WarmupTime, and the training goes on until every node
\* has spent SampleTime and SampleSteps after its warm-up, and no longer.
BeginsAt(clock, step) == RunningFor(clock, step - 1)
Warmup(clock, steps) == {s \in 1..steps : BeginsAt(clock, s) <= WarmupTime}
Sampled(clock, steps) == (1..steps) \ Warmup(clock, steps)
Enough(clock, steps) ==
  LET sampled == Sampled(clock, steps)
  IN  /\ Cardinality(sampled) >= SampleSteps
      /\ \E first \in sampled :
           /\ \A s \in sampled : first <= s
           /\ RunningFor(clock, steps) - BeginsAt(clock, first) >= SampleTime

\* The tokens of the entries skip + 1 .. entries, the data set being repeated.
TokensBetween(tokens, skip, entries) ==
  SumTo([i \in 1..(entries - skip) |->
           Shorter(tokens[((skip + i - 1) % Len(tokens)) + 1])], entries - skip)
=============================================================================
