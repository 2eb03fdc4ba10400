-------------------------- MODULE MCDiscoverySpace --------------------------
(* Spaces and experiments for TLC: every pair of domains of one property     *)
(* over a few values, and spaces of two properties; TRIM on larger ones.     *)
EXTENDS Trim

AllDomains ==
  {d \in {Domain(t, v, i, r) :
            t \in DomainTypes, v \in {None, <<0, 1>>, <<1, 2>>},
            i \in {0, 1, 2}, r \in {None, <<0, 2>>, <<0, 3>>, <<1, 3>>}} : IsValidDomain(d)}

Dimension(n, d) == [name |-> n, domain |-> d]

Experiment(name, inputs, required, optional, parameterized) ==
  [name |-> name, inputs |-> inputs,
   required |-> required, optional |-> optional, parameterized |-> parameterized]

X == Domain("discrete", <<0, 1>>, 0, None)
Y == Domain("discrete", None, 1, <<0, 2>>)
AnyDomain == Domain("unknown", None, 0, None)

MCEntitySpaces ==
  {<<Dimension("x", d)>> : d \in AllDomains} \cup {<<Dimension("x", X), Dimension("y", Y)>>}

MCMeasurementSpaces ==
  {{Experiment("a", {}, "x" :> d, None, {})} : d \in AllDomains}
    \cup {{Experiment("a", {}, "x" :> AnyDomain, "y" :> d, {})} :
            d \in {X, Domain("continuous", None, 0, <<0, 1>>)}}
    \cup {{Experiment("a", {}, "x" :> AnyDomain, "y" :> X, {"y"})}}
    \cup {{Experiment("a", {}, "y" :> AnyDomain, None, {}), Experiment("b", {n}, "x" :> X, None, {})} :
            n \in {"a", "c"}}

MCStorable ==
  {"x" :> v : v \in 0 .. 2}
    \cup {("x" :> 0 @@ "y" :> 0), ("x" :> 0 @@ "y" :> 1), ("x" :> 1 @@ "y" :> 0),
          ("x" :> 1 @@ "y" :> 1), ("x" :> 3 @@ "y" :> 0)}

MCMaxStored == <<1, 3>>

MCSamplers ==
  [source : {"stored", "grid"}, grouped : BOOLEAN, random : BOOLEAN]

\* Ten points in a line, two lines of four, and a square.
MCTrimSpaces ==
  {<<Dimension("x", Domain("discrete", None, 1, <<0, 10>>))>>,
   <<Dimension("x", X), Dimension("y", Domain("discrete", None, 1, <<0, 4>>))>>,
   <<Dimension("x", X), Dimension("y", X)>>}

Settings(minPoints, maxPoints, iterationSize, batchSize, strategy, enabled) ==
  [minPoints |-> minPoints, maxPoints |-> maxPoints, iterationSize |-> iterationSize,
   batchSize |-> batchSize, strategy |-> strategy, enabled |-> enabled]

MCMaxOthers == <<1, 2>>

MCTrimParameters ==
  {Settings(2, 4, 1, 1, "clhs", TRUE),
   Settings(2, 6, 2, 2, "random", TRUE),
   Settings(2, 3, 1, 2, "sobol", FALSE)}

\* The spaces are ones in which everything is sampled once.
ASSUME MCValuesOnce == WithoutRepetition(EntitySpaces \cup TrimSpaces)

-----------------------------------------------------------------------------
NoTrim ==
  /\ params \in TrimParameters /\ params = CHOOSE p \in TrimParameters : TRUE
  /\ stage = "none" /\ measured = <<>> /\ others = 0 /\ earlier = 0
  /\ budget = 0 /\ plan = <<>> /\ sampled = 0 /\ measuring = <<>>
  /\ initialSource = {} /\ previousSource = {} /\ yieldedRows = <<>>
  /\ models = <<>> /\ finalModel = Untrained

\* A sampler of the space is followed, or TRIM with its own.
MCInit == (SpaceInit /\ NoTrim) \/ TrimInit
MCNext == (SpaceNext /\ UNCHANGED trimVars) \/ TrimNext
MCSpec == MCInit /\ [][MCNext]_<<spaceVars, trimVars>>

=============================================================================
