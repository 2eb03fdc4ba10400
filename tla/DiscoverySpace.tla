--------------------------- MODULE DiscoverySpace ---------------------------
(***************************************************************************)
(* A discovery space and the samplers that walk it: the entity space is    *)
(* checked against the inputs of the experiments when the space is created *)
(* (schema/measurementspace.py), and its points are then sampled in        *)
(* batches, from the space itself (grid) or from the entities of the store *)
(* that match it (selectors), while the store grows                        *)
(* (core/discoveryspace/samplers.py, group_samplers.py).  The samplers are *)
(* the remote ones, that ask the discovery space manager.                  *)
(***************************************************************************)
EXTENDS PropertyDomains, FiniteSets, Functions

CONSTANTS
  EntitySpaces,       \* sequences of [name, domain]
  MeasurementSpaces,  \* sets of [name; required, optional: name -> domain;
                      \*   parameterized: names; inputs: names of experiments]
  Storable,           \* entities that operations store: name -> value
  MaxStored,          \* bound: entities in the store, by the number of dimensions
  Samplers,           \* [source: "stored" | "grid", grouped, random: BOOLEAN]
  BatchSize,
  Group               \* the names that the entities of a group agree on

ASSUME SamplingAssumption ==
  /\ BatchSize \in Nat \ {0} /\ MaxStored \in Seq(Nat)
  /\ Samplers \subseteq [source : {"stored", "grid"}, grouped : BOOLEAN, random : BOOLEAN]

\* The domains of an experiment are valid, and only what is optional is parameterized;
\* those of an entity space are yet to be checked.  No two dimensions have one name.
ASSUME SpacesAssumption ==
  /\ \A s \in EntitySpaces :
       /\ s \in Seq([name : {s[i].name : i \in DOMAIN s}, domain : Domains])
       /\ \A i, j \in DOMAIN s : s[i].name = s[j].name => i = j
  /\ \A m \in MeasurementSpaces : \A e \in m :
       /\ \A n \in DOMAIN e.required :
            e.required[n] \in Domains /\ IsValidDomain(e.required[n])
       /\ \A n \in DOMAIN e.optional :
            e.optional[n] \in Domains /\ IsValidDomain(e.optional[n])
       /\ e.parameterized \subseteq DOMAIN e.optional
  /\ \A entity \in Storable : entity \in [DOMAIN entity -> Int]

VARIABLES
  space,     \* the entity space, with its domains as they are given
  experiments,
  phase,     \* "configured" | "created" | "refused" | "sampling" | "failed" | "done"
  store,     \* the entities of the sample store, in the order of its cache
  sampler,
  number,    \* entities that matched when the sampling started
  walk,      \* what is left: indexes of matching entities, or groups of points
  sample,    \* the rest of the group that is being sampled
  batch,
  yielded    \* the batches, in order

spaceVars == <<space, experiments, phase, store, sampler, number, walk, sample, batch, yielded>>

NoSampler == [source |-> "none", grouped |-> FALSE, random |-> FALSE]

-----------------------------------------------------------------------------
(* The entity space.                                                         *)

Names == {space[i].name : i \in DOMAIN space}

\* In an entity space the categories are no longer open.
EntitySpaceDomain(given) ==
  LET d == Normalised(given)
  IN  IF d.type = "open" THEN [d EXCEPT !.type = "categorical"] ELSE d

DomainOf(name) ==
  EntitySpaceDomain(space[CHOOSE i \in DOMAIN space : space[i].name = name].domain)

HasEntitySpace == \A n \in Names : IsValidDomain(DomainOf(n))

IsDiscreteSpace == \A n \in Names : DomainOf(n).type \notin {"continuous", "unknown"}

\* The points, with the last dimension innermost.
WithValue(point, name, value) ==
  [n \in DOMAIN point \cup {name} |-> IF n = name THEN value ELSE point[n]]

WithValues(points, name, values) ==
  FlattenSeq([i \in DOMAIN points |->
                [j \in DOMAIN values |-> WithValue(points[i], name, values[j])]])

PointsOf(dimensions) ==
  LET points[k \in 0 .. Len(dimensions)] ==
        IF k = 0 THEN <<<<>>>>
        ELSE LET name == dimensions[k].name
             IN  WithValues(points[k - 1], name, DomainValues(DomainOf(name)))
  IN  points[Len(dimensions)]

SequentialPoints == PointsOf(space)

IsEntityInSpace(entity) ==
  DOMAIN entity = Names /\ \A n \in Names : ValueInDomain(DomainOf(n), entity[n])

\* The members of s at some indexes, in their order.
Keep(s, indexes) ==
  LET kept[k \in 0 .. Len(s)] ==
        IF k = 0 THEN <<>>
        ELSE IF k \in indexes THEN Append(kept[k - 1], s[k]) ELSE kept[k - 1]
  IN  kept[Len(s)]

MatchingEntities(entities) ==
  Keep(entities, {k \in DOMAIN entities : IsEntityInSpace(entities[k])})

-----------------------------------------------------------------------------
(* The measurement space.                                                    *)

\* Another parameterization of the experiment that is needed does as well.
IsConsistent ==
  \A e \in experiments : e.inputs \subseteq {other.name : other \in experiments}

CheckEntitySpaceCompatible ==
  /\ \A e \in experiments :
       /\ \A n \in DOMAIN e.required :
            n \in Names /\ IsSubDomain(DomainOf(n), Normalised(e.required[n]))
       /\ \A n \in DOMAIN e.optional \cap Names :
            /\ IsSubDomain(DomainOf(n), Normalised(e.optional[n]))
            /\ n \notin e.parameterized
  /\ Names \subseteq UNION {DOMAIN e.required \cup DOMAIN e.optional : e \in experiments}

Create ==
  /\ phase = "configured"
  /\ phase' = IF HasEntitySpace /\ IsConsistent /\ CheckEntitySpaceCompatible
              THEN "created" ELSE "refused"
  /\ UNCHANGED <<space, experiments, store, sampler, number, walk, sample, batch, yielded>>

\* An operation stores an entity, of this space or of another one.
AddEntity(entity) ==
  /\ phase \in {"created", "sampling"}
  /\ Len(store) < MaxStored[Len(space)]
  /\ entity \notin ToSet(store)
  /\ store' = Append(store, entity)
  /\ UNCHANGED <<space, experiments, phase, sampler, number, walk, sample, batch, yielded>>

-----------------------------------------------------------------------------
(* The samplers.  A random walk is chosen as it is walked.                   *)

SameGroup(p, q) == Restrict(p, Group \cap DOMAIN p) = Restrict(q, Group \cap DOMAIN q)

\* Mutant: only neighbours are put together.
BuildRuns(points) ==
  LET IsFirst(i) == i = 1 \/ ~SameGroup(points[i], points[i - 1])
      firsts == SelectSeq([i \in DOMAIN points |-> i], IsFirst)
      End(k) == IF k = Len(firsts) THEN Len(points) ELSE firsts[k + 1] - 1
  IN  [k \in DOMAIN firsts |-> SubSeq(points, firsts[k], End(k))]

\* The groups, in the order of their first points.
BuildGroupsList(points) ==
  LET IsFirst(i) == \A j \in 1 .. i - 1 : ~SameGroup(points[i], points[j])
      firsts == Keep([i \in DOMAIN points |-> i], {i \in DOMAIN points : IsFirst(i)})
  IN  [k \in DOMAIN firsts |->
         Keep(points, {i \in DOMAIN points : SameGroup(points[i], points[firsts[k]])})]

Walk(s) ==
  LET matching == MatchingEntities(store)
      points == IF s.source = "grid" THEN SequentialPoints ELSE matching
  IN  CASE s.grouped -> BuildGroupsList(points)
        [] s.source = "grid" /\ ~s.grouped -> [i \in DOMAIN points |-> <<points[i]>>]
        [] OTHER -> [i \in DOMAIN matching |-> i]

\* Only a space with finitely many points can be walked as a grid.
StartSampling(s) ==
  LET possible == s.source = "grid" =>
                    IsDiscreteSpace /\ \A n \in Names : HasValues(DomainOf(n))
  IN  /\ phase = "created"
      /\ phase' = IF possible THEN "sampling" ELSE "failed"
      /\ sampler' = s
      /\ number' = Len(MatchingEntities(store))
      /\ walk' = IF possible THEN Walk(s) ELSE <<>>
      /\ UNCHANGED <<space, experiments, store, sample, batch, yielded>>

BySlices == phase = "sampling" /\ sampler.source = "stored" /\ ~sampler.grouped
ByGroups == phase = "sampling" /\ ~(sampler.source = "stored" /\ ~sampler.grouped)

\* Mutant: the slices overlap by one.
NextSliceOverlapping ==
  LET matching == MatchingEntities(store)
      first == walk[1]
      last == first + BatchSize
  IN  /\ BySlices /\ ~sampler.random /\ walk # <<>>
      /\ yielded' = Append(yielded,
           SubSeq(matching, first, IF last < Len(matching) THEN last ELSE Len(matching)))
      /\ walk' = SubSeq(walk, BatchSize + 1, Len(walk))
      /\ UNCHANGED <<space, experiments, phase, store, sampler, number, sample, batch>>

\* The next slice of the entities that match now: more of them than at the start.
NextSlice ==
  LET matching == MatchingEntities(store)
      first == walk[1]
      last == first + BatchSize - 1
  IN  /\ BySlices /\ ~sampler.random /\ walk # <<>>
      /\ yielded' = Append(yielded,
           SubSeq(matching, first, IF last < Len(matching) THEN last ELSE Len(matching)))
      /\ walk' = SubSeq(walk, BatchSize + 1, Len(walk))
      /\ UNCHANGED <<space, experiments, phase, store, sampler, number, sample, batch>>

\* The entities at the next indexes of a permutation.
NextSelection ==
  LET matching == MatchingEntities(store)
      size == IF BatchSize < Len(walk) THEN BatchSize ELSE Len(walk)
  IN  /\ BySlices /\ sampler.random /\ walk # <<>>
      /\ \E selection \in [1 .. size -> ToSet(walk)] :
           /\ IsInjective(selection)
           /\ yielded' = Append(yielded, [i \in 1 .. size |-> matching[selection[i]]])
           /\ walk' = Keep(walk, {i \in DOMAIN walk : walk[i] \notin ToSet(selection)})
      /\ UNCHANGED <<space, experiments, phase, store, sampler, number, sample, batch>>

FetchGroup ==
  /\ ByGroups /\ sample = <<>> /\ Len(batch) < BatchSize
  /\ \E i \in DOMAIN walk :
       /\ sampler.random \/ i = 1
       /\ sample' = walk[i]
       /\ walk' = RemoveAt(walk, i)
  /\ UNCHANGED <<space, experiments, phase, store, sampler, number, batch, yielded>>

Draw ==
  /\ ByGroups /\ sample # <<>> /\ Len(batch) < BatchSize
  /\ batch' = Append(batch, Head(sample))
  /\ sample' = Tail(sample)
  /\ UNCHANGED <<space, experiments, phase, store, sampler, number, walk, yielded>>

Yield ==
  /\ ByGroups /\ Len(batch) = BatchSize
  /\ yielded' = Append(yielded, batch)
  /\ batch' = <<>>
  /\ UNCHANGED <<space, experiments, phase, store, sampler, number, walk, sample>>

\* The last batch may be short; an empty one is not yielded.
LastBatch ==
  /\ phase = "sampling" /\ walk = <<>> /\ sample = <<>> /\ Len(batch) < BatchSize
  /\ yielded' = IF batch = <<>> THEN yielded ELSE Append(yielded, batch)
  /\ batch' = <<>>
  /\ phase' = "done"
  /\ UNCHANGED <<space, experiments, store, sampler, number, walk, sample>>

-----------------------------------------------------------------------------
SpaceInit ==
  /\ space \in EntitySpaces /\ experiments \in MeasurementSpaces
  /\ phase = "configured"
  /\ store = <<>> /\ sampler = NoSampler /\ number = 0
  /\ walk = <<>> /\ sample = <<>> /\ batch = <<>> /\ yielded = <<>>

SpaceNext ==
  \/ Create
  \/ \E entity \in Storable : AddEntity(entity)
  \/ \E s \in Samplers : StartSampling(s)
  \/ NextSlice \/ NextSelection
  \/ FetchGroup \/ Draw \/ Yield \/ LastBatch

SpaceSpec == SpaceInit /\ [][SpaceNext]_spaceVars

-----------------------------------------------------------------------------
(* Properties.                                                               *)

Sampled == FlattenSeq(yielded)

\* What a sampler yields can be measured: every experiment of the space finds
\* all that it requires in the entity, and every value is one the experiment
\* accepts, though only the domains were compared, when the space was created
\* (checkEntitySpaceCompatible, isSubDomain), and some entities come from a
\* store that other spaces share.
SamplesAreMeasurable ==
  \A k \in DOMAIN Sampled, e \in experiments :
    LET entity == Sampled[k]
    IN  /\ DOMAIN e.required \subseteq DOMAIN entity
        /\ e.parameterized \cap DOMAIN entity = {}
        /\ \A n \in DOMAIN e.required :
             ValueInDomain(Normalised(e.required[n]), entity[n])
        /\ \A n \in DOMAIN e.optional \cap DOMAIN entity :
             ValueInDomain(Normalised(e.optional[n]), entity[n])

\* However the store grows meanwhile, no entity is sampled twice, no batch is
\* empty and only the last one is short; a finished walk has covered every
\* point of the space (grid) or every entity that matched when it started
\* (selectors), with at most the rest of the last slice besides.
EverythingOnce ==
  /\ IsInjective(Sampled)
  /\ \A k \in DOMAIN yielded :
       /\ Len(yielded[k]) \in 1 .. BatchSize
       /\ k < Len(yielded) => Len(yielded[k]) = BatchSize
  /\ phase = "done" =>
       IF sampler.source = "grid"
         THEN ToSet(Sampled) = ToSet(SequentialPoints)
         ELSE /\ ToSet(SubSeq(MatchingEntities(store), 1, number)) \subseteq ToSet(Sampled)
              /\ Len(Sampled) < number + BatchSize

\* The entities of a group follow one another, over the ends of the batches,
\* wherever they are in the space or in the store.
GroupsTogether ==
  sampler.grouped =>
    \A i, j, k \in DOMAIN Sampled :
      i < j /\ j < k /\ SameGroup(Sampled[i], Sampled[k]) => SameGroup(Sampled[i], Sampled[j])

\* No domain repeats a value that is given: a grid would visit it as often.
WithoutRepetition(spaces) ==
  \A s \in spaces : \A i \in DOMAIN s : IsInjective(s[i].domain.values)

\* Every entity is sampled once and beside those of its group, whatever batches
\* the walk is cut into.
SampledOnceInGroups == EverythingOnce /\ GroupsTogether

=============================================================================
