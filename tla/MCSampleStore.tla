--------------------------- MODULE MCSampleStore ----------------------------
(* Constants of the run of SampleStore and of the cache of its entities.    *)
EXTENDS SampleStore, SampleStoreCache, TLC

CONSTANTS e1, e2, s3

\* The results that are measured, all invalid, and the copied one, which is
\* valid, are of one entity.
OneEntity == [r \in Results |-> "entity"]

\* Operations are interchangeable, and so are the results they measure.
Symmetry == Permutations(Operations) \cup Permutations(Results \ Copied)

\* Which of the cached results are of one entity, up to a permutation of the
\* results and of the entities.
OfOneEntity == [r \in ResultIds |-> e1]
Owners == {OfOneEntity, [OfOneEntity EXCEPT ![s3] = e2]}

\* The transactions of the tables are followed, or the queries of a process
\* that holds entities, beside the other in its initial state.
NoCache == CacheInit /\ database = "SQLite" /\ entityOf = OfOneEntity
MCInit == Init /\ CacheInit /\ entityOf \in Owners
MCNext == \/ NoCache /\ Next /\ UNCHANGED cacheVars
          \/ Init /\ CacheNext /\ UNCHANGED vars
MCSpec == MCInit /\ [][MCNext]_<<vars, cacheVars>>

=============================================================================
