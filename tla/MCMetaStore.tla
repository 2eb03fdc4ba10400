---------------------------- MODULE MCMetaStore -----------------------------
(* Constants of the runs of MetaStore: a sample store, a space, an actuator  *)
(* configuration, an operation that depends on both and its output.          *)
EXTENDS MetaStore, TLC

CONSTANTS store, config, space, operation, container, again

MCKind == store :> "samplestore" @@ config :> "actuatorconfiguration"
          @@ space :> "discoveryspace" @@ operation :> "operation"
          @@ container :> "datacontainer"
MCParents == store :> <<>> @@ config :> <<>> @@ space :> <<store>>
             @@ operation :> <<space, config>> @@ container :> <<operation>>
MCStoreOf == operation :> store
\* Two processes store the same space.
MCTarget == again :> space @@ [x \in {space, operation, container} |-> x]

=============================================================================
