---------------------------- MODULE Experiments ----------------------------
(***************************************************************************)
(* Experiments, the entities they measure, and the results and requests    *)
(* that carry the measurements (schema/experiment.py, entity.py,           *)
(* reference.py, request.py, result.py, support.py), with the lookup of an *)
(* experiment in the catalogs of the actuators (modules/actuators/         *)
(* registry.py, catalog.py).  A domain is the set of its values.           *)
(*                                                                         *)
(*  experiment: [actuator, name, required, optional: name -> domain,       *)
(*    defaults, parameters: name -> value, observed: observed properties,  *)
(*    targets, deprecated, function, useRay]                               *)
(*  reference: [actuator, name, parameters]                                *)
(*  entity: [id, point: name -> value, results: set of [reference,         *)
(*    targets]]                                                            *)
(***************************************************************************)
EXTENDS Naturals, Sequences, FiniteSets, Functions, SequencesExt

NoParameters == <<>>

ReferenceOf(x) ==
  [actuator |-> x.actuator, name |-> x.name, parameters |-> x.parameters]

CompareWithoutParameterization(r, s) == r.actuator = s.actuator /\ r.name = s.name

\* The identity of an observed property leaves the actuator out.
Identifier(property) ==
  <<property.reference.name, property.reference.parameters, property.target>>

ObservedProperties(entity) ==
  UNION {[reference : {r.reference}, target : r.targets] : r \in entity.results}

ValuesForProperty(entity, property) ==
  {p \in ObservedProperties(entity) : Identifier(p) = Identifier(property)}

\* Without an exact match, any parameterization of an experiment of this name.
CheckRequiredObservedPropertyValuesPresent(entity, x, exactMatch) ==
  \A required \in x.observed :
    IF exactMatch
    THEN ValuesForProperty(entity, required) # {}
    ELSE \E p \in ObservedProperties(entity) :
           /\ p.reference.name = required.reference.name
           /\ p.target = required.target

-----------------------------------------------------------------------------
(* The inputs of an experiment.                                              *)

ValidParameterization(x, parameters) ==
  \A p \in DOMAIN parameters :
    /\ p \in DOMAIN x.optional
    /\ parameters[p] \in x.optional[p]
    /\ parameters[p] # x.defaults[p]

Parameterized(x, parameters) == [x EXCEPT !.parameters = parameters]

ValueForOptionalProperty(x, p) ==
  IF p \in DOMAIN x.parameters THEN x.parameters[p] ELSE x.defaults[p]

\* Whether propertyValuesFromEntity finds a value for everything required ...
HasInputs(x, entity) ==
  /\ DOMAIN x.required \subseteq DOMAIN entity.point
  /\ \A property \in x.observed : ValuesForProperty(entity, property) # {}

\* Mutant: the parameterization comes before the values of the entity.
ParameterizationFirst(x, entity) ==
  [p \in DOMAIN x.required \cup DOMAIN x.optional |->
     IF p \in DOMAIN entity.point \ DOMAIN x.parameters
     THEN entity.point[p] ELSE ValueForOptionalProperty(x, p)]

\* ... and the constitutive ones: a value of the entity comes before the
\* parameterization.
PropertyValues(x, entity) ==
  [p \in DOMAIN x.required \cup DOMAIN x.optional |->
     IF p \in DOMAIN entity.point THEN entity.point[p]
                                  ELSE ValueForOptionalProperty(x, p)]

ValidatePoint(x, point) ==
  /\ DOMAIN x.required \subseteq DOMAIN point
  /\ \A p \in DOMAIN x.required : point[p] \in x.required[p]
  /\ \A p \in DOMAIN x.optional \cap DOMAIN point : point[p] \in x.optional[p]

-----------------------------------------------------------------------------
(* The registry: actuators is actuator -> [requirement, experiments].        *)

Matching(experiments, reference) ==
  {x \in experiments : CompareWithoutParameterization(ReferenceOf(x), reference)}

\* The configurations given to the registry are never found, because they are
\* looked up among the catalogs.
HasCatalog(actuators, actuator) ==
  actuator \in DOMAIN actuators /\ actuators[actuator].requirement # "required"

IsKnown(actuators, reference) ==
  /\ HasCatalog(actuators, reference.actuator)
  /\ Matching(actuators[reference.actuator].experiments, reference) # {}

ExperimentForReference(actuators, reference) ==
  CHOOSE x \in Matching(actuators[reference.actuator].experiments, reference) : TRUE

-----------------------------------------------------------------------------
(* Results: [entity, label, valid, inputs], where the label tells whether the  *)
(* reference is the requested one.                                           *)

ComputeMeasurementStatus(results) ==
  IF \E i \in DOMAIN results : results[i].valid THEN "Success" ELSE "Failed"

\* What a request accepts as its measurements: results of one experiment, just
\* one for each of its entities.
ValidMeasurements(entities, results) ==
  /\ results # <<>>
  /\ \A i, j \in DOMAIN results :
       /\ results[i].label = results[j].label
       /\ results[i].entity = results[j].entity => i = j
  /\ {results[i].entity : i \in DOMAIN results} = {entities[i].id : i \in DOMAIN entities}

=============================================================================
