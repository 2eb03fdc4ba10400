----------------------------- MODULE MCRestApi -----------------------------
(***************************************************************************)
(* An instance of RestApi: five custom experiments, an actuator whose      *)
(* catalog needs a configuration, entities inside and outside the domains, *)
(* two clients of the API at once, and two commands.                       *)
(***************************************************************************)
EXTENDS RestApi

Base(name) ==
  [actuator |-> "custom_experiments", name |-> name, parameters |-> NoParameters]

Density == [name |-> "density", function |-> "decorated", useRay |-> TRUE]
Quick   == [name |-> "quick",   function |-> "decorated", useRay |-> FALSE]
Report  == [name |-> "report",  function |-> "legacy",    useRay |-> TRUE]
Table   == [name |-> "table",   function |-> "legacy",    useRay |-> TRUE]
Old     == [name |-> "old",     function |-> "legacy",    useRay |-> TRUE]

Experiment(sort, observed) ==
  sort @@ [actuator |-> "custom_experiments", parameters |-> NoParameters,
           required |-> [mass |-> {1, 2}], optional |-> [unit |-> {0, 1}],
           defaults |-> [unit |-> 0], observed |-> observed, targets |-> {"t"},
           deprecated |-> (sort.name = "old")]

MCActuators ==
  [custom_experiments |->
     [requirement |-> "none",
      experiments |-> {Experiment(Density, {}), Experiment(Quick, {}), Experiment(Old, {}),
                       Experiment(Table, {}),
                       Experiment(Report, {[reference |-> Base("density"),
                                            target |-> "t"]})}],
   configured |-> [requirement |-> "required", experiments |-> {}]]

Entity(id, point, results) == [id |-> id, point |-> point, results |-> results]

Light == Entity("light", [mass |-> 1], {})
Heavy == Entity("heavy", [mass |-> 2], {})
Far   == Entity("far", [mass |-> 3], {})
Bare  == Entity("bare", [unit |-> 1], {})
Zero  == Entity("zero", [mass |-> 1, unit |-> 0], {})

\* Measured with another parameterization, or just as the report requires.
Other == Entity("other", [mass |-> 1],
                {[reference |-> [Base("density") EXCEPT !.parameters = [unit |-> 1]],
                  targets |-> {"t"}]})
Ready == Entity("ready", [mass |-> 2], {[reference |-> Base("density"), targets |-> {"t"}]})
Also  == Entity("also", [mass |-> 1], {[reference |-> Base("density"), targets |-> {"t"}]})

WithUnit(name, unit) == [Base(name) EXCEPT !.parameters = [unit |-> unit]]

\* A client may post any entities with one request; a command measures one entity,
\* given as a point, with several experiments.
Post(reference, entities) == <<[reference |-> reference, entities |-> entities]>>

Point(entity, references) ==
  [k \in DOMAIN references |-> [reference |-> references[k], entities |-> <<entity>>]]

MCPlans ==
  [poster |-> <<Post(Base("density"), <<Light, Heavy>>),
                Post(Base("density"), <<Far, Light>>),
                Post(Base("density"), <<Bare>>),
                Post(Base("report"), <<Ready, Also>>),
                Post(Base("report"), <<Other>>),
                Post(Base("quick"), <<Light, Light>>),
                Post(Base("old"), <<Light>>),
                Post([Base("any") EXCEPT !.actuator = "configured"], <<Light>>),
                Post(Base("density"), <<Light>>)>>,
   caller |-> <<Point(Light, <<Base("density"), Base("quick")>>),
                Point(Heavy, <<WithUnit("density", 1), Base("density")>>),
                Point(Heavy, <<Base("density")>>),
                Point(Far, <<Base("density"), Base("table")>>)>>,
   command |-> <<Point(Light, <<WithUnit("density", 1), Base("density")>>),
                 Point(Zero, <<WithUnit("density", 1), Base("quick")>>),
                 Point(Light, <<Base("table"), Base("report")>>),
                 Point(Far, <<Base("quick"), Base("unknown")>>)>>,
   script |-> <<Point(Far, <<Base("density"), WithUnit("density", 0)>>),
                Point(Heavy, <<WithUnit("quick", 1), Base("table")>>),
                Point(Bare, <<Base("quick")>>),
                Point(Light, <<[Base("any") EXCEPT !.actuator = "absent"]>>)>>]

MCRequests ==
  LET Owners == {<<c, n, j>> \in (DOMAIN MCPlans) \X (1 .. 9) \X {1, 2} :
                   n <= Len(MCPlans[c]) /\ j <= Len(MCPlans[c][n])}
  IN  [o \in Owners |->
         [service |-> IF o[1] \in Local THEN o[1] ELSE "api",
          reference |-> MCPlans[o[1]][o[2]][o[3]].reference,
          entities |-> MCPlans[o[1]][o[2]][o[3]].entities]]

\* One client with each of its plans, but for those of the API that meet.
Alone(c) == {[d \in Clients |-> IF d = c THEN n ELSE 0] : n \in 1 .. Len(MCPlans[c])}

Together ==
  {[d \in Clients |-> CASE d = "poster" -> 9 [] d = "caller" -> 3 [] OTHER -> 0]}

MCScenarios == UNION {Alone(c) : c \in Clients} \cup Together

=============================================================================
