-------------------------- MODULE PropertyDomains ---------------------------
(***************************************************************************)
(* The domains of properties (orchestrator/schema/domain.py): which are    *)
(* valid, which values they hold, and when one is a subdomain of another.  *)
(* Values are integers; 0 and 1 are False and True as well, as in Python.  *)
(***************************************************************************)
EXTENDS Integers, Sequences, SequencesExt

None == <<>>

DomainTypes ==
  {"continuous", "discrete", "categorical", "binary", "open", "unknown"}

\* values and range may be None, interval may be 0 for None; values are given
\* without repetition, and a list of values that is given is not empty.
Domain(type, values, interval, range) ==
  [type |-> type, values |-> values, interval |-> interval, range |-> range]

Domains ==
  [type : DomainTypes, values : Seq(Int), interval : Nat, range : {None} \cup (Int \X Int)]

\* The type that a domain of unknown type gets.
GivenType(d) ==
  CASE d.type # "unknown" -> d.type
    [] d.values # None -> "discrete"
    [] d.interval # 0 -> "discrete"
    [] d.range # None -> "continuous"
    [] OTHER -> "unknown"

\* A range given beside values must hold them, and is forgotten.
IsValidDomain(d) ==
  /\ d.values # None => d.interval = 0
  /\ d.values # None /\ d.range # None =>
       \A k \in DOMAIN d.values : d.range[1] <= d.values[k] /\ d.values[k] < d.range[2]
  /\ d.type = "categorical" => d.values # None /\ d.interval = 0
  /\ d.type = "discrete" => d.values # None \/ d.interval # 0
  /\ d.type = "continuous" => d.values = None /\ d.interval = 0
  /\ d.type = "open" => d.interval = 0 /\ (d.range = None \/ d.values # None)
  /\ d.type = "binary" =>
       /\ d.interval = 0 /\ (d.range = None \/ d.values # None)
       /\ d.values # None => ToSet(d.values) = {0, 1}

Normalised(d) ==
  [d EXCEPT !.type = GivenType(d), !.range = IF d.values = None THEN @ ELSE None]

-----------------------------------------------------------------------------
\* The values of the half-open range.
InternalRangeValues(d) ==
  LET lower == d.range[1]  upper == d.range[2]
      num == (upper - lower + d.interval - 1) \div d.interval
  IN  [k \in 1 .. num |-> lower + (k - 1) * d.interval]

\* Asking any other domain for its values raises.
HasValues(d) ==
  \/ d.type = "binary"
  \/ d.type \in {"discrete", "categorical"} /\ (d.values # None \/ d.range # None)

DomainValues(d) ==
  CASE d.type = "binary" -> <<0, 1>>
    [] d.type # "binary" /\ d.values # None -> d.values
    [] OTHER -> InternalRangeValues(d)

ValueSet(d) == ToSet(DomainValues(d))

\* A discrete domain without a range takes any value.
ValueInDomain(d, value) ==
  CASE d.type = "continuous" ->
         d.range = None \/ (d.range[1] <= value /\ value < d.range[2])
    [] d.type = "discrete" -> HasValues(d) => value \in ValueSet(d)
    [] d.type = "categorical" -> value \in ValueSet(d)
    [] d.type = "binary" -> value \in {0, 1}
    [] OTHER -> TRUE

-----------------------------------------------------------------------------
(* test is a subdomain of d, by the type of d.  Where the code raises, for   *)
(* want of values or of a range, the answer is no here: nobody catches it,   *)
(* and what would be created is not.                                         *)

\* Mutant: the upper bound counts.
SubdomainOfContinuousClosed(d, test) ==
  CASE test.type = "continuous" ->
         \/ d.range = None
         \/ /\ test.range # None
            /\ d.range[1] <= test.range[1] /\ d.range[2] >= test.range[2]
    [] test.type = "discrete" ->
         \/ d.range = None
         \/ /\ HasValues(test)
            /\ \A value \in ValueSet(test) : d.range[1] <= value /\ value <= d.range[2]
    [] test.type = "binary" -> d.range = None \/ (d.range[1] <= 0 /\ d.range[2] > 1)
    [] OTHER -> FALSE

SubdomainOfContinuous(d, test) ==
  CASE test.type = "continuous" ->
         \/ d.range = None
         \/ /\ test.range # None
            /\ d.range[1] <= test.range[1] /\ d.range[2] >= test.range[2]
    [] test.type = "discrete" ->
         \/ d.range = None
         \/ /\ HasValues(test)
            /\ \A value \in ValueSet(test) : d.range[1] <= value /\ value < d.range[2]
    [] test.type = "binary" -> d.range = None \/ (d.range[1] <= 0 /\ d.range[2] > 1)
    [] OTHER -> FALSE

ValuesWithin(d, test) ==
  HasValues(test) /\ HasValues(d) /\ ValueSet(test) \subseteq ValueSet(d)

\* With two intervals, one has to be a multiple of the other.
SubdomainOfDiscrete(d, test) ==
  \/ /\ test.type = "discrete"
     /\ d.interval # 0 /\ test.interval # 0 => test.interval % d.interval = 0
     /\ \/ ValuesWithin(d, test)
        \/ d.interval # 0 /\ test.interval # 0 /\ d.range = None
  \/ test.type = "binary" /\ ValuesWithin(d, test)

SubdomainOfCategorical(d, test) ==
  test.type \in {"categorical", "binary", "discrete"} /\ ValuesWithin(d, test)

SubdomainOfBinary(d, test) ==
  \/ test.type = "binary"
  \/ /\ test.type \in {"discrete", "categorical"}
     /\ ValuesWithin(d, test) /\ Len(DomainValues(test)) <= 2

SubdomainOfOpenCategorical(test) ==
  \/ test.type \in {"open", "binary", "categorical"}
  \/ test.type = "discrete" /\ HasValues(test)

IsSubDomain(test, d) ==
  \/ test = d
  \/ d.type = "unknown"
  \/ d.type = "continuous" /\ SubdomainOfContinuous(d, test)
  \/ d.type = "discrete" /\ SubdomainOfDiscrete(d, test)
  \/ d.type = "categorical" /\ SubdomainOfCategorical(d, test)
  \/ d.type = "binary" /\ SubdomainOfBinary(d, test)
  \/ d.type = "open" /\ SubdomainOfOpenCategorical(test)

=============================================================================
