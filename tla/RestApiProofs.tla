--------------------------- MODULE RestApiProofs ---------------------------
(***************************************************************************)
(* Proofs about experiments that are run one at a time, for any clients,   *)
(* requests, experiments, retries and deaths: whoever asks gets the answer *)
(* to what was asked, measured on what was asked.                          *)
(***************************************************************************)
EXTENDS RestApi, SequenceTheorems, WellFoundedInduction, TLAPS

-----------------------------------------------------------------------------
(* The results of an execution.                                            *)

\* Sequences of one member each are put together in their order.
LEMMA FlattenSingles ==
  ASSUME NEW S, NEW chosen \in Seq(Seq(S)), Len(chosen) # 0,
         \A k \in 1 .. Len(chosen) : Len(chosen[k]) = 1
  PROVE  FlattenSeq(chosen) = [k \in 1 .. Len(chosen) |-> chosen[k][1]]
<1>. DEFINE n == Len(chosen)
            Step(f) == [i \in 1 .. n |-> IF i = 1 THEN chosen[i] ELSE f[i - 1] \o chosen[i]]
            g == [i \in 1 .. n |-> [k \in 1 .. i |-> chosen[k][1]]]
            flatten == CHOOSE f : f = Step(f)
            Smaller == {pair \in Nat \X Nat : pair[1] < pair[2]}
            Wrong == {i \in 1 .. n : flatten[i] # g[i]}
<1>1. FlattenSeq(chosen) = flatten[n]
  BY DEF FlattenSeq
<1>2. /\ n \in Nat \ {0}
      /\ \A k \in 1 .. n : chosen[k] \in Seq(S) /\ chosen[k] = <<chosen[k][1]>>
                          /\ chosen[k][1] \in S
  <2>1. \A k \in 1 .. n : chosen[k] \in Seq(S) /\ Len(chosen[k]) = 1
    OBVIOUS
  <2>2. ASSUME NEW s \in Seq(S), Len(s) = 1
        PROVE  s = <<s[1]>> /\ s[1] \in S
    <3>1. 1 \in 1 .. Len(s)
      BY <2>2
    <3>2. s[1] \in S
      BY <3>1, ElementOfSeq
    <3>. QED
      BY <2>2, <3>2
  <2>. QED
    BY <2>1, <2>2
<1>3. \A i \in 1 .. n : i # 1 => g[i] = g[i - 1] \o chosen[i]
  <2>. SUFFICES ASSUME NEW i \in 1 .. n, i # 1
                PROVE  g[i] = g[i - 1] \o chosen[i]
    OBVIOUS
  <2>. HIDE DEF n
  <2>1. i \in Nat /\ i - 1 \in 1 .. n /\ chosen[i] = <<chosen[i][1]>>
    BY <1>2
  <2>3. g[i - 1] = [k \in 1 .. i - 1 |-> chosen[k][1]] /\ g[i] = [k \in 1 .. i |-> chosen[k][1]]
    BY <2>1
  <2>4. PICK a : a = g[i - 1]
    OBVIOUS
  <2>5. PICK z : z = chosen[i][1]
    OBVIOUS
  <2>6. a \in Seq(S) /\ Len(a) = i - 1 /\ z \in S
    BY <1>2, <2>1, <2>3, <2>4, <2>5
  <2>7. Append(a, z) = a \o <<z>>
    BY <2>6
  <2>8. Append(a, z) = [k \in 1 .. i |-> chosen[k][1]]
    BY <2>1, <2>3, <2>4, <2>5, <2>6
  <2>. QED
    BY <2>1, <2>3, <2>4, <2>5, <2>7, <2>8
<1>4. g[1] = chosen[1]
  BY <1>2
<1>5. g = Step(g)
  <2>. HIDE DEF n
  <2>1. \A i \in 1 .. n : g[i] = Step(g)[i]
    <3>. HIDE DEF g
    <3>. QED
      BY <1>3, <1>4
  <2>2. DOMAIN g = 1 .. n /\ g = [i \in 1 .. n |-> g[i]]
    OBVIOUS
  <2>3. Step(g) = [i \in 1 .. n |-> Step(g)[i]]
    <3>. HIDE DEF g
    <3>. QED
      OBVIOUS
  <2>. HIDE DEF Step, g
  <2>. QED
    BY <2>1, <2>2, <2>3
<1>6. flatten = Step(flatten)
  <2>. HIDE DEF Step, g
  <2>. QED
    BY <1>5
<1>7. Wrong = {}
  <2>. SUFFICES ASSUME Wrong # {}
                PROVE  FALSE
    OBVIOUS
  <2>1. IsWellFoundedOn(Smaller, Nat)
    BY NatLessThanWellFounded DEF OpToRel
  <2>2. Wrong \subseteq Nat
    <3>. HIDE DEF n, flatten, g
    <3>. QED
      BY <1>2
  <2>3. PICK i \in Wrong : \A j \in Wrong : <<j, i>> \notin Smaller
    <3>. HIDE DEF Smaller, Wrong
    <3>. QED
      BY <2>1, <2>2, WFMin
  <2>. HIDE DEF n, flatten, g
  <2>4. i \in 1 .. n /\ i \in Nat /\ n \in Nat
    BY <1>2
  <2>5. CASE i = 1
    BY <1>4, <1>6, <2>4, <2>5
  <2>6. CASE i # 1
    <3>1. i - 1 \in 1 .. n /\ i - 1 \in Nat /\ i - 1 < i
      BY <2>4, <2>6
    <3>2. i - 1 \notin Wrong
      BY <2>3, <2>4, <3>1
    <3>3. flatten[i - 1] = g[i - 1]
      BY <3>1, <3>2
    <3>4. flatten[i] = flatten[i - 1] \o chosen[i]
      BY <1>6, <2>4, <2>6
    <3>. QED
      BY <1>3, <2>4, <2>6, <3>3, <3>4
  <2>. QED
    BY <2>5, <2>6
<1>8. flatten[n] = g[n]
  <2>. HIDE DEF n, flatten, g
  <2>1. n \in 1 .. n
    BY <1>2
  <2>2. n \notin Wrong
    BY <1>7
  <2>. QED
    BY <2>1, <2>2
<1>. QED
  BY <1>1, <1>2, <1>8

\* The requests that submit() accepts, and what becomes of them.
Askable == {owner \in DOMAIN Requests : ~Refuses(owner)}

Outcomes == UNION {Measurements[owner] : owner \in Askable}

Proper(request) ==
  /\ request.owner \in Askable
  /\ request.results \in Measurements[request.owner]
  /\ ~Raises(request.owner, request.results)

Done ==
  {request \in [owner : Askable, id : Int, results : Outcomes, status : {"Success", "Failed"}] :
     Proper(request)}

LEMMA RequestDone ==
  ASSUME NEW executor, executor.owner \in Askable, executor.id \in Int,
         NEW results \in Measurements[executor.owner], ~Raises(executor.owner, results)
  PROVE  /\ Request(executor, results) \in Done
         /\ Request(executor, results).owner = executor.owner
         /\ Request(executor, results).id = executor.id
<1>1. results \in Outcomes
  BY DEF Outcomes
<1>2. ComputeMeasurementStatus(results) \in {"Success", "Failed"}
  BY DEF ComputeMeasurementStatus
<1>. QED
  BY <1>1, <1>2 DEF Request, Done, Proper

\* An experiment that is found has all its fields, and a default for whatever is
\* optional; its parameterization is that of the reference.
LEMMA TargetFields ==
  ASSUME NEW owner \in Askable
  PROVE  /\ Target(owner).parameters = Reference(owner).parameters
         /\ DOMAIN Target(owner).defaults = DOMAIN Target(owner).optional
<1>. DEFINE reference == Reference(owner)
            x == ExperimentForReference(Actuators, reference)
<1>1. IsKnown(Actuators, reference)
  BY DEF Askable, Refuses
<1>2. reference.actuator \in DOMAIN Actuators
  BY <1>1 DEF IsKnown, HasCatalog
<1>3. x \in Matching(Actuators[reference.actuator].experiments, reference)
  <2>. HIDE DEF reference
  <2>. QED
    BY <1>1 DEF IsKnown, ExperimentForReference
<1>4. x \in Actuators[reference.actuator].experiments
  <2>. HIDE DEF reference, x
  <2>. QED
    BY <1>3 DEF Matching
<1>. HIDE DEF reference, x
<1>5. "parameters" \in DOMAIN x /\ "defaults" \in DOMAIN x /\ "optional" \in DOMAIN x
      /\ DOMAIN x.defaults = DOMAIN x.optional
  BY <1>2, <1>4, CatalogAssumption
<1>6. Target(owner) = [x EXCEPT !.parameters = reference.parameters]
  BY DEF Target, Parameterized, x, reference
<1>. QED
  BY <1>5, <1>6 DEF reference

\* The result that a function gives for an entity.
LEMMA DecoratedResult ==
  ASSUME NEW x, NEW entity, NEW results \in DecoratedResults(x, entity)
  PROVE  /\ results = <<results[1]>> /\ Len(results) = 1
         /\ results[1].entity = entity.id
         /\ results[1].valid =>
              /\ results[1].label = "requested"
              /\ results[1].inputs = PropertyValues(x, entity)
              /\ ValidatePoint(x, PropertyValues(x, entity))
              /\ DOMAIN x.required \subseteq DOMAIN entity.point
<1>1. CASE results = <<Invalid(entity)>>
  BY <1>1 DEF Invalid
<1>2. CASE /\ results = <<Valid("requested", entity, PropertyValues(x, entity))>>
           /\ HasInputs(x, entity) /\ ValidatePoint(x, PropertyValues(x, entity))
  BY <1>2 DEF Valid, HasInputs
<1>. QED
  BY <1>1, <1>2 DEF DecoratedResults

LEMMA DoneIsOfTheEntity ==
  ASSUME NEW request, Proper(request)
  PROVE  IsOfTheEntity(request)
<1>. DEFINE owner == request.owner
            x == Target(owner)
            es == Entities(owner)
            results == request.results
            Of(result) == CHOOSE e \in Range(es) : e.id = result.entity
<1>. SUFFICES ASSUME x.function = "decorated",
                     NEW result \in Range(results), result.valid
              PROVE  /\ result.label = "requested"
                     /\ ValidatePoint(x, result.inputs)
                     /\ DOMAIN result.inputs = DOMAIN x.required \cup DOMAIN x.optional
                     /\ \A p \in DOMAIN result.inputs :
                          result.inputs[p] =
                            Over(Of(result).point,
                                 Over(Reference(owner).parameters, x.defaults))[p]
  BY DEF IsOfTheEntity
<1>1. owner \in Askable /\ results \in Measurements[owner] /\ ~Raises(owner, results)
  BY DEF Proper
<1>2. es \in Seq(Range(es)) /\ DOMAIN es = 1 .. Len(es) /\ Len(es) \in Nat
  <2>1. es \in Seq(Range(es))
    BY <1>1, CatalogAssumption DEF Entities, Askable
  <2>. HIDE DEF es
  <2>. QED
    BY <2>1
<1>3. PICK chosen \in [DOMAIN es -> UNION {Results(x, es[k]) : k \in DOMAIN es}] :
        /\ \A k \in DOMAIN es : chosen[k] \in Results(x, es[k])
        /\ results = FlattenSeq(chosen)
  <2>. HIDE DEF results
  <2>. QED
    BY <1>1 DEF Measurements, Askable
<1>. HIDE DEF results, es, x, owner
<1>. DEFINE S == {chosen[k][1] : k \in DOMAIN es}
<1>4. \A k \in DOMAIN es : chosen[k] \in DecoratedResults(x, es[k])
  BY <1>3 DEF Results
<1>5. \A k \in DOMAIN es : chosen[k] = <<chosen[k][1]>> /\ Len(chosen[k]) = 1
                            /\ chosen[k][1].entity = es[k].id
  BY <1>4, DecoratedResult
<1>6. chosen \in Seq(Seq(S)) /\ Len(chosen) = Len(es)
  <2>1. \A k \in 1 .. Len(es) : chosen[k] \in Seq(S)
    <3>. SUFFICES ASSUME NEW k \in DOMAIN es
                  PROVE  chosen[k] \in Seq(S)
      BY <1>2
    <3>1. PICK r : r = chosen[k][1]
      OBVIOUS
    <3>2. r \in S
      BY <3>1
    <3>. HIDE DEF S
    <3>3. <<r>> \in Seq(S)
      BY <3>2
    <3>. QED
      BY <1>5, <3>1, <3>3
  <2>2. chosen = [k \in 1 .. Len(es) |-> chosen[k]]
    BY <1>2, <1>3
  <2>3. chosen \in [1 .. Len(es) -> Seq(S)]
    <3>. HIDE DEF S
    <3>. QED
      BY <2>1, <2>2
  <2>4. Len(es) \in Nat
    BY <1>2
  <2>. HIDE DEF S
  <2>. QED
    BY <2>3, <2>4, IsASeq, <2>1, <2>2
<1>7. Len(es) # 0
  <2>. SUFFICES ASSUME Len(es) = 0
                PROVE  FALSE
    OBVIOUS
  <2>1. results = chosen
    <3>. HIDE DEF S
    <3>. QED
      BY <1>3, <1>6 DEF FlattenSeq
  <2>2. DOMAIN results = {}
    BY <1>2, <1>3, <2>1
  <2>. QED
    BY <2>2 DEF Range
<1>8. results = [k \in 1 .. Len(es) |-> chosen[k][1]]
  <2>. HIDE DEF S
  <2>1. \A k \in 1 .. Len(chosen) : Len(chosen[k]) = 1
    BY <1>2, <1>5, <1>6
  <2>. QED
    BY <1>3, <1>6, <1>7, <2>1, FlattenSingles
<1>9. PICK k \in 1 .. Len(es) : result = chosen[k][1]
  BY <1>8 DEF Range
<1>10. Of(result) = es[k]
  <2>1. ValidMeasurements(es, results)
    <3>1. DOMAIN results # {}
      BY <1>8, <1>9
    <3>2. results # <<>>
      BY <3>1
    <3>. QED
      BY <1>1, <3>2 DEF Raises, es
  <2>2. DOMAIN results = DOMAIN es /\ \A i \in DOMAIN es : results[i].entity = es[i].id
    <3>. HIDE DEF S
    <3>. QED
      BY <1>2, <1>5, <1>8
  <2>3. \A i, j \in DOMAIN es : es[i].id = es[j].id => i = j
    <3>. HIDE DEF S
    <3>1. \A i, j \in DOMAIN results : results[i].entity = results[j].entity => i = j
      BY <2>1 DEF ValidMeasurements
    <3>. QED
      BY ONLY <2>2, <3>1
  <2>4. k \in DOMAIN es /\ es[k] \in Range(es) /\ es[k].id = result.entity
    BY <1>2, <1>5, <1>9 DEF Range
  <2>5. \A e \in Range(es) : e.id = result.entity => e = es[k]
    <3>. SUFFICES ASSUME NEW i \in DOMAIN es, es[i].id = result.entity
                  PROVE  es[i] = es[k]
      BY DEF Range
    <3>. QED
      BY <2>3, <2>4
  <2>. QED
    BY <2>4, <2>5
<1>11. /\ result.label = "requested"
       /\ result.inputs = PropertyValues(x, es[k])
       /\ ValidatePoint(x, PropertyValues(x, es[k]))
       /\ DOMAIN x.required \subseteq DOMAIN es[k].point
  BY <1>2, <1>4, <1>9, DecoratedResult
<1>12. /\ x.parameters = Reference(owner).parameters
       /\ DOMAIN x.defaults = DOMAIN x.optional
  BY <1>1, TargetFields DEF x
<1>. HIDE DEF Of
<1>13. DOMAIN result.inputs = DOMAIN x.required \cup DOMAIN x.optional
  BY <1>11 DEF PropertyValues
<1>14. ASSUME NEW p \in DOMAIN result.inputs
       PROVE  result.inputs[p] =
                Over(es[k].point, Over(Reference(owner).parameters, x.defaults))[p]
  <2>1. p \in DOMAIN x.required \cup DOMAIN x.optional
    BY <1>13
  <2>2. result.inputs[p] = IF p \in DOMAIN es[k].point THEN es[k].point[p]
                           ELSE ValueForOptionalProperty(x, p)
    BY <1>11, <2>1 DEF PropertyValues
  <2>3. CASE p \in DOMAIN es[k].point
    BY <2>2, <2>3 DEF Over
  <2>4. CASE p \notin DOMAIN es[k].point
    <3>1. p \in DOMAIN x.defaults
      BY <1>11, <1>12, <2>1, <2>4
    <3>2. Over(Reference(owner).parameters, x.defaults)[p] = ValueForOptionalProperty(x, p)
      BY <1>12, <3>1 DEF Over, ValueForOptionalProperty
    <3>3. p \in DOMAIN Over(Reference(owner).parameters, x.defaults)
      BY <3>1 DEF Over
    <3>. QED
      BY <2>2, <2>4, <3>2, <3>3 DEF Over
  <2>. QED
    BY <2>3, <2>4
<1>. QED
  BY <1>10, <1>11, <1>13, <1>14

-----------------------------------------------------------------------------
(* Types.                                                                  *)

Stages == {"next", "submit", "wait", "inline", "failed", "done"}

Replies == [job : Nat, request : Done]

Askers == [stage : Stages, job : Nat, id : Int, answers : Seq(Replies)]

Executions == [owner : Askable, id : Int, answered : BOOLEAN, retries : Nat]

RestTypeOK ==
  /\ client \in [Clients -> Askers]
  /\ executors \subseteq Executions
  /\ queue \in [Services -> Seq(Done)]
  /\ actuator \in [Services -> {"absent", "idle", "busy", "dead"}]
  /\ accepted \subseteq [owner : Askable, id : Int]
  /\ \A key \in DOMAIN kept : kept[key] \in Done
  /\ repeated \subseteq Services

\* Whoever has started a request asks for one that may be made, and every request
\* that was accepted is a client's.
Asking ==
  /\ \A c \in Clients : client[c].stage \in {"submit", "wait", "inline"} =>
                          Owner(c) \in DOMAIN Requests
  /\ \A request \in accepted : request.owner[1] \in Clients
  /\ \A x \in executors : [owner |-> x.owner, id |-> x.id] \in accepted

LEMMA OwnerOf == ASSUME NEW c PROVE Owner(c)[1] = c
BY DEF Owner

LEMMA OwnerService ==
  ASSUME NEW c \in Clients, Owner(c) \in DOMAIN Requests
  PROVE  Service(Owner(c)) = ServiceOf(c) /\ ServiceOf(c) \in Services
BY OwnerOf, RestApiAssumption DEF Service, ServiceOf

LEMMA ExecutorOwner ==
  ASSUME RestTypeOK, Asking, NEW x \in executors
  PROVE  /\ x \in Executions /\ x.owner \in Askable /\ x.owner \in DOMAIN Requests
         /\ x.owner[1] \in Clients
         /\ Service(x.owner) = ServiceOf(x.owner[1]) /\ Service(x.owner) \in Services
<1>1. x \in Executions /\ x.owner \in Askable /\ x.owner \in DOMAIN Requests
  BY DEF RestTypeOK, Executions, Askable
<1>2. x.owner[1] \in Clients
  BY DEF Asking
<1>. QED
  BY <1>1, <1>2, RestApiAssumption DEF Service, ServiceOf

\* A client whose stage changes, who goes on, or gets an answer.
LEMMA AskerSteps ==
  ASSUME NEW c \in Clients, client[c] \in Askers
  PROVE  /\ \A stage \in Stages : [client[c] EXCEPT !.stage = stage] \in Askers
         /\ Proceed(c) \in Askers
         /\ AfterError(c) \in Askers
<1>1. \A stage \in Stages : [client[c] EXCEPT !.stage = stage] \in Askers
  BY DEF Askers
<1>2. Proceed(c) \in Askers
  <2>1. PICK a : a = [client[c] EXCEPT !.stage = "next"]
    OBVIOUS
  <2>2. a \in Askers /\ a.job = client[c].job
    BY <2>1 DEF Askers, Stages
  <2>3. PICK b : b = [a EXCEPT !.job = client[c].job + 1]
    OBVIOUS
  <2>4. client[c].job + 1 \in Nat
    BY DEF Askers
  <2>5. b \in Askers
    BY <2>2, <2>3, <2>4 DEF Askers
  <2>6. [b EXCEPT !.id = 0] \in Askers
    BY <2>5 DEF Askers
  <2>. QED
    BY <2>1, <2>3, <2>6 DEF Proceed
<1>3. "failed" \in Stages
  BY DEF Stages
<1>. QED
  BY <1>1, <1>2, <1>3 DEF AfterError

LEMMA ReceiveType ==
  ASSUME client \in [Clients -> Askers], NEW c \in Clients, NEW request \in Done,
         Receive(c, request)
  PROVE  /\ client' \in [Clients -> Askers]
         /\ client'[c].stage \in {"next", "failed"}
         /\ client'[c].answers =
              Append(client[c].answers, [job |-> client[c].job, request |-> request])
         /\ \A d \in Clients : d # c => client'[d] = client[d]
<1>. DEFINE reply == [job |-> client[c].job, request |-> request]
            stage == IF request.results = <<>> THEN "failed" ELSE Proceed(c).stage
            answers == Append(client[c].answers, reply)
            new == [Proceed(c) EXCEPT !.stage = stage, !.answers = answers]
<1>1. reply \in Replies
  BY DEF Askers, Replies
<1>2. client[c].answers \in Seq(Replies)
  BY DEF Askers
<1>3. answers \in Seq(Replies)
  <2>. HIDE DEF reply
  <2>. QED
    BY <1>1, <1>2
<1>4. Proceed(c) \in Askers /\ Proceed(c).stage = "next" /\ Proceed(c).answers = client[c].answers
  BY AskerSteps DEF Proceed, Askers
<1>5. stage \in {"next", "failed"}
  BY <1>4
<1>6. new \in Askers /\ new.stage = stage /\ new.answers = answers
  <2>. HIDE DEF stage, answers
  <2>. QED
    BY <1>3, <1>4, <1>5 DEF Askers, Stages
<1>7. client' = [client EXCEPT ![c] = new]
  BY <1>4 DEF Receive
<1>. HIDE DEF new, stage, answers
<1>8. client'[c] = new
  BY <1>7
<1>. QED
  BY <1>5, <1>6, <1>7, <1>8 DEF answers

LEMMA RetryType ==
  ASSUME NEW x \in Executions
  PROVE  LET next == [x EXCEPT !.retries = @ + 1, !.answered = FALSE]
         IN  /\ next \in Executions /\ next.owner = x.owner /\ next.id = x.id
             /\ next.answered = FALSE
<1>1. PICK a : a = [x EXCEPT !.retries = x.retries + 1]
  OBVIOUS
<1>2. x.retries + 1 \in Nat
  BY DEF Executions
<1>3. a \in Executions /\ a.owner = x.owner /\ a.id = x.id
  BY <1>1, <1>2 DEF Executions
<1>4. PICK b : b = [a EXCEPT !.answered = FALSE]
  OBVIOUS
<1>5. b \in Executions /\ b.owner = x.owner /\ b.id = x.id /\ b.answered = FALSE
  BY <1>3, <1>4 DEF Executions
<1>. QED
  BY <1>1, <1>4, <1>5

LEMMA RestInit == Init => RestTypeOK /\ Asking
<1>. SUFFICES ASSUME Init
              PROVE  RestTypeOK /\ Asking
  OBVIOUS
<1>1. <<>> \in Seq(Replies) /\ <<>> \in Seq(Done)
  OBVIOUS
<1>2. \A c \in Clients : client[c] \in Askers /\ client[c].stage \in {"done", "next"}
  BY <1>1 DEF Init, Askers, Stages
<1>3. client \in [Clients -> Askers]
  BY <1>2 DEF Init
<1>4. queue \in [Services -> Seq(Done)]
  BY <1>1 DEF Init, ActuatorInit
<1>. QED
  BY <1>2, <1>3, <1>4 DEF Init, ActuatorInit, RestTypeOK, Asking

\* The parts of the type invariant, for the steps that change only some of them.
LEMMA ClientChanges ==
  ASSUME RestTypeOK, Asking, NEW c \in Clients, NEW new \in Askers,
         client' = [client EXCEPT ![c] = new],
         UNCHANGED <<plan, kept, accepted, queue, executors, repeated>>,
         new.stage \in {"submit", "wait", "inline"} => Owner(c)' \in DOMAIN Requests,
         actuator' \in [Services -> {"absent", "idle", "busy", "dead"}]
  PROVE  RestTypeOK' /\ Asking'
<1>1. client' \in [Clients -> Askers] /\ client'[c] = new
      /\ \A d \in Clients : d # c => client'[d] = client[d]
  BY DEF RestTypeOK
<1>2. \A d \in Clients : d # c => Owner(d)' = Owner(d)
  BY <1>1 DEF Owner
<1>3. RestTypeOK'
  BY <1>1 DEF RestTypeOK
<1>4. \A d \in Clients : client'[d].stage \in {"submit", "wait", "inline"} =>
                          Owner(d)' \in DOMAIN Requests
  BY <1>1, <1>2 DEF Asking
<1>. QED
  BY <1>3, <1>4 DEF Asking

\* An execution that is not a task of Ray's is the one that its client waits in.
Inlined ==
  /\ \A x \in executors : ~Target(x.owner).useRay =>
       client[x.owner[1]].stage = "inline" /\ x.owner = Owner(x.owner[1])
  /\ \A x, y \in executors :
       ~Target(x.owner).useRay /\ ~Target(y.owner).useRay /\ x.owner[1] = y.owner[1]
         => x = y

LEMMA RestTypeNext ==
  RestTypeOK /\ Asking /\ Inlined /\ [Next]_vars => RestTypeOK' /\ Asking'
<1>. SUFFICES ASSUME RestTypeOK, Asking, Inlined, [Next]_vars
              PROVE  RestTypeOK' /\ Asking'
  OBVIOUS
<1>. DEFINE Silent == UNCHANGED <<plan, kept, accepted, queue, executors, repeated>>
            States == {"absent", "idle", "busy", "dead"}
<1>0. /\ client \in [Clients -> Askers] /\ actuator \in [Services -> States]
      /\ queue \in [Services -> Seq(Done)] /\ executors \subseteq Executions
  BY DEF RestTypeOK
<1>a. \A c \in Clients : client[c] \in Askers
  BY <1>0
<1>1. ASSUME NEW c \in Clients, Begin(c)
      PROVE  RestTypeOK' /\ Asking'
  <2>1. Silent /\ actuator' \in [Services -> States]
    BY <1>0, <1>1 DEF Begin, GetActuator, actuatorVars
  <2>2. PICK new \in Askers : /\ client' = [client EXCEPT ![c] = new]
                              /\ new.stage = "submit" => new.job = client[c].job
                              /\ new.stage \notin {"wait", "inline"}
    <3>1. Proceed(c) \in Askers /\ Proceed(c).stage = "next"
      BY <1>a, AskerSteps DEF Proceed, Askers
    <3>2. PICK failed : failed = [client[c] EXCEPT !.stage = "failed"]
      OBVIOUS
    <3>3. PICK submit : submit = [client[c] EXCEPT !.stage = "submit"]
      OBVIOUS
    <3>4. failed \in Askers /\ failed.stage = "failed"
      BY <1>a, <3>2 DEF Askers, Stages
    <3>5. submit \in Askers /\ submit.stage = "submit" /\ submit.job = client[c].job
      BY <1>a, <3>3 DEF Askers, Stages
    <3>6. \/ client' = [client EXCEPT ![c] = Proceed(c)]
          \/ client' = [client EXCEPT ![c] = failed]
          \/ client' = [client EXCEPT ![c] = submit]
      BY <1>1, <3>2, <3>3 DEF Begin, Goto
    <3>. QED
      BY <3>1, <3>4, <3>5, <3>6
  <2>3. new.stage = "submit" => Owner(c)' = Owner(c)
    BY <1>0, <2>1, <2>2 DEF Owner
  <2>4. Owner(c) \in DOMAIN Requests
    BY <1>1 DEF Begin
  <2>. QED
    BY <2>1, <2>2, <2>3, <2>4, ClientChanges
<1>2. ASSUME NEW c \in Clients, NEW stage \in {"done", "failed"}, Goto(c, stage),
             UNCHANGED <<plan, kept, accepted, actuatorVars>>
      PROVE  RestTypeOK' /\ Asking'
  <2>. DEFINE new == [client[c] EXCEPT !.stage = stage]
  <2>1. new \in Askers /\ new.stage = stage
    BY <1>a DEF Askers, Stages
  <2>2. client' = [client EXCEPT ![c] = new]
    BY <1>0, <1>2 DEF Goto
  <2>3. Silent /\ actuator' \in [Services -> States]
    BY <1>0, <1>2 DEF actuatorVars
  <2>. HIDE DEF new
  <2>. QED
    BY <2>1, <2>2, <2>3, ClientChanges
<1>3. ASSUME NEW c \in Clients, SubmitFails(c)
      PROVE  RestTypeOK' /\ Asking'
  <2>1. AfterError(c) \in Askers /\ AfterError(c).stage \in {"next", "failed"}
    BY <1>a, AskerSteps DEF AfterError, Proceed, Askers
  <2>2. client' = [client EXCEPT ![c] = AfterError(c)] /\ Silent /\ actuator' = actuator
    BY <1>3 DEF SubmitFails, actuatorVars
  <2>. QED
    BY <1>0, <2>1, <2>2, ClientChanges
<1>4. ASSUME NEW c \in Clients, NEW id \in Ids, SubmitSucceeds(c, id)
      PROVE  RestTypeOK' /\ Asking'
  <2>. DEFINE stage == IF Target(Owner(c)).useRay THEN "wait" ELSE "inline"
              new == [client[c] EXCEPT !.id = id, !.stage = stage]
              execution == [owner |-> Owner(c), id |-> id, answered |-> FALSE, retries |-> 0]
  <2>1. id \in Int
    BY DEF Ids
  <2>2. Owner(c) \in DOMAIN Requests /\ Owner(c) \in Askable
    BY <1>4 DEF SubmitSucceeds, Asking, Askable
  <2>3. stage \in {"wait", "inline"} /\ new \in Askers /\ new.job = client[c].job
    BY <1>a, <2>1 DEF Askers, Stages
  <2>4. client' = [client EXCEPT ![c] = new]
    BY <1>0, <1>4 DEF SubmitSucceeds
  <2>. HIDE DEF new
  <2>5. client' \in [Clients -> Askers] /\ client'[c] = new
        /\ \A d \in Clients : d # c => client'[d] = client[d]
    BY <1>0, <2>3, <2>4
  <2>6. \A d \in Clients : Owner(d)' = Owner(d)
    BY <1>4, <2>3, <2>5 DEF Owner, SubmitSucceeds
  <2>7. /\ executors' = executors \cup {execution}
        /\ accepted' = accepted \cup {[owner |-> Owner(c), id |-> id]}
        /\ UNCHANGED <<plan, kept, queue, repeated>>
    BY <1>4 DEF SubmitSucceeds, Submit
  <2>8. execution \in Executions /\ execution.owner = Owner(c) /\ execution.id = id
    BY <2>1, <2>2 DEF Executions
  <2>. HIDE DEF execution
  <2>9. actuator' \in [Services -> States]
    BY <1>0, <1>4 DEF SubmitSucceeds, Submit
  <2>10. RestTypeOK'
    <3>1. executors' \subseteq Executions
      BY <1>0, <2>7, <2>8
    <3>2. accepted' \subseteq [owner : Askable, id : Int]
      BY <2>1, <2>2, <2>7 DEF RestTypeOK
    <3>. QED
      BY <1>0, <2>5, <2>7, <2>9, <3>1, <3>2 DEF RestTypeOK
  <2>11. \A d \in Clients : client'[d].stage \in {"submit", "wait", "inline"} =>
                             Owner(d)' \in DOMAIN Requests
    BY <2>2, <2>5, <2>6 DEF Asking
  <2>12. \A request \in accepted' : request.owner[1] \in Clients
    BY <2>7, OwnerOf DEF Asking
  <2>13. \A x \in executors' : [owner |-> x.owner, id |-> x.id] \in accepted'
    BY <2>7, <2>8 DEF Asking
  <2>. QED
    BY <2>10, <2>11, <2>12, <2>13 DEF Asking
<1>5. ASSUME NEW c \in Clients, NEW request \in Done, Receive(c, request),
             UNCHANGED <<plan, kept, accepted, actuator, executors, repeated>>,
             queue' \in [Services -> Seq(Done)]
      PROVE  RestTypeOK' /\ Asking'
  <2>1. /\ client' \in [Clients -> Askers]
        /\ client'[c].stage \in {"next", "failed"}
        /\ \A d \in Clients : d # c => client'[d] = client[d]
    BY <1>0, <1>5, ReceiveType
  <2>2. \A d \in Clients : d # c => Owner(d)' = Owner(d)
    BY <1>5, <2>1 DEF Owner
  <2>3. RestTypeOK'
    BY <1>5, <2>1 DEF RestTypeOK
  <2>. QED
    BY <1>5, <2>1, <2>2, <2>3 DEF Asking
<1>6. ASSUME NEW c \in Clients, Poll(c)
      PROVE  RestTypeOK' /\ Asking'
  <2>1. PICK request \in Done : Receive(c, request)
    BY <1>6 DEF Poll, RestTypeOK
  <2>2. UNCHANGED <<plan, kept, accepted, actuator, executors, repeated, queue>>
    BY <1>6 DEF Poll, actuatorVars
  <2>. QED
    BY <1>0, <1>5, <2>1, <2>2
<1>7. ASSUME NEW c \in Clients, Get(c)
      PROVE  RestTypeOK' /\ Asking'
  <2>1. c \in Services /\ queue[c] \in Seq(Done) /\ queue[c] # <<>>
    BY <1>0, <1>7, RestApiAssumption DEF Get
  <2>2. Head(queue[c]) \in Done /\ Tail(queue[c]) \in Seq(Done)
    BY <2>1
  <2>3. queue' \in [Services -> Seq(Done)]
    BY <1>0, <1>7, <2>2 DEF Get
  <2>4. /\ UNCHANGED <<plan, kept, accepted, actuator, executors, repeated>>
        /\ Receive(c, Head(queue[c]))
    BY <1>7 DEF Get
  <2>. QED
    BY <1>5, <2>2, <2>3, <2>4
<1>8. ASSUME Monitor
      PROVE  RestTypeOK' /\ Asking'
  <2>. DEFINE request == Head(queue["api"])
  <2>1. "api" \in Services /\ queue["api"] \in Seq(Done) /\ queue["api"] # <<>>
    BY <1>0, <1>8, RestApiAssumption DEF Monitor
  <2>2. request \in Done /\ Tail(queue["api"]) \in Seq(Done)
    BY <2>1
  <2>. HIDE DEF request
  <2>3. queue' \in [Services -> Seq(Done)]
    BY <1>0, <1>8, <2>2 DEF Monitor
  <2>4. kept' = Over([key \in {Key(request.owner, request.id)} |-> request], kept)
    BY <1>8 DEF Monitor, request
  <2>5. \A key \in DOMAIN kept' : kept'[key] \in Done
    BY <2>2, <2>4 DEF Over, RestTypeOK
  <2>6. UNCHANGED <<plan, client, accepted, actuator, executors, repeated>>
    BY <1>8 DEF Monitor
  <2>7. RestTypeOK'
    BY <2>3, <2>5, <2>6 DEF RestTypeOK
  <2>. QED
    BY <2>6, <2>7 DEF Asking, Owner
<1>9. ASSUME NEW x \in executors, Answer(x), UNCHANGED apiVars
      PROVE  RestTypeOK' /\ Asking'
  <2>. DEFINE next == [x EXCEPT !.answered = TRUE]
  <2>1. x \in Executions /\ x.owner \in Askable /\ Service(x.owner) \in Services
    BY ExecutorOwner
  <2>2. next \in Executions /\ next.owner = x.owner /\ next.id = x.id
    BY <2>1 DEF Executions
  <2>3. executors' = (executors \ {x}) \cup {next}
    BY <1>9 DEF Answer, Replace
  <2>. HIDE DEF next
  <2>4. PICK results \in Measurements[x.owner] :
          /\ ~Raises(x.owner, results)
          /\ queue' = [queue EXCEPT ![Service(x.owner)] = Append(@, Request(x, results))]
    BY <1>9 DEF Answer
  <2>5. Request(x, results) \in Done
    BY <2>1, <2>4, RequestDone DEF Executions
  <2>6. queue[Service(x.owner)] \in Seq(Done)
    BY <1>0, <2>1
  <2>7. Append(queue[Service(x.owner)], Request(x, results)) \in Seq(Done)
    BY <2>5, <2>6
  <2>8. queue' \in [Services -> Seq(Done)]
    BY <1>0, <2>4, <2>7
  <2>9. UNCHANGED <<plan, client, kept, accepted, actuator, repeated>>
    BY <1>9 DEF Answer, apiVars
  <2>10. RestTypeOK'
    BY <2>2, <2>3, <2>8, <2>9 DEF RestTypeOK
  <2>11. \A y \in executors' : [owner |-> y.owner, id |-> y.id] \in accepted'
    BY <2>2, <2>3, <2>9 DEF Asking
  <2>. QED
    BY <2>9, <2>10, <2>11 DEF Asking, Owner
<1>10. ASSUME NEW x \in executors, Ends(x)
       PROVE  RestTypeOK' /\ Asking'
  <2>. DEFINE c == x.owner[1]
  <2>1. c \in Clients /\ client[c] \in Askers
    BY <1>0, ExecutorOwner
  <2>2. /\ UNCHANGED <<plan, kept, accepted, queue, repeated>>
        /\ executors' = executors \ {x}
        /\ actuator' \in [Services -> States]
    BY <1>0, <1>10 DEF Ends, End
  <2>3. client' \in [Clients -> Askers]
        /\ \A d \in Clients : \/ Owner(d)' = Owner(d) /\ client'[d].stage = client[d].stage
                              \/ client'[d].stage \in {"next", "failed"}
                              \/ d = c /\ client'[d].stage = "wait" /\ Owner(d)' = Owner(d)
                                 /\ ~Target(x.owner).useRay
    <3>1. CASE client' = client
      BY <1>0, <2>2, <3>1 DEF Owner
    <3>2. CASE client' = [client EXCEPT ![c] = [@ EXCEPT !.stage = "wait"]]
               /\ ~Target(x.owner).useRay
      <4>1. PICK new : new = [client[c] EXCEPT !.stage = "wait"]
        OBVIOUS
      <4>2. new \in Askers /\ new.stage = "wait" /\ new.job = client[c].job
        BY <2>1, <4>1 DEF Askers, Stages
      <4>3. client' = [client EXCEPT ![c] = new]
        BY <1>0, <2>1, <3>2, <4>1
      <4>. HIDE DEF c
      <4>. QED
        BY <1>0, <2>1, <2>2, <3>2, <4>2, <4>3 DEF Owner
    <3>3. CASE client' = [client EXCEPT ![c] = AfterError(c)]
      <4>1. AfterError(c) \in Askers /\ AfterError(c).stage \in {"next", "failed"}
        BY <2>1, AskerSteps DEF AfterError, Proceed, Askers
      <4>. HIDE DEF c
      <4>. QED
        BY <1>0, <2>1, <2>2, <3>3, <4>1 DEF Owner
    <3>. QED
      BY <1>10, <3>1, <3>2, <3>3 DEF Ends
  <2>4. ~Target(x.owner).useRay => Owner(c) \in DOMAIN Requests
    BY <2>1 DEF Inlined, Asking
  <2>. HIDE DEF c
  <2>5. \A d \in Clients : client'[d].stage \in {"submit", "wait", "inline"} =>
                            Owner(d)' \in DOMAIN Requests
    BY <2>3, <2>4 DEF Asking
  <2>6. RestTypeOK'
    BY <2>2, <2>3 DEF RestTypeOK
  <2>. QED
    BY <2>2, <2>5, <2>6 DEF Asking
<1>11. ASSUME NEW x \in executors, WorkerDies(x), UNCHANGED apiVars
       PROVE  RestTypeOK' /\ Asking'
  <2>. DEFINE next == [x EXCEPT !.retries = @ + 1, !.answered = FALSE]
  <2>1. x \in Executions /\ Service(x.owner) \in Services
    BY ExecutorOwner
  <2>2. next \in Executions /\ next.owner = x.owner /\ next.id = x.id
    BY <2>1, RetryType
  <2>3. \/ executors' = (executors \ {x}) \cup {next}
        \/ executors' = executors \ {x}
    BY <1>11 DEF WorkerDies, Replace
  <2>. HIDE DEF next
  <2>4. executors' \subseteq Executions
    BY <1>0, <2>2, <2>3
  <2>5. /\ UNCHANGED <<plan, client, kept, accepted, actuator, queue>>
        /\ repeated' \subseteq Services
    BY <1>11, <2>1 DEF WorkerDies, apiVars, RestTypeOK
  <2>6. \A y \in executors' : [owner |-> y.owner, id |-> y.id] \in accepted'
    BY <2>2, <2>3, <2>5 DEF Asking
  <2>7. RestTypeOK'
    BY <2>4, <2>5 DEF RestTypeOK
  <2>. QED
    BY <2>5, <2>6, <2>7 DEF Asking, Owner
<1>12. ASSUME NEW S, executors' \subseteq executors,
              client' = [c \in Clients |-> IF c \in S THEN AfterError(c) ELSE client[c]],
              queue' \in [Services -> Seq(Done)], actuator' \in [Services -> States],
              kept' = kept \/ kept' = <<>>,
              UNCHANGED <<plan, accepted, repeated>>
       PROVE  RestTypeOK' /\ Asking'
  <2>1. \A c \in Clients : AfterError(c) \in Askers /\ AfterError(c).stage \in {"next", "failed"}
    BY <1>a, AskerSteps DEF AfterError, Proceed, Askers
  <2>2. client' \in [Clients -> Askers]
    BY <1>12, <1>a, <2>1
  <2>3. \A d \in Clients : client'[d].stage \in {"submit", "wait", "inline"} =>
                            Owner(d)' \in DOMAIN Requests
    BY <1>12, <2>1 DEF Asking, Owner
  <2>4. RestTypeOK'
    BY <1>12, <2>2 DEF RestTypeOK
  <2>. QED
    BY <1>12, <2>3, <2>4 DEF Asking
<1>13. ASSUME NEW s \in Services, ActuatorDies(s)
       PROVE  RestTypeOK' /\ Asking'
  <2>1. PICK S : S = {c \in Clients : ServiceOf(c) = s /\ client[c].stage = "inline"}
    OBVIOUS
  <2>2. client' = [c \in Clients |-> IF c \in S THEN AfterError(c) ELSE client[c]]
    BY <1>13, <2>1 DEF ActuatorDies
  <2>3. /\ executors' \subseteq executors /\ queue' = queue /\ kept' = kept
        /\ actuator' \in [Services -> States]
        /\ UNCHANGED <<plan, accepted, repeated>>
    BY <1>0, <1>13 DEF ActuatorDies, ActorDies
  <2>. QED
    BY <1>0, <1>12, <2>2, <2>3
<1>14. ASSUME ReplicaRestarts
       PROVE  RestTypeOK' /\ Asking'
  <2>1. PICK S : S = {c \in Remote : client[c].stage \in {"submit", "inline"}}
    OBVIOUS
  <2>2. client' = [c \in Clients |-> IF c \in S THEN AfterError(c) ELSE client[c]]
    BY <1>14, <2>1 DEF ReplicaRestarts
  <2>3. <<>> \in Seq(Done)
    OBVIOUS
  <2>4. queue' \in [Services -> Seq(Done)]
    BY <1>0, <1>14, <2>3 DEF ReplicaRestarts
  <2>5. /\ executors' \subseteq executors /\ kept' = <<>>
        /\ actuator' \in [Services -> States]
        /\ UNCHANGED <<plan, accepted, repeated>>
    BY <1>0, <1>14 DEF ReplicaRestarts
  <2>. QED
    BY <1>12, <2>2, <2>4, <2>5
<1>15. CASE UNCHANGED vars
  BY <1>15 DEF vars, actuatorVars, RestTypeOK, Asking, Owner
<1>16. ASSUME NEW c \in Clients, ClientStep(c)
       PROVE  RestTypeOK' /\ Asking'
  <2>1. CASE Finish(c)
    BY <1>2, <2>1 DEF Finish
  <2>. QED
    BY <1>1, <1>3, <1>4, <1>6, <1>7, <1>16, <2>1 DEF ClientStep
<1>17. ASSUME NEW c \in Clients, TimesOut(c)
       PROVE  RestTypeOK' /\ Asking'
  BY <1>2, <1>17 DEF TimesOut
<1>18. ASSUME NEW x \in executors, Execute(x)
       PROVE  RestTypeOK' /\ Asking'
  BY <1>9, <1>10, <1>18 DEF Execute
<1>. QED
  BY <1>8, <1>11, <1>13, <1>14, <1>15, <1>16, <1>17, <1>18 DEF Next, Progress

-----------------------------------------------------------------------------
(* Where requests are, and what they are for.                              *)

IsAccepted(owner, id) == [owner |-> owner, id |-> id] \in accepted

\* What is on a queue, kept or waited for was accepted.
Traced ==
  /\ \A s \in Services : \A k \in DOMAIN queue[s] :
       IsAccepted(queue[s][k].owner, queue[s][k].id)
  /\ \A key \in DOMAIN kept :
       /\ Key(kept[key].owner, kept[key].id) = key
       /\ IsAccepted(kept[key].owner, kept[key].id)
  /\ \A c \in Clients : client[c].stage \in {"wait", "inline"} =>
                          IsAccepted(Owner(c), client[c].id)

\* Nothing is executed for an actor that died.
DeadIsIdle == \A x \in executors : actuator[Service(x.owner)] # "dead"

Waits(c) == client[c].stage \in {"wait", "inline"}

Pending(c) == {x \in executors : x.owner[1] = c /\ ~x.answered}

\* A command has no more than one request, in execution or on its queue, and that is
\* the one it waits for; one that was left behind was answered before its actor died.
OneAtATime(c) ==
  /\ \A x \in Pending(c) : Waits(c) /\ x.owner = Owner(c)
  /\ \A x, y \in Pending(c) : x = y
  /\ queue[c] # <<>> =>
       /\ Len(queue[c]) = 1 /\ Pending(c) = {}
       /\ IF Waits(c) THEN Head(queue[c]).owner = Owner(c) ELSE actuator[c] = "dead"

Commands == \A c \in Local \ repeated : OneAtATime(c)

Sound == Inlined /\ Traced /\ DeadIsIdle /\ Commands

LEMMA LocalService ==
  ASSUME NEW c \in Local
  PROVE  c \in Clients /\ c \in Services /\ c # "api" /\ c \notin Remote /\ ServiceOf(c) = c
BY RestApiAssumption DEF Clients, ServiceOf

\* What a command has is left as it is.
LEMMA CommandUnchanged ==
  ASSUME NEW c \in Local, OneAtATime(c),
         Pending(c)' = Pending(c), Waits(c)' = Waits(c), Owner(c)' = Owner(c),
         queue'[c] = queue[c], actuator[c] = "dead" => actuator'[c] = "dead"
  PROVE  OneAtATime(c)'
BY DEF OneAtATime

LEMMA SoundInit == Init => Sound
<1>. SUFFICES ASSUME Init
              PROVE  Sound
  OBVIOUS
<1>1. executors = {} /\ kept = <<>> /\ \A s \in Services : queue[s] = <<>>
  BY DEF Init, ActuatorInit
<1>2. \A c \in Clients : client[c].stage \notin {"wait", "inline"}
  BY DEF Init
<1>3. Inlined /\ DeadIsIdle
  BY <1>1 DEF Inlined, DeadIsIdle
<1>4. Traced
  BY <1>1, <1>2 DEF Traced
<1>5. Commands
  BY <1>1, LocalService DEF Commands, OneAtATime, Pending
<1>. QED
  BY <1>3, <1>4, <1>5 DEF Sound

\* A client goes on, or ends, that waits for nothing, or waits for the API.
LEMMA SoundLeaves ==
  ASSUME RestTypeOK, Asking, Sound, NEW c \in Clients,
         NEW new, client' = [client EXCEPT ![c] = new],
         new.stage \notin {"wait", "inline"},
         (c \in Remote /\ client[c].stage = "wait") \/ ~Waits(c),
         UNCHANGED <<plan, kept, accepted, queue, executors, repeated>>,
         \A s \in Services : actuator'[s] = "dead" <=> actuator[s] = "dead"
  PROVE  Sound'
<1>1. client'[c] = new /\ \A d \in Clients : d # c => client'[d] = client[d]
  BY DEF RestTypeOK
<1>2. \A d \in Clients : d # c => Owner(d)' = Owner(d) /\ Waits(d)' = Waits(d)
  BY <1>1 DEF Owner, Waits
<1>3. Inlined'
  <2>1. \A x \in executors : ~Target(x.owner).useRay => x.owner[1] # c
    BY DEF Sound, Inlined, Waits
  <2>2. \A x \in executors : x.owner[1] \in Clients
    BY ExecutorOwner
  <2>. QED
    BY <1>1, <1>2, <2>1, <2>2 DEF Sound, Inlined
<1>4. Traced'
  <2>1. \A d \in Clients : client'[d].stage \in {"wait", "inline"} =>
                            IsAccepted(Owner(d), client[d].id)' 
    BY <1>1, <1>2 DEF Sound, Traced, IsAccepted
  <2>. QED
    BY <2>1 DEF Sound, Traced, IsAccepted
<1>5. DeadIsIdle'
  BY ExecutorOwner DEF Sound, DeadIsIdle
<1>6. ASSUME NEW d \in Local, d \notin repeated
      PROVE  OneAtATime(d)'
  <2>1. OneAtATime(d) /\ Pending(d)' = Pending(d) /\ d \in Clients /\ d \in Services
    BY <1>6, LocalService DEF Sound, Commands, Pending
  <2>2. CASE d # c
    BY <1>2, <2>1, <2>2, CommandUnchanged
  <2>3. CASE d = c
    <3>1. ~Waits(d) /\ ~Waits(d)'
      BY <1>1, <2>3, LocalService DEF Waits
    <3>2. Pending(d) = {}
      BY <2>1, <3>1 DEF OneAtATime
    <3>. QED
      BY <2>1, <3>1, <3>2 DEF OneAtATime
  <2>. QED
    BY <2>2, <2>3
<1>. QED
  BY <1>3, <1>4, <1>5, <1>6 DEF Sound, Commands

LEMMA SoundSubmits ==
  ASSUME RestTypeOK, Asking, Sound, NEW c \in Clients, NEW id \in Ids, SubmitSucceeds(c, id)
  PROVE  Sound'
<1>. DEFINE stage == IF Target(Owner(c)).useRay THEN "wait" ELSE "inline"
            new == [client[c] EXCEPT !.id = id, !.stage = stage]
            execution == [owner |-> Owner(c), id |-> id, answered |-> FALSE, retries |-> 0]
<1>1. new.stage = stage /\ new.id = id /\ new.job = client[c].job
  <2>1. client[c] \in Askers
    BY DEF RestTypeOK
  <2>. QED
    BY <2>1 DEF Askers
<1>2. client' = [client EXCEPT ![c] = new] /\ ~Waits(c) /\ client[c].stage = "submit"
  BY DEF SubmitSucceeds, RestTypeOK, Waits
<1>3. /\ execution.owner = Owner(c) /\ execution.id = id /\ execution.answered = FALSE
      /\ executors' = executors \cup {execution}
      /\ accepted' = accepted \cup {[owner |-> Owner(c), id |-> id]}
      /\ UNCHANGED <<plan, kept, queue, repeated>>
  BY DEF SubmitSucceeds, Submit
<1>. HIDE DEF new, execution
<1>4. client'[c] = new /\ \A d \in Clients : d # c => client'[d] = client[d]
  BY <1>2 DEF RestTypeOK
<1>5. /\ \A d \in Clients : Owner(d)' = Owner(d)
      /\ \A d \in Clients : d # c => Waits(d)' = Waits(d)
      /\ Waits(c)'
  BY <1>1, <1>3, <1>4 DEF Owner, Waits
<1>6. Owner(c) \in DOMAIN Requests
  BY <1>2 DEF Asking
<1>7. Service(Owner(c)) = ServiceOf(c) /\ ServiceOf(c) \in Services /\ Owner(c)[1] = c
  BY <1>6, OwnerService, OwnerOf
<1>8. \A x \in executors : x.owner[1] \in Clients /\ Service(x.owner) \in Services
  BY ExecutorOwner
<1>9. \A x \in executors : ~Target(x.owner).useRay => x.owner[1] # c
  BY <1>2 DEF Sound, Inlined, Waits
<1>10. Inlined'
  <2>1. ASSUME NEW x \in executors', ~Target(x.owner).useRay
        PROVE  client'[x.owner[1]].stage = "inline" /\ x.owner = Owner(x.owner[1])'
    <3>1. CASE x = execution
      BY <1>1, <1>3, <1>4, <1>5, <1>7, <2>1, <3>1
    <3>2. CASE x \in executors
      BY <1>4, <1>5, <1>8, <1>9, <2>1, <3>2 DEF Sound, Inlined
    <3>. QED
      BY <1>3, <3>1, <3>2
  <2>2. ASSUME NEW x \in executors', NEW y \in executors',
               ~Target(x.owner).useRay, ~Target(y.owner).useRay, x.owner[1] = y.owner[1]
        PROVE  x = y
    <3>1. CASE x \in executors /\ y \in executors
      BY <2>2, <3>1 DEF Sound, Inlined
    <3>2. CASE x = execution \/ y = execution
      BY <1>3, <1>7, <1>9, <2>2, <3>2
    <3>. QED
      BY <1>3, <3>1, <3>2
  <2>. QED
    BY <2>1, <2>2 DEF Inlined
<1>11. Traced'
  <2>1. \A d \in Clients : client'[d].stage \in {"wait", "inline"} =>
                            IsAccepted(Owner(d), client[d].id)'
    BY <1>1, <1>3, <1>4, <1>5 DEF Sound, Traced, IsAccepted
  <2>. QED
    BY <1>3, <2>1 DEF Sound, Traced, IsAccepted
<1>12. actuator' = [actuator EXCEPT ![ServiceOf(c)] = actuator'[ServiceOf(c)]]
       /\ actuator'[ServiceOf(c)] # "dead" /\ actuator[ServiceOf(c)] # "dead"
  BY <1>7 DEF SubmitSucceeds, Submit, RestTypeOK
<1>13. \A s \in Services : actuator'[s] = "dead" <=> actuator[s] = "dead"
  BY <1>12 DEF RestTypeOK
<1>14. DeadIsIdle'
  BY <1>3, <1>7, <1>8, <1>12, <1>13 DEF Sound, DeadIsIdle
<1>15. ASSUME NEW d \in Local, d \notin repeated
       PROVE  OneAtATime(d)'
  <2>1. OneAtATime(d) /\ d \in Clients /\ d \in Services /\ ServiceOf(d) = d
    BY <1>15, LocalService DEF Sound, Commands
  <2>2. CASE d # c
    <3>1. Pending(d)' = Pending(d)
      BY <1>3, <1>7, <2>2 DEF Pending
    <3>. QED
      BY <1>3, <1>5, <1>13, <2>1, <2>2, <3>1, CommandUnchanged
  <2>3. CASE d = c
    <3>1. Pending(d) = {} /\ queue[d] = <<>>
      BY <1>2, <1>12, <2>1, <2>3 DEF OneAtATime
    <3>2. Pending(d)' = {execution}
      BY <1>3, <1>7, <2>3, <3>1 DEF Pending
    <3>. QED
      BY <1>3, <1>5, <2>1, <2>3, <3>1, <3>2 DEF OneAtATime
  <2>. QED
    BY <2>2, <2>3
<1>. QED
  BY <1>3, <1>10, <1>11, <1>14, <1>15 DEF Sound, Commands

\* What is left of a queue.
LEMMA RestOfQueue ==
  ASSUME NEW q \in Seq(Done), q # <<>>
  PROVE  /\ \A k \in DOMAIN Tail(q) : k + 1 \in DOMAIN q /\ Tail(q)[k] = q[k + 1]
         /\ Len(q) = 1 => Tail(q) = <<>>
<1>1. Len(q) \in Nat \ {0} /\ DOMAIN q = 1 .. Len(q)
  OBVIOUS
<1>2. /\ Tail(q) \in Seq(Done) /\ Len(Tail(q)) = Len(q) - 1
      /\ \A k \in 1 .. Len(q) - 1 : Tail(q)[k] = q[k + 1]
  BY HeadTailProperties
<1>3. DOMAIN Tail(q) = 1 .. Len(q) - 1
  BY <1>2
<1>4. \A k \in 1 .. Len(q) - 1 : k + 1 \in 1 .. Len(q)
  BY <1>1
<1>5. Len(q) = 1 => Tail(q) = <<>>
  <2>1. PICK rest : rest = Tail(q)
    OBVIOUS
  <2>2. rest \in Seq(Done) /\ Len(rest) = Len(q) - 1
    BY <1>2, <2>1
  <2>3. Len(q) = 1 => Len(rest) = 0
    BY <2>2
  <2>4. Len(rest) = 0 => rest = <<>>
    BY <2>2, EmptySeq
  <2>. QED
    BY <2>1, <2>3, <2>4
<1>. QED
  BY <1>1, <1>2, <1>3, <1>4, <1>5

LEMMA SoundGets ==
  ASSUME RestTypeOK, Asking, Sound, NEW c \in Clients, Get(c)
  PROVE  Sound'
<1>1. /\ c \in Local /\ Waits(c) /\ queue[c] # <<>> /\ queue[c] \in Seq(Done)
      /\ c \in Services /\ client[c].stage = "wait"
  BY LocalService DEF Get, Waits, RestTypeOK
<1>2. Head(queue[c]) \in Done /\ Receive(c, Head(queue[c])) /\ client \in [Clients -> Askers]
  BY <1>1 DEF Get, RestTypeOK
<1>3. client'[c].stage \in {"next", "failed"} /\ \A d \in Clients : d # c => client'[d] = client[d]
  BY <1>2, ReceiveType
<1>4. /\ queue' = [queue EXCEPT ![c] = Tail(queue[c])]
      /\ UNCHANGED <<plan, kept, accepted, actuator, executors, repeated>>
  BY DEF Get
<1>5. \A d \in Clients : d # c => Owner(d)' = Owner(d) /\ Waits(d)' = Waits(d)
  BY <1>3, <1>4 DEF Owner, Waits
<1>6. \A s \in Services : s # c => queue'[s] = queue[s]
  BY <1>4 DEF RestTypeOK
<1>7. queue'[c] = Tail(queue[c])
  BY <1>1, <1>4 DEF RestTypeOK
<1>8. \A x \in executors : x.owner[1] \in Clients
  BY ExecutorOwner
<1>9. Inlined'
  <2>1. \A x \in executors : ~Target(x.owner).useRay => x.owner[1] # c
    BY <1>1 DEF Sound, Inlined
  <2>. QED
    BY <1>3, <1>4, <1>5, <1>8, <2>1 DEF Sound, Inlined
<1>10. Traced'
  <2>1. \A d \in Clients : client'[d].stage \in {"wait", "inline"} =>
                            IsAccepted(Owner(d), client[d].id)'
    BY <1>3, <1>4, <1>5 DEF Sound, Traced, IsAccepted
  <2>2. ASSUME NEW s \in Services, NEW k \in DOMAIN queue'[s]
        PROVE  IsAccepted(queue[s][k].owner, queue[s][k].id)'
    <3>1. CASE s # c
      BY <1>4, <1>6, <2>2, <3>1 DEF Sound, Traced, IsAccepted
    <3>2. CASE s = c
      <4>1. k + 1 \in DOMAIN queue[c] /\ queue'[c][k] = queue[c][k + 1]
        BY <1>1, <1>7, <2>2, <3>2, RestOfQueue
      <4>. QED
        BY <1>1, <1>4, <3>2, <4>1 DEF Sound, Traced, IsAccepted
    <3>. QED
      BY <3>1, <3>2
  <2>. QED
    BY <1>4, <2>1, <2>2 DEF Sound, Traced, IsAccepted
<1>11. DeadIsIdle'
  BY <1>4 DEF Sound, DeadIsIdle
<1>12. ASSUME NEW d \in Local, d \notin repeated
       PROVE  OneAtATime(d)'
  <2>1. OneAtATime(d) /\ Pending(d)' = Pending(d) /\ d \in Clients /\ d \in Services
    BY <1>4, <1>12, LocalService DEF Sound, Commands, Pending
  <2>2. CASE d # c
    BY <1>4, <1>5, <1>6, <2>1, <2>2, CommandUnchanged
  <2>3. CASE d = c
    <3>1. Pending(d) = {} /\ Len(queue[c]) = 1
      BY <1>1, <2>1, <2>3 DEF OneAtATime
    <3>2. queue'[c] = <<>>
      BY <1>1, <1>7, <3>1, RestOfQueue
    <3>. QED
      BY <2>1, <2>3, <3>1, <3>2 DEF OneAtATime
  <2>. QED
    BY <2>2, <2>3
<1>. QED
  BY <1>4, <1>9, <1>10, <1>11, <1>12 DEF Sound, Commands

LEMMA SoundMonitors ==
  ASSUME RestTypeOK, Asking, Sound, Monitor
  PROVE  Sound'
<1>. DEFINE request == Head(queue["api"])
            key == Key(request.owner, request.id)
<1>1. "api" \in Services /\ queue["api"] \in Seq(Done) /\ queue["api"] # <<>>
  BY RestApiAssumption DEF Monitor, RestTypeOK
<1>2. IsAccepted(request.owner, request.id)
  <2>1. 1 \in DOMAIN queue["api"] /\ request = queue["api"][1]
    BY <1>1
  <2>. QED
    BY <1>1, <2>1 DEF Sound, Traced
<1>3. /\ queue' = [queue EXCEPT !["api"] = Tail(queue["api"])]
      /\ UNCHANGED <<plan, client, accepted, actuator, executors, repeated>>
      /\ kept' = Over([k \in {key} |-> request], kept)
  BY DEF Monitor
<1>. HIDE DEF request
<1>4. \A s \in Services : s # "api" => queue'[s] = queue[s]
  BY <1>3 DEF RestTypeOK
<1>5. queue'["api"] = Tail(queue["api"])
  BY <1>1, <1>3 DEF RestTypeOK
<1>6. Traced'
  <2>1. ASSUME NEW s \in Services, NEW k \in DOMAIN queue'[s]
        PROVE  IsAccepted(queue[s][k].owner, queue[s][k].id)'
    <3>1. CASE s # "api"
      BY <1>3, <1>4, <2>1, <3>1 DEF Sound, Traced, IsAccepted
    <3>2. CASE s = "api"
      <4>1. k + 1 \in DOMAIN queue["api"] /\ queue'["api"][k] = queue["api"][k + 1]
        BY <1>1, <1>5, <2>1, <3>2, RestOfQueue
      <4>. QED
        BY <1>1, <1>3, <3>2, <4>1 DEF Sound, Traced, IsAccepted
    <3>. QED
      BY <3>1, <3>2
  <2>2. ASSUME NEW k \in DOMAIN kept'
        PROVE  /\ Key(kept'[k].owner, kept'[k].id) = k
               /\ IsAccepted(kept[k].owner, kept[k].id)'
    <3>1. CASE k = key
      <4>1. kept'[k] = request
        BY <1>3, <3>1 DEF Over
      <4>. QED
        BY <1>2, <1>3, <3>1, <4>1 DEF IsAccepted
    <3>2. CASE k # key
      <4>1. k \in DOMAIN kept /\ kept'[k] = kept[k]
        <5>. HIDE DEF key
        <5>. QED
          BY <1>3, <2>2, <3>2 DEF Over
      <4>. QED
        BY <1>3, <4>1 DEF Sound, Traced, IsAccepted
    <3>. QED
      BY <3>1, <3>2
  <2>3. \A d \in Clients : client'[d].stage \in {"wait", "inline"} =>
                            IsAccepted(Owner(d), client[d].id)'
    BY <1>3 DEF Sound, Traced, IsAccepted, Owner
  <2>4. \A k \in DOMAIN kept' : Key(kept'[k].owner, kept'[k].id) = k
    BY <2>2
  <2>. QED
    BY <2>1, <2>2, <2>3, <2>4 DEF Traced
<1>7. ASSUME NEW d \in Local, d \notin repeated
      PROVE  OneAtATime(d)'
  <2>1. OneAtATime(d) /\ d \in Services /\ d # "api"
    BY <1>7, LocalService DEF Sound, Commands
  <2>. QED
    BY <1>3, <1>4, <2>1, CommandUnchanged DEF Pending, Waits, Owner
<1>8. Inlined' /\ DeadIsIdle'
  BY <1>3 DEF Sound, Inlined, DeadIsIdle, Owner
<1>. QED
  BY <1>3, <1>6, <1>7, <1>8 DEF Sound, Commands

LEMMA SoundAnswers ==
  ASSUME RestTypeOK, Asking, Sound, NEW x \in executors, Answer(x), UNCHANGED apiVars
  PROVE  Sound'
<1>. DEFINE next == [x EXCEPT !.answered = TRUE]
            c == x.owner[1]
            s == Service(x.owner)
<1>1. /\ x \in Executions /\ x.owner \in Askable /\ c \in Clients
      /\ s = ServiceOf(c) /\ s \in Services /\ ~x.answered
  BY ExecutorOwner DEF Answer
<1>2. next.owner = x.owner /\ next.id = x.id /\ next.answered
  BY <1>1 DEF Executions
<1>3. executors' = (executors \ {x}) \cup {next}
      /\ UNCHANGED <<plan, client, kept, accepted, actuator, repeated>>
  BY DEF Answer, Replace, apiVars
<1>4. PICK results \in Measurements[x.owner] :
        /\ ~Raises(x.owner, results)
        /\ queue' = [queue EXCEPT ![s] = Append(@, Request(x, results))]
  BY DEF Answer
<1>5. PICK request \in Done : /\ request = Request(x, results)
                              /\ request.owner = x.owner /\ request.id = x.id
  BY <1>1, <1>4, RequestDone DEF Executions
<1>6. queue[s] \in Seq(Done) /\ queue'[s] = Append(queue[s], request)
      /\ \A t \in Services : t # s => queue'[t] = queue[t]
  BY <1>1, <1>4, <1>5 DEF RestTypeOK
<1>7. IsAccepted(x.owner, x.id)
  BY DEF Asking, IsAccepted
<1>. HIDE DEF next, s, c
<1>8. \A d \in Clients : Owner(d)' = Owner(d) /\ Waits(d)' = Waits(d)
  BY <1>3 DEF Owner, Waits
<1>9. \A y \in executors : y.owner[1] \in Clients
  BY ExecutorOwner
<1>10. Inlined'
  <2>1. ASSUME NEW y \in executors', ~Target(y.owner).useRay
        PROVE  client'[y.owner[1]].stage = "inline" /\ y.owner = Owner(y.owner[1])'
    BY <1>2, <1>3, <1>8, <1>9, <2>1 DEF Sound, Inlined
  <2>2. ASSUME NEW y \in executors', NEW z \in executors',
               ~Target(y.owner).useRay, ~Target(z.owner).useRay, y.owner[1] = z.owner[1]
        PROVE  y = z
    BY <1>2, <1>3, <2>2 DEF Sound, Inlined
  <2>. QED
    BY <2>1, <2>2 DEF Inlined
<1>11. Traced'
  <2>1. ASSUME NEW t \in Services, NEW k \in DOMAIN queue'[t]
        PROVE  IsAccepted(queue[t][k].owner, queue[t][k].id)'
    <3>1. CASE t # s
      BY <1>3, <1>6, <2>1, <3>1 DEF Sound, Traced, IsAccepted
    <3>2. CASE t = s
      <4>1. (k \in DOMAIN queue[s] /\ queue'[s][k] = queue[s][k]) \/ queue'[s][k] = request
        BY <1>6, <2>1, <3>2
      <4>. QED
        BY <1>1, <1>3, <1>5, <1>7, <3>2, <4>1 DEF Sound, Traced, IsAccepted
    <3>. QED
      BY <3>1, <3>2
  <2>2. \A d \in Clients : client'[d].stage \in {"wait", "inline"} =>
                            IsAccepted(Owner(d), client[d].id)'
    BY <1>3, <1>8 DEF Sound, Traced, IsAccepted
  <2>. QED
    BY <1>3, <2>1, <2>2 DEF Sound, Traced, IsAccepted
<1>12. DeadIsIdle'
  BY <1>2, <1>3 DEF Sound, DeadIsIdle
<1>13. ASSUME NEW d \in Local, d \notin repeated
       PROVE  OneAtATime(d)'
  <2>1. OneAtATime(d) /\ d \in Clients /\ d \in Services /\ ServiceOf(d) = d
    BY <1>13, LocalService DEF Sound, Commands
  <2>2. CASE d # c
    <3>1. Pending(d)' = Pending(d)
      BY <1>2, <1>3, <2>2 DEF Pending, c
    <3>2. d # s
      BY <1>1, <2>1, <2>2, RestApiAssumption DEF ServiceOf
    <3>. QED
      BY <1>3, <1>6, <1>8, <2>1, <3>1, <3>2, CommandUnchanged
  <2>3. CASE d = c
    <3>1. x \in Pending(d) /\ s = d
      BY <1>1, <2>1, <2>3 DEF Pending, c
    <3>2. queue[d] = <<>> /\ Waits(d) /\ x.owner = Owner(d) /\ Pending(d) = {x}
      BY <2>1, <3>1 DEF OneAtATime
    <3>3. Pending(d)' = {}
      BY <1>2, <1>3, <3>2 DEF Pending
    <3>4. queue'[d] = <<request>>
      BY <1>6, <3>1, <3>2
    <3>. QED
      BY <1>5, <1>8, <2>1, <3>2, <3>3, <3>4 DEF OneAtATime
  <2>. QED
    BY <2>2, <2>3
<1>. QED
  BY <1>3, <1>10, <1>11, <1>12, <1>13 DEF Sound, Commands

LEMMA SoundEnds ==
  ASSUME RestTypeOK, Asking, Sound, NEW x \in executors, Ends(x)
  PROVE  Sound'
<1>. DEFINE c == x.owner[1]
            s == Service(x.owner)
            ray == Target(x.owner).useRay
<1>1. /\ x \in Executions /\ c \in Clients /\ s = ServiceOf(c) /\ s \in Services
      /\ client[c] \in Askers
  BY ExecutorOwner DEF RestTypeOK
<1>2. /\ UNCHANGED <<plan, kept, accepted, queue, repeated>>
      /\ executors' = executors \ {x}
      /\ actuator' = [actuator EXCEPT ![s] = IF ray THEN @ ELSE "idle"]
  BY DEF Ends, End
<1>3. client' = IF ray THEN client
                ELSE [client EXCEPT ![c] =
                        IF x.answered THEN [@ EXCEPT !.stage = "wait"] ELSE AfterError(c)]
  BY DEF Ends
<1>4. ~ray => client[c].stage = "inline" /\ x.owner = Owner(c)
  BY DEF Sound, Inlined
<1>5. PICK new : new = [client[c] EXCEPT !.stage = "wait"]
  OBVIOUS
<1>6. new.stage = "wait" /\ new.job = client[c].job /\ new.id = client[c].id
  BY <1>1, <1>5 DEF Askers
<1>7. AfterError(c).stage \notin {"wait", "inline"}
  BY <1>1 DEF AfterError, Proceed, Askers
<1>. HIDE DEF c, s, ray
<1>8. \A d \in Clients : d # c => client'[d] = client[d]
  BY <1>1, <1>3 DEF RestTypeOK
<1>9. client'[c] = IF ray THEN client[c] ELSE IF x.answered THEN new ELSE AfterError(c)
  BY <1>1, <1>3, <1>5 DEF RestTypeOK
<1>10. /\ \A d \in Clients : d # c => Owner(d)' = Owner(d) /\ Waits(d)' = Waits(d)
       /\ ray \/ x.answered => Owner(c)' = Owner(c) /\ Waits(c)' = Waits(c)
  BY <1>2, <1>4, <1>6, <1>8, <1>9 DEF Owner, Waits
<1>11. \A y \in executors : y.owner[1] \in Clients /\ Service(y.owner) \in Services
  BY ExecutorOwner
<1>12. \A y \in executors' : ~Target(y.owner).useRay /\ ~ray => y.owner[1] # c
  BY <1>2 DEF Sound, Inlined, c, ray
<1>13. Inlined'
  <2>1. ASSUME NEW y \in executors', ~Target(y.owner).useRay
        PROVE  client'[y.owner[1]].stage = "inline" /\ y.owner = Owner(y.owner[1])'
    <3>1. y \in executors /\ client[y.owner[1]].stage = "inline" /\ y.owner = Owner(y.owner[1])
      BY <1>2, <2>1 DEF Sound, Inlined
    <3>2. CASE y.owner[1] # c
      BY <1>8, <1>10, <1>11, <3>1, <3>2
    <3>3. CASE y.owner[1] = c
      BY <1>9, <1>10, <1>12, <2>1, <3>1, <3>3
    <3>. QED
      BY <3>2, <3>3
  <2>. QED
    BY <1>2, <2>1 DEF Sound, Inlined
<1>14. Traced'
  <2>1. ASSUME NEW d \in Clients, client'[d].stage \in {"wait", "inline"}
        PROVE  IsAccepted(Owner(d), client[d].id)'
    <3>1. CASE d # c
      BY <1>2, <1>8, <1>10, <2>1, <3>1 DEF Sound, Traced, IsAccepted
    <3>2. CASE d = c
      <4>1. ray \/ x.answered
        BY <1>7, <1>9, <2>1, <3>2
      <4>2. client[c].stage \in {"wait", "inline"} /\ client'[c].id = client[c].id
        BY <1>4, <1>6, <1>9, <2>1, <3>2, <4>1
      <4>. QED
        BY <1>1, <1>2, <1>10, <3>2, <4>1, <4>2 DEF Sound, Traced, IsAccepted
    <3>. QED
      BY <3>1, <3>2
  <2>. QED
    BY <1>2, <2>1 DEF Sound, Traced, IsAccepted
<1>15. \A t \in Services : /\ actuator'[t] = "dead" => actuator[t] = "dead"
                           /\ actuator[t] = "dead" => actuator'[t] = "dead"
  <2>1. actuator[s] # "dead"
    BY DEF Sound, DeadIsIdle, s
  <2>. QED
    BY <1>1, <1>2, <2>1 DEF RestTypeOK
<1>16. DeadIsIdle'
  BY <1>2, <1>11, <1>15 DEF Sound, DeadIsIdle
<1>17. ASSUME NEW d \in Local, d \notin repeated
       PROVE  OneAtATime(d)'
  <2>1. OneAtATime(d) /\ d \in Clients /\ d \in Services
    BY <1>17, LocalService DEF Sound, Commands
  <2>2. Pending(d)' = Pending(d) \ {x}
    BY <1>2 DEF Pending
  <2>3. CASE d # c \/ x.answered
    <3>1. x \notin Pending(d)
      BY <2>3 DEF Pending, c
    <3>. QED
      BY <1>2, <1>10, <1>15, <2>1, <2>2, <2>3, <3>1, CommandUnchanged
  <2>4. CASE d = c /\ ~x.answered
    <3>1. x \in Pending(d)
      BY <2>4 DEF Pending, c
    <3>2. Pending(d)' = {} /\ queue'[d] = <<>>
      BY <1>2, <2>1, <2>2, <3>1 DEF OneAtATime
    <3>. QED
      BY <3>2 DEF OneAtATime
  <2>. QED
    BY <2>3, <2>4
<1>. QED
  BY <1>2, <1>13, <1>14, <1>16, <1>17 DEF Sound, Commands

LEMMA SoundWorkerDies ==
  ASSUME RestTypeOK, Asking, Sound, NEW x \in executors, WorkerDies(x), UNCHANGED apiVars
  PROVE  Sound'
<1>. DEFINE again == [x EXCEPT !.retries = @ + 1, !.answered = FALSE]
            c == x.owner[1]
            s == Service(x.owner)
<1>1. x \in Executions /\ c \in Clients /\ s = ServiceOf(c) /\ s \in Services
  BY ExecutorOwner
<1>2. again.owner = x.owner /\ again.id = x.id /\ again.answered = FALSE
  BY <1>1, RetryType
<1>3. /\ \/ /\ executors' = (executors \ {x}) \cup {again}
            /\ repeated' = IF x.answered THEN repeated \cup {s} ELSE repeated
         \/ executors' = executors \ {x} /\ repeated' = repeated
      /\ Target(x.owner).useRay
      /\ UNCHANGED <<plan, client, kept, accepted, actuator, queue>>
  BY DEF WorkerDies, Replace, apiVars
<1>. HIDE DEF again, c, s
<1>4. repeated \subseteq repeated'
  BY <1>3
<1>5. \A d : Owner(d)' = Owner(d) /\ Waits(d)' = Waits(d)
  BY <1>3 DEF Owner, Waits
<1>6. \A y \in executors' : ~Target(y.owner).useRay => y \in executors
  BY <1>2, <1>3
<1>7. Inlined'
  BY <1>3, <1>5, <1>6 DEF Sound, Inlined
<1>8. Traced'
  BY <1>3, <1>5 DEF Sound, Traced, IsAccepted
<1>9. DeadIsIdle'
  BY <1>2, <1>3 DEF Sound, DeadIsIdle
<1>10. ASSUME NEW d \in Local, d \notin repeated'
       PROVE  OneAtATime(d)'
  <2>1. OneAtATime(d) /\ d \in Clients /\ d \in Services /\ ServiceOf(d) = d
    BY <1>4, <1>10, LocalService DEF Sound, Commands
  <2>2. CASE d # c \/ (x.answered /\ executors' = executors \ {x})
    <3>1. Pending(d)' = Pending(d)
      BY <1>2, <1>3, <2>2 DEF Pending, c
    <3>. QED
      BY <1>3, <1>5, <2>1, <3>1, CommandUnchanged
  <2>3. CASE d = c /\ ~(x.answered /\ executors' = executors \ {x})
    <3>1. ~x.answered
      BY <1>1, <1>3, <1>10, <2>1, <2>3
    <3>2. x \in Pending(d)
      BY <2>3, <3>1 DEF Pending, c
    <3>3. queue[d] = <<>> /\ Waits(d) /\ x.owner = Owner(d) /\ Pending(d) = {x}
      BY <2>1, <3>2 DEF OneAtATime
    <3>4. Pending(d)' \subseteq {again}
      BY <1>3, <3>3 DEF Pending
    <3>. QED
      BY <1>2, <1>3, <1>5, <3>3, <3>4 DEF OneAtATime
  <2>. QED
    BY <2>2, <2>3
<1>. QED
  BY <1>7, <1>8, <1>9, <1>10 DEF Sound, Commands

\* Whoever the actor was serving goes on without it.
LEMMA SoundActuatorDies ==
  ASSUME RestTypeOK, Asking, Sound, NEW s \in Services, ActuatorDies(s)
  PROVE  Sound'
<1>. DEFINE Hit(d) == ServiceOf(d) = s /\ client[d].stage = "inline"
<1>1. /\ executors' = executors \ Orphans(s)
      /\ actuator' = [actuator EXCEPT ![s] = "dead"]
      /\ client' = [d \in Clients |-> IF Hit(d) THEN AfterError(d) ELSE client[d]]
      /\ UNCHANGED <<plan, kept, accepted, queue, repeated>>
  BY DEF ActuatorDies, ActorDies
<1>2. \A d \in Clients : AfterError(d).stage \notin {"wait", "inline"}
  <2>1. \A d \in Clients : client[d] \in Askers
    BY DEF RestTypeOK
  <2>. QED
    BY <2>1 DEF AfterError, Proceed, Askers
<1>3. \A d \in Clients : ~Hit(d) => client'[d] = client[d] /\ Owner(d)' = Owner(d)
                                    /\ Waits(d)' = Waits(d)
  BY <1>1 DEF Owner, Waits
<1>4. \A d \in Clients : Hit(d) => client'[d].stage \notin {"wait", "inline"} /\ ~Waits(d)'
  BY <1>1, <1>2 DEF Waits
<1>5. \A x \in executors : /\ x.owner[1] \in Clients /\ Service(x.owner) \in Services
                           /\ Service(x.owner) = ServiceOf(x.owner[1])
  BY ExecutorOwner
<1>6. \A x \in executors' : x \in executors /\ Service(x.owner) # s
  BY <1>1 DEF Orphans
<1>7. \A t \in Services : t # s => actuator'[t] = actuator[t]
  BY <1>1 DEF RestTypeOK
<1>8. actuator'[s] = "dead"
  BY <1>1 DEF RestTypeOK
<1>9. Inlined'
  BY <1>3, <1>5, <1>6 DEF Sound, Inlined
<1>10. Traced'
  BY <1>1, <1>3, <1>4 DEF Sound, Traced, IsAccepted
<1>11. DeadIsIdle'
  BY <1>5, <1>6, <1>7 DEF Sound, DeadIsIdle
<1>12. ASSUME NEW d \in Local, d \notin repeated
       PROVE  OneAtATime(d)'
  <2>1. OneAtATime(d) /\ d \in Clients /\ d \in Services /\ ServiceOf(d) = d
    BY <1>12, LocalService DEF Sound, Commands
  <2>2. CASE d # s
    <3>1. \A x \in Pending(d) : x \notin Orphans(s)
      BY <1>5, <2>1, <2>2 DEF Orphans, Pending
    <3>2. Pending(d)' = Pending(d)
      BY <1>1, <3>1 DEF Pending
    <3>. QED
      BY <1>1, <1>3, <1>7, <2>1, <2>2, <3>2, CommandUnchanged
  <2>3. CASE d = s
    <3>1. Pending(d)' = {}
      BY <1>5, <1>6, <2>1, <2>3 DEF Pending
    <3>2. CASE Hit(d)
      BY <1>1, <1>4, <1>8, <2>1, <2>3, <3>1, <3>2 DEF OneAtATime
    <3>3. CASE ~Hit(d)
      BY <1>1, <1>3, <1>8, <2>1, <2>3, <3>1, <3>3 DEF OneAtATime
    <3>. QED
      BY <3>2, <3>3
  <2>. QED
    BY <2>2, <2>3
<1>. QED
  BY <1>1, <1>9, <1>10, <1>11, <1>12 DEF Sound, Commands

LEMMA SoundRestarts ==
  ASSUME RestTypeOK, Asking, Sound, ReplicaRestarts
  PROVE  Sound'
<1>. DEFINE Hit(d) == d \in Remote /\ client[d].stage \in {"submit", "inline"}
<1>1. /\ executors' = executors \ Orphans("api")
      /\ actuator' = [actuator EXCEPT !["api"] = "absent"]
      /\ queue' = [queue EXCEPT !["api"] = <<>>]
      /\ kept' = <<>>
      /\ client' = [d \in Clients |-> IF Hit(d) THEN AfterError(d) ELSE client[d]]
      /\ UNCHANGED <<plan, accepted, repeated>>
  BY DEF ReplicaRestarts
<1>2. \A d \in Clients : AfterError(d).stage \notin {"wait", "inline"}
  <2>1. \A d \in Clients : client[d] \in Askers
    BY DEF RestTypeOK
  <2>. QED
    BY <2>1 DEF AfterError, Proceed, Askers
<1>3. \A d \in Clients : ~Hit(d) => client'[d] = client[d] /\ Owner(d)' = Owner(d)
                                    /\ Waits(d)' = Waits(d)
  BY <1>1 DEF Owner, Waits
<1>4. \A d \in Clients : Hit(d) => client'[d].stage \notin {"wait", "inline"} /\ ~Waits(d)'
  BY <1>1, <1>2 DEF Waits
<1>5. \A x \in executors : /\ x.owner[1] \in Clients /\ Service(x.owner) \in Services
                           /\ Service(x.owner) = ServiceOf(x.owner[1])
  BY ExecutorOwner
<1>6. \A x \in executors' : x \in executors /\ Service(x.owner) # "api"
  BY <1>1 DEF Orphans
<1>7. "api" \in Services
  BY RestApiAssumption
<1>8. \A t \in Services : t # "api" => actuator'[t] = actuator[t] /\ queue'[t] = queue[t]
  BY <1>1 DEF RestTypeOK
<1>9. \A d \in Clients : Hit(d) => ServiceOf(d) = "api"
  BY RestApiAssumption DEF ServiceOf
<1>10. Inlined'
  BY <1>3, <1>5, <1>6, <1>9 DEF Sound, Inlined
<1>11. Traced'
  <2>1. queue'["api"] = <<>>
    BY <1>1, <1>7 DEF RestTypeOK
  <2>2. \A t \in Services : \A k \in DOMAIN queue'[t] : t # "api"
    BY <2>1
  <2>3. \A t \in Services : \A k \in DOMAIN queue'[t] :
          IsAccepted(queue[t][k].owner, queue[t][k].id)'
    BY <1>1, <1>8, <2>2 DEF Sound, Traced, IsAccepted
  <2>4. DOMAIN kept' = {}
    BY <1>1
  <2>5. \A d \in Clients : client'[d].stage \in {"wait", "inline"} =>
                            IsAccepted(Owner(d), client[d].id)'
    BY <1>1, <1>3, <1>4 DEF Sound, Traced, IsAccepted
  <2>. QED
    BY <2>3, <2>4, <2>5 DEF Traced
<1>12. DeadIsIdle'
  BY <1>5, <1>6, <1>8 DEF Sound, DeadIsIdle
<1>13. ASSUME NEW d \in Local, d \notin repeated
       PROVE  OneAtATime(d)'
  <2>1. /\ OneAtATime(d) /\ d \in Clients /\ d \in Services /\ ServiceOf(d) = d
        /\ d # "api" /\ ~Hit(d)
    BY <1>13, LocalService DEF Sound, Commands
  <2>2. \A x \in Pending(d) : x \notin Orphans("api")
    BY <1>5, <2>1 DEF Orphans, Pending
  <2>3. Pending(d)' = Pending(d)
    BY <1>1, <2>2 DEF Pending
  <2>. QED
    BY <1>3, <1>8, <2>1, <2>3, CommandUnchanged
<1>. QED
  BY <1>1, <1>10, <1>11, <1>12, <1>13 DEF Sound, Commands

LEMMA SoundNext == RestTypeOK /\ Asking /\ Sound /\ [Next]_vars => Sound'
<1>. SUFFICES ASSUME RestTypeOK, Asking, Sound, [Next]_vars
              PROVE  Sound'
  OBVIOUS
<1>1. ASSUME NEW c \in Clients, ClientStep(c) \/ TimesOut(c)
      PROVE  Sound'
  <2>1. client[c] \in Askers /\ client \in [Clients -> Askers]
    BY DEF RestTypeOK
  <2>. DEFINE New == {Proceed(c), AfterError(c), [client[c] EXCEPT !.stage = "failed"],
                      [client[c] EXCEPT !.stage = "submit"],
                      [client[c] EXCEPT !.stage = "done"]}
  <2>2. \A new \in New : new.stage \notin {"wait", "inline"}
    BY <2>1 DEF Proceed, AfterError, Askers
  <2>3. CASE Begin(c) \/ Finish(c) \/ SubmitFails(c) \/ TimesOut(c)
    <3>1. \E new \in New : client' = [client EXCEPT ![c] = new]
      <4>1. ASSUME NEW stage \in {"failed", "submit", "done"},
                   client' = [client EXCEPT ![c].stage = stage]
            PROVE  \E new \in New : client' = [client EXCEPT ![c] = new]
        <5>1. PICK new : new = [client[c] EXCEPT !.stage = stage]
          OBVIOUS
        <5>2. new \in New
          BY <5>1
        <5>3. client' = [client EXCEPT ![c] = new]
          BY <4>1, <5>1
        <5>. QED
          BY <5>2, <5>3
      <4>2. \/ client' = [client EXCEPT ![c] = Proceed(c)]
            \/ client' = [client EXCEPT ![c] = AfterError(c)]
            \/ client' = [client EXCEPT ![c].stage = "failed"]
            \/ client' = [client EXCEPT ![c].stage = "submit"]
            \/ client' = [client EXCEPT ![c].stage = "done"]
        BY <2>3 DEF Begin, Finish, SubmitFails, TimesOut, Goto
      <4>3. Proceed(c) \in New /\ AfterError(c) \in New
        OBVIOUS
      <4>. HIDE DEF New
      <4>. QED
        BY <4>1, <4>2, <4>3
    <3>2. /\ (c \in Remote /\ client[c].stage = "wait") \/ ~Waits(c)
          /\ UNCHANGED <<plan, kept, accepted, queue, executors, repeated>>
      BY <2>3 DEF Begin, Finish, SubmitFails, TimesOut, actuatorVars, Waits
    <3>3. \A s \in Services : actuator'[s] = "dead" <=> actuator[s] = "dead"
      <4>1. actuator' = actuator \/ GetActuator(ServiceOf(c))
        BY <2>3 DEF Begin, Finish, SubmitFails, TimesOut, actuatorVars
      <4>. QED
        BY <4>1 DEF GetActuator, RestTypeOK
    <3>. HIDE DEF New
    <3>. QED
      BY <2>2, <3>1, <3>2, <3>3, SoundLeaves
  <2>4. CASE \E id \in Ids : SubmitSucceeds(c, id)
    BY <2>4, SoundSubmits
  <2>5. CASE Poll(c)
    <3>1. PICK request \in Done : Receive(c, request)
      BY <2>5 DEF Poll, RestTypeOK
    <3>2. client'[c].stage \notin {"wait", "inline"}
      BY <2>1, <3>1, ReceiveType
    <3>3. client' = [client EXCEPT ![c] = client'[c]]
      BY <2>1, <3>1 DEF Receive
    <3>4. /\ c \in Remote /\ client[c].stage = "wait"
          /\ UNCHANGED <<plan, kept, accepted, queue, executors, repeated, actuator>>
      BY <2>5 DEF Poll, actuatorVars
    <3>. QED
      BY <3>2, <3>3, <3>4, SoundLeaves
  <2>6. CASE Get(c)
    BY <2>6, SoundGets
  <2>. QED
    BY <1>1, <2>3, <2>4, <2>5, <2>6 DEF ClientStep
<1>2. ASSUME NEW x \in executors, Execute(x)
      PROVE  Sound'
  BY <1>2, SoundAnswers, SoundEnds DEF Execute
<1>3. CASE UNCHANGED vars
  BY <1>3 DEF vars, actuatorVars, Sound, Inlined, Traced, DeadIsIdle, Commands, OneAtATime,
              IsAccepted, Pending, Waits, Owner
<1>. QED
  BY <1>1, <1>2, <1>3, SoundMonitors, SoundWorkerDies, SoundActuatorDies, SoundRestarts
     DEF Next, Progress

-----------------------------------------------------------------------------
(* The answers.                                                            *)

\* Whatever was answered is a request with its results.
LEMMA AllAnsweredAreDone ==
  ASSUME RestTypeOK
  PROVE  \A request \in AllAnswered : request \in Done
<1>1. ASSUME NEW S, NEW q \in Seq(S), NEW r \in Range(q)
      PROVE  r \in S
  <2>1. PICK k \in 1 .. Len(q) : r = q[k]
    BY DEF Range
  <2>. QED
    BY <2>1, ElementOfSeq
<1>2. ASSUME NEW s \in Services, NEW r \in Range(queue[s])
      PROVE  r \in Done
  <2>1. queue[s] \in Seq(Done)
    BY DEF RestTypeOK
  <2>. QED
    BY <1>1, <2>1
<1>3. ASSUME NEW r \in Range(kept)
      PROVE  r \in Done
  BY DEF RestTypeOK, Range
<1>4. ASSUME NEW c \in Clients, NEW answer \in Range(client[c].answers)
      PROVE  answer.request \in Done
  <2>1. client[c].answers \in Seq(Replies)
    BY DEF RestTypeOK, Askers
  <2>2. answer \in Replies
    BY <1>1, <2>1
  <2>. QED
    BY <2>2 DEF Replies
<1>. QED
  BY <1>2, <1>3, <1>4 DEF AllAnswered

LEMMA AnsweredRight == RestTypeOK => ResultsAreOfTheEntity
BY AllAnsweredAreDone, DoneIsOfTheEntity DEF ResultsAreOfTheEntity, Done

\* The answer to a job of a client.
IsTheirs(c, job, request) ==
  LET owner == <<c, plan[c], job>>
  IN  \/ request.owner = owner
      \/ c \in Remote /\ \E mine \in accepted : mine.owner = owner /\ Clashes(mine)
      \/ c \in repeated

LEMMA TheirsByJob ==
  AnswersAreTheirs <=>
    \A c \in Clients : \A answer \in Range(client[c].answers) :
      IsTheirs(c, answer.job, answer.request)
BY DEF AnswersAreTheirs, IsTheirs

\* Requests that were accepted stay so, and so do clashes.
LEMMA StaysTheirs ==
  ASSUME plan' = plan, accepted \subseteq accepted', repeated \subseteq repeated',
         NEW c, NEW job, NEW request, IsTheirs(c, job, request)
  PROVE  IsTheirs(c, job, request)'
BY DEF IsTheirs, Clashes

\* A client gets an answer that is its own.
LEMMA TheirsWhenReceived ==
  ASSUME RestTypeOK, AnswersAreTheirs, NEW c \in Clients, NEW request \in Done,
         Receive(c, request), IsTheirs(c, client[c].job, request),
         UNCHANGED <<plan, accepted, repeated>>
  PROVE  AnswersAreTheirs'
<1>1. client[c].answers \in Seq(Replies) /\ client[c].job \in Nat /\ client \in [Clients -> Askers]
  BY DEF RestTypeOK, Askers
<1>2. PICK reply \in Replies : reply = [job |-> client[c].job, request |-> request]
  BY <1>1 DEF Replies
<1>3. /\ client'[c].answers = Append(client[c].answers, reply)
      /\ \A d \in Clients : d # c => client'[d] = client[d]
  BY <1>1, <1>2, ReceiveType
<1>4. ASSUME NEW answer \in Range(client'[c].answers)
      PROVE  answer \in Range(client[c].answers) \/ answer = reply
  <2>1. PICK q \in Seq(Replies) : q = client[c].answers
    BY <1>1
  <2>2. PICK k \in DOMAIN Append(q, reply) : answer = Append(q, reply)[k]
    BY <1>3, <1>4, <2>1 DEF Range
  <2>3. (k \in DOMAIN q /\ answer = q[k]) \/ answer = reply
    BY <2>2
  <2>. QED
    BY <2>1, <2>3 DEF Range
<1>5. reply.job = client[c].job /\ reply.request = request
  BY <1>2
<1>6. ASSUME NEW d \in Clients, NEW answer \in Range(client'[d].answers)
      PROVE  IsTheirs(d, answer.job, answer.request)'
  <2>1. CASE answer \in Range(client[d].answers)
    <3>1. IsTheirs(d, answer.job, answer.request)
      BY <2>1, TheirsByJob
    <3>. QED
      BY <3>1, StaysTheirs
  <2>2. CASE answer \notin Range(client[d].answers)
    <3>1. d = c /\ answer = reply
      BY <1>3, <1>4, <1>6, <2>2
    <3>2. IsTheirs(d, answer.job, answer.request)
      BY <1>5, <3>1
    <3>. QED
      BY <3>2, StaysTheirs
  <2>. QED
    BY <2>1, <2>2
<1>. QED
  BY <1>6 DEF AnswersAreTheirs, IsTheirs

LEMMA TheirsNext ==
  RestTypeOK /\ Asking /\ Sound /\ AnswersAreTheirs /\ [Next]_vars => AnswersAreTheirs'
<1>. SUFFICES ASSUME RestTypeOK, Asking, Sound, AnswersAreTheirs, [Next]_vars
              PROVE  AnswersAreTheirs'
  OBVIOUS
<1>1. ASSUME NEW c \in Clients, Poll(c)
      PROVE  AnswersAreTheirs'
  <2>. DEFINE key == Key(Owner(c), client[c].id)
              request == kept[key]
  <2>1. /\ c \in Remote /\ client[c].stage = "wait" /\ key \in DOMAIN kept
        /\ Receive(c, request) /\ UNCHANGED <<plan, accepted, repeated>>
    BY <1>1 DEF Poll, actuatorVars
  <2>2. request \in Done
    BY <2>1 DEF RestTypeOK
  <2>3. IsAccepted(Owner(c), client[c].id)
    BY <2>1 DEF Sound, Traced
  <2>4. Key(request.owner, request.id) = key /\ IsAccepted(request.owner, request.id)
    BY <2>1 DEF Sound, Traced
  <2>5. Reference(request.owner) = Reference(Owner(c)) /\ request.id = client[c].id
    BY <2>4 DEF Key
  <2>. HIDE DEF request
  <2>6. IsTheirs(c, client[c].job, request)
    <3>1. CASE request.owner = Owner(c)
      BY <3>1 DEF IsTheirs, Owner
    <3>2. CASE request.owner # Owner(c)
      <4>1. PICK mine \in accepted : mine.owner = Owner(c) /\ mine.id = client[c].id
        BY <2>3 DEF IsAccepted
      <4>2. PICK other \in accepted : other.owner = request.owner /\ other.id = request.id
        BY <2>4 DEF IsAccepted
      <4>3. Clashes(mine)
        BY <2>5, <3>2, <4>1, <4>2 DEF Clashes
      <4>. QED
        BY <2>1, <4>1, <4>3 DEF IsTheirs, Owner
    <3>. QED
      BY <3>1, <3>2
  <2>. QED
    BY <2>1, <2>2, <2>6, TheirsWhenReceived
<1>2. ASSUME NEW c \in Clients, Get(c)
      PROVE  AnswersAreTheirs'
  <2>1. /\ c \in Local /\ queue[c] \in Seq(Done) /\ queue[c] # <<>> /\ Waits(c)
        /\ Receive(c, Head(queue[c])) /\ UNCHANGED <<plan, accepted, repeated>>
    BY <1>2, LocalService DEF Get, RestTypeOK, Waits
  <2>2. PICK request \in Done : request = Head(queue[c])
    BY <2>1
  <2>3. c \notin repeated => request.owner = Owner(c)
    BY <2>1, <2>2 DEF Sound, Commands, OneAtATime
  <2>4. IsTheirs(c, client[c].job, request)
    BY <2>3 DEF IsTheirs, Owner
  <2>. QED
    BY <2>1, <2>2, <2>4, TheirsWhenReceived
<1>3. ASSUME \A d \in Clients : client'[d].answers = client[d].answers,
             plan' = plan, accepted \subseteq accepted', repeated \subseteq repeated'
      PROVE  AnswersAreTheirs'
  <2>1. \A d \in Clients : \A answer \in Range(client'[d].answers) :
          IsTheirs(d, answer.job, answer.request)'
    BY <1>3, TheirsByJob, StaysTheirs
  <2>. QED
    BY <2>1 DEF AnswersAreTheirs, IsTheirs
<1>4. \A c \in Clients : /\ client[c] \in Askers
                         /\ AfterError(c).answers = client[c].answers
                         /\ Proceed(c).answers = client[c].answers
  BY DEF RestTypeOK, Askers, AfterError, Proceed
<1>5. client \in [Clients -> Askers]
  BY DEF RestTypeOK
<1>6. ASSUME NEW c \in Clients, NEW stage, client' = [client EXCEPT ![c].stage = stage]
      PROVE  \A d \in Clients : client'[d].answers = client[d].answers
  BY <1>4, <1>5, <1>6 DEF Askers
<1>7. ASSUME NEW c \in Clients,
             \/ client' = [client EXCEPT ![c] = Proceed(c)]
             \/ client' = [client EXCEPT ![c] = AfterError(c)]
      PROVE  \A d \in Clients : client'[d].answers = client[d].answers
  BY <1>4, <1>5, <1>7
<1>8. ASSUME NEW c \in Clients, Begin(c) \/ Finish(c) \/ SubmitFails(c) \/ TimesOut(c)
      PROVE  AnswersAreTheirs'
  <2>1. \A d \in Clients : client'[d].answers = client[d].answers
    <3>1. \/ client' = [client EXCEPT ![c] = Proceed(c)]
          \/ client' = [client EXCEPT ![c] = AfterError(c)]
          \/ \E stage \in {"failed", "submit", "done"} :
               client' = [client EXCEPT ![c].stage = stage]
      BY <1>8 DEF Begin, Finish, SubmitFails, TimesOut, Goto
    <3>. QED
      BY <1>6, <1>7, <3>1
  <2>2. plan' = plan /\ accepted' = accepted /\ repeated' = repeated
    BY <1>8 DEF Begin, Finish, SubmitFails, TimesOut, actuatorVars
  <2>. QED
    BY <1>3, <2>1, <2>2
<1>9. ASSUME NEW c \in Clients, NEW id \in Ids, SubmitSucceeds(c, id)
      PROVE  AnswersAreTheirs'
  <2>1. PICK new : /\ client' = [client EXCEPT ![c] = new] /\ new.answers = client[c].answers
    <3>. DEFINE stage == IF Target(Owner(c)).useRay THEN "wait" ELSE "inline"
                new == [client[c] EXCEPT !.id = id, !.stage = stage]
    <3>1. new.answers = client[c].answers
      BY <1>4 DEF Askers
    <3>2. client' = [client EXCEPT ![c] = new]
      BY <1>5, <1>9 DEF SubmitSucceeds
    <3>. QED
      BY <3>1, <3>2
  <2>2. \A d \in Clients : client'[d].answers = client[d].answers
    BY <1>5, <2>1
  <2>3. plan' = plan /\ accepted \subseteq accepted' /\ repeated' = repeated
    BY <1>9 DEF SubmitSucceeds
  <2>. QED
    BY <1>3, <2>2, <2>3
<1>10. CASE Monitor
  BY <1>3, <1>10 DEF Monitor
<1>11. ASSUME NEW x \in executors, Answer(x), UNCHANGED apiVars
       PROVE  AnswersAreTheirs'
  BY <1>3, <1>11 DEF Answer, apiVars
<1>12. ASSUME NEW x \in executors, Ends(x)
       PROVE  AnswersAreTheirs'
  <2>1. PICK c \in Clients : c = x.owner[1]
    BY ExecutorOwner
  <2>2. \/ client' = client
        \/ client' = [client EXCEPT ![c].stage = "wait"]
        \/ client' = [client EXCEPT ![c] = AfterError(c)]
    BY <1>12, <2>1 DEF Ends
  <2>3. \A d \in Clients : client'[d].answers = client[d].answers
    BY <1>6, <1>7, <2>2
  <2>4. plan' = plan /\ accepted' = accepted /\ repeated' = repeated
    BY <1>12 DEF Ends, End
  <2>. QED
    BY <1>3, <2>3, <2>4
<1>13. ASSUME NEW x \in executors, WorkerDies(x), UNCHANGED apiVars
       PROVE  AnswersAreTheirs'
  BY <1>3, <1>13 DEF WorkerDies, apiVars
<1>14. ASSUME NEW s \in Services, ActuatorDies(s)
       PROVE  AnswersAreTheirs'
  <2>1. \A d \in Clients : client'[d] = client[d] \/ client'[d] = AfterError(d)
    BY <1>14 DEF ActuatorDies
  <2>2. plan' = plan /\ accepted' = accepted /\ repeated' = repeated
    BY <1>14 DEF ActuatorDies, ActorDies
  <2>. QED
    BY <1>3, <1>4, <2>1, <2>2
<1>15. CASE ReplicaRestarts
  <2>1. \A d \in Clients : client'[d] = client[d] \/ client'[d] = AfterError(d)
    BY <1>15 DEF ReplicaRestarts
  <2>2. plan' = plan /\ accepted' = accepted /\ repeated' = repeated
    BY <1>15 DEF ReplicaRestarts
  <2>. QED
    BY <1>3, <1>4, <2>1, <2>2
<1>16. CASE UNCHANGED vars
  BY <1>3, <1>16 DEF vars, actuatorVars
<1>17. ASSUME NEW c \in Clients, ClientStep(c)
       PROVE  AnswersAreTheirs'
  BY <1>1, <1>2, <1>8, <1>9, <1>17 DEF ClientStep
<1>18. ASSUME NEW x \in executors, Execute(x)
       PROVE  AnswersAreTheirs'
  BY <1>11, <1>12, <1>18 DEF Execute
<1>. QED
  BY <1>8, <1>10, <1>13, <1>14, <1>15, <1>16, <1>17, <1>18 DEF Next, Progress

LEMMA TheirsInit == Init => AnswersAreTheirs
<1>. SUFFICES ASSUME Init
              PROVE  AnswersAreTheirs
  OBVIOUS
<1>1. \A c \in Clients : Range(client[c].answers) = {}
  BY DEF Init, Range
<1>. QED
  BY <1>1 DEF AnswersAreTheirs

\* Whoever runs an experiment gets the answer to what was asked, measured on what was
\* asked, whoever else asks meanwhile and whatever dies: unless two requests for one
\* experiment were given the same id, or an answered one was executed again.
THEOREM AnswersCorrect == Spec => []AnswersAreRight
<1>1. Init => RestTypeOK /\ Asking /\ Sound /\ AnswersAreTheirs
  BY RestInit, SoundInit, TheirsInit
<1>2. RestTypeOK /\ Asking /\ Sound /\ AnswersAreTheirs /\ [Next]_vars
        => (RestTypeOK /\ Asking /\ Sound /\ AnswersAreTheirs)'
  <2>1. Sound => Inlined
    BY DEF Sound
  <2>. QED
    BY <2>1, RestTypeNext, SoundNext, TheirsNext
<1>3. RestTypeOK /\ AnswersAreTheirs => AnswersAreRight
  BY AnsweredRight DEF AnswersAreRight
<1>. QED
  BY <1>1, <1>2, <1>3, PTL DEF Spec

=============================================================================
