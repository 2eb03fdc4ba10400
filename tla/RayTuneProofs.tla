--------------------------- MODULE RayTuneProofs ----------------------------
(***************************************************************************)
(* Proofs about the ray_tune operator, for any measurement space and any   *)
(* number of trials, and whatever fails: a trial that reports has measured *)
(* its entity, and an optimisation that succeeds has lost no request.  And *)
(* about its stoppers, for any settings and results: each one wants to     *)
(* stop from the trial on with which its criterion is met.                 *)
(***************************************************************************)
EXTENDS RayTune, Stoppers, FiniteSetTheorems, TLAPS

-----------------------------------------------------------------------------
(* The inductive invariant.                                                *)

Elements(s) == {s[k] : k \in DOMAIN s}

Local ==
  [phase : {"pending", "running", "raised", "terminated", "reported"},
   remaining : Seq(Experiments), waitingRequestIds : Seq(Nat),
   toCheck : Seq(Nat), newRequests : Seq(Nat), completedRequests : Nat,
   submittedExperiments : Nat, measured : BOOLEAN]

\* The requests that were made, except for one that could not be stored.
Made == inFlight \cup Elements(measurementQueue) \cup Elements(stored)

TypesOK ==
  /\ MeasurementsTypeOK
  /\ stored \in Seq(Answered)
  /\ DOMAIN seen = {Operator}
  /\ seen[Operator] \subseteq Elements(stored)
  /\ IsFiniteSet(seen[Operator])
  /\ trial \in [Trials -> Local]

\* The requests of a trial are numbered, and each is in one place.
Numbered ==
  /\ \A r \in Made : r.id <= trial[r.index].submittedExperiments
  /\ \A r, q \in Made : r.index = q.index /\ r.id = q.id => r = q
  /\ \A i, j \in DOMAIN measurementQueue :
       measurementQueue[i] = measurementQueue[j] => i = j
  /\ Elements(measurementQueue) \cap Elements(stored) = {}

\* The numbers of the requests whose answer the trial has not collected yet.
Open(t) ==
  Elements(trial[t].toCheck) \cup Elements(trial[t].waitingRequestIds)
    \cup Elements(trial[t].newRequests)

\* The counters count: what is not completed is on one of the three lists.
Checking(t) == Len(trial[t].toCheck)
Waiting(t) == Len(trial[t].waitingRequestIds)
New(t) == Len(trial[t].newRequests)
Counted(t) ==
  trial[t].submittedExperiments =
    trial[t].completedRequests + Checking(t) + Waiting(t) + New(t)

\* What was collected was seen by the operator.
OpenOrSeen(t) ==
  \A id \in 1 .. trial[t].submittedExperiments :
    id \in Open(t) \/ \E r \in seen[Operator] : r.index = t /\ r.id = id

\* The experiment is about to be requested.
Due(t, e) == \E k \in DOMAIN trial[t].remaining : trial[t].remaining[k] = e

\* The numbers of the trial's requests of the experiment, and the number of
\* a request that was lost.
Numbers(t, e) ==
  {id \in 1 .. trial[t].submittedExperiments :
     \A r \in Made : r.index = t /\ r.id = id => r.experiment = e}

IndependentRequested(t) ==
  \A k \in DOMAIN IndependentExperiments :
    \/ Due(t, IndependentExperiments[k])
    \/ Numbers(t, IndependentExperiments[k]) # {}

\* Each collected success has led to a request of what it enables.
Collected(t, e) == {r \in Successes(t, e) : r.id \notin Open(t)}
DependentRequested(t) ==
  \A e \in Experiments : \A k \in DOMAIN DependentsOf[e] :
    LET d == DependentsOf[e][k] IN
    Cardinality(Collected(t, e)) <=
      Cardinality(Numbers(t, d)) + (IF Due(t, d) THEN 1 ELSE 0)

Goes(t) == trial[t].phase \in {"running", "reported"}
TrialInv(t) ==
  /\ trial[t].phase = "pending" => trial[t].submittedExperiments = 0
  /\ Goes(t) => /\ Counted(t) /\ OpenOrSeen(t)
                /\ IndependentRequested(t) /\ DependentRequested(t)
  /\ trial[t].phase = "reported" =>
       ~WaitingOnExperiments(t) /\ trial[t].remaining = <<>>

\* run() returns once no trial runs.
ReturnInv ==
  /\ exit # "none" => Phases("running") = {}
  /\ exit = "SUCCESS" => Phases("raised") = {}

IInv == TypesOK /\ Numbered /\ (\A t \in Trials : TrialInv(t)) /\ ReturnInv

-----------------------------------------------------------------------------
(* Sequences and counts.                                                   *)

\* The types of the constants.
LEMMA Constants ==
  /\ NumberEntities \in Nat \ {0} /\ MaxMemoized \in Nat
  /\ IndependentExperiments \in Seq(Experiments)
  /\ DependentsOf \in [Experiments -> Seq(Experiments)]
  /\ Trials \subseteq Nat
BY MeasurementsAssumption DEF Trials, Indices

\* A function on 1 .. n is a sequence.
LEMMA FunctionIsSeq ==
  ASSUME NEW S, NEW n \in Nat, NEW f \in [1 .. n -> S]
  PROVE  f \in Seq(S) /\ DOMAIN f = 1 .. n
OBVIOUS

\* What is in a sequence that grew at its end, lost its head or was joined.
LEMMA ElementsAppend ==
  ASSUME NEW S, NEW s \in Seq(S), NEW x \in S
  PROVE  /\ Append(s, x) \in Seq(S) /\ Len(Append(s, x)) = Len(s) + 1
         /\ Elements(Append(s, x)) = Elements(s) \cup {x}
<1>1. /\ Append(s, x) \in Seq(S) /\ Len(Append(s, x)) = Len(s) + 1
      /\ DOMAIN Append(s, x) = DOMAIN s \cup {Len(s) + 1}
      /\ \A k \in DOMAIN s : Append(s, x)[k] = s[k]
      /\ Append(s, x)[Len(s) + 1] = x
  OBVIOUS
<1>. QED
  BY <1>1 DEF Elements

LEMMA ElementsTail ==
  ASSUME NEW S, NEW s \in Seq(S), s # <<>>
  PROVE  /\ Head(s) \in S /\ Tail(s) \in Seq(S) /\ Len(Tail(s)) = Len(s) - 1
         /\ Head(s) = s[1] /\ 1 \in DOMAIN s
         /\ \A k \in DOMAIN Tail(s) : k + 1 \in DOMAIN s /\ Tail(s)[k] = s[k + 1]
         /\ Elements(s) = {Head(s)} \cup Elements(Tail(s))
<1>1. /\ Head(s) \in S /\ Tail(s) \in Seq(S) /\ Len(Tail(s)) = Len(s) - 1
      /\ Head(s) = s[1] /\ 1 \in DOMAIN s
      /\ \A k \in DOMAIN Tail(s) : k + 1 \in DOMAIN s /\ Tail(s)[k] = s[k + 1]
  OBVIOUS
<1>2. \A k \in DOMAIN s : k # 1 => k - 1 \in DOMAIN Tail(s) /\ s[k] = Tail(s)[k - 1]
  OBVIOUS
<1>3. ASSUME NEW x \in Elements(s)
      PROVE  x \in {Head(s)} \cup Elements(Tail(s))
  <2>1. PICK k \in DOMAIN s : x = s[k]
    BY DEF Elements
  <2>. QED
    BY <1>1, <1>2, <2>1 DEF Elements
<1>4. Elements(Tail(s)) \subseteq Elements(s) /\ Head(s) \in Elements(s)
  BY <1>1 DEF Elements
<1>. QED
  BY <1>1, <1>3, <1>4

LEMMA ElementsConcat ==
  ASSUME NEW S, NEW s \in Seq(S), NEW t \in Seq(S)
  PROVE  /\ s \o t \in Seq(S) /\ Len(s \o t) = Len(s) + Len(t)
         /\ \A k \in DOMAIN s : k \in DOMAIN (s \o t) /\ (s \o t)[k] = s[k]
         /\ \A k \in DOMAIN (s \o t) : k \notin DOMAIN s =>
              k - Len(s) \in DOMAIN t /\ (s \o t)[k] = t[k - Len(s)]
         /\ Elements(s \o t) = Elements(s) \cup Elements(t)
<1>1. /\ s \o t \in Seq(S) /\ Len(s \o t) = Len(s) + Len(t)
      /\ \A k \in DOMAIN s : k \in DOMAIN (s \o t) /\ (s \o t)[k] = s[k]
      /\ \A k \in DOMAIN t : /\ Len(s) + k \in DOMAIN (s \o t)
                             /\ (s \o t)[Len(s) + k] = t[k]
      /\ \A k \in DOMAIN (s \o t) : k \notin DOMAIN s => k - Len(s) \in DOMAIN t
  OBVIOUS
<1>2. ASSUME NEW k \in DOMAIN (s \o t), k \notin DOMAIN s
      PROVE  k - Len(s) \in DOMAIN t /\ (s \o t)[k] = t[k - Len(s)]
  <2>1. k - Len(s) \in DOMAIN t /\ Len(s) + (k - Len(s)) = k
    BY <1>1, <1>2
  <2>. QED
    BY <1>1, <2>1
<1>3. ASSUME NEW x \in Elements(s \o t)
      PROVE  x \in Elements(s) \cup Elements(t)
  <2>1. PICK k \in DOMAIN (s \o t) : x = (s \o t)[k]
    BY DEF Elements
  <2>2. CASE k \in DOMAIN s
    BY <1>1, <2>1, <2>2 DEF Elements
  <2>3. CASE k \notin DOMAIN s
    BY <1>2, <2>1, <2>3 DEF Elements
  <2>. QED
    BY <2>2, <2>3
<1>4. Elements(s) \subseteq Elements(s \o t)
  BY <1>1 DEF Elements
<1>5. ASSUME NEW x \in Elements(t)
      PROVE  x \in Elements(s \o t)
  <2>1. PICK k \in DOMAIN t : x = t[k]
    BY DEF Elements
  <2>2. Len(s) + k \in DOMAIN (s \o t) /\ (s \o t)[Len(s) + k] = x
    BY <1>1, <2>1
  <2>. QED
    BY <2>2 DEF Elements
<1>. QED
  BY <1>1, <1>2, <1>3, <1>4, <1>5

\* Where two sequences without duplicates have nothing in common, one after
\* the other has none.
LEMMA ConcatDistinct ==
  ASSUME NEW S, NEW s \in Seq(S), NEW t \in Seq(S),
         \A i, j \in DOMAIN s : s[i] = s[j] => i = j,
         \A i, j \in DOMAIN t : t[i] = t[j] => i = j,
         Elements(s) \cap Elements(t) = {}
  PROVE  \A i, j \in DOMAIN (s \o t) : (s \o t)[i] = (s \o t)[j] => i = j
<1>. SUFFICES ASSUME NEW i \in DOMAIN (s \o t), NEW j \in DOMAIN (s \o t),
                     (s \o t)[i] = (s \o t)[j]
              PROVE  i = j
  OBVIOUS
<1>1. /\ \A k \in DOMAIN s : s[k] \in Elements(s)
      /\ \A k \in DOMAIN t : t[k] \in Elements(t)
  BY DEF Elements
<1>2. i \in Nat /\ j \in Nat /\ Len(s) \in Nat
  BY ElementsConcat
<1>3. CASE i \in DOMAIN s /\ j \in DOMAIN s
  BY <1>3, ElementsConcat
<1>4. CASE i \in DOMAIN s /\ j \notin DOMAIN s
  BY <1>1, <1>4, ElementsConcat
<1>5. CASE i \notin DOMAIN s /\ j \in DOMAIN s
  BY <1>1, <1>5, ElementsConcat
<1>6. CASE i \notin DOMAIN s /\ j \notin DOMAIN s
  <2>1. i - Len(s) = j - Len(s)
    BY <1>6, ElementsConcat
  <2>. QED
    BY <1>2, <2>1
<1>. QED
  BY <1>3, <1>4, <1>5, <1>6

\* The tail of a sequence without duplicates does not hold its head.
LEMMA TailDistinct ==
  ASSUME NEW S, NEW s \in Seq(S), s # <<>>,
         \A i, j \in DOMAIN s : s[i] = s[j] => i = j
  PROVE  /\ \A i, j \in DOMAIN Tail(s) : Tail(s)[i] = Tail(s)[j] => i = j
         /\ Head(s) \notin Elements(Tail(s))
<1>1. \A k \in DOMAIN Tail(s) : k \in Nat \ {0}
  OBVIOUS
<1>2. ASSUME NEW i \in DOMAIN Tail(s), NEW j \in DOMAIN Tail(s), Tail(s)[i] = Tail(s)[j]
      PROVE  i = j
  <2>1. i + 1 = j + 1
    BY <1>2, ElementsTail
  <2>. QED
    BY <1>1, <2>1
<1>3. ASSUME NEW k \in DOMAIN Tail(s), Tail(s)[k] = Head(s)
      PROVE  FALSE
  <2>1. k + 1 = 1
    BY <1>3, ElementsTail
  <2>. QED
    BY <1>1, <2>1
<1>. QED
  BY <1>2, <1>3 DEF Elements

\* The sets that are counted are finite.
Finite ==
  \A t \in Trials, e \in Experiments :
    /\ IsFiniteSet(Numbers(t, e)) /\ Cardinality(Numbers(t, e)) \in Nat
    /\ IsFiniteSet(Collected(t, e)) /\ Cardinality(Collected(t, e)) \in Nat

LEMMA CountsAreFinite == TypesOK => Finite
<1>. SUFFICES ASSUME TypesOK, NEW t \in Trials, NEW e \in Experiments
              PROVE  /\ IsFiniteSet(Numbers(t, e)) /\ IsFiniteSet(Collected(t, e))
  BY FS_CardinalityType DEF Finite
<1>1. trial[t].submittedExperiments \in Nat
  BY DEF TypesOK, Local
<1>2. IsFiniteSet(1 .. trial[t].submittedExperiments)
  BY <1>1, FS_Interval
<1>3. IsFiniteSet(Numbers(t, e))
  BY <1>2, FS_Subset DEF Numbers
<1>4. IsFiniteSet(Collected(t, e))
  BY FS_Subset DEF TypesOK, Collected, Successes, Requests
<1>. QED
  BY <1>3, <1>4

LEMMA CountsAreFiniteNext == TypesOK' => Finite'
BY CountsAreFinite, PTL

-----------------------------------------------------------------------------
(* Requests that are made.                                                 *)

\* One call of measure_or_replay queues the requests of new and starts those
\* of started: replays, or one answer, or one request for an actuator.
Fresh(item, last, new, started) ==
  /\ measurementQueue' = measurementQueue \o new
  /\ inFlight' = inFlight \cup started
  /\ memoized' = memoized
  /\ \A r \in Elements(new) \cup started :
       /\ r.index = item.index /\ r.experiment = item.experiment
       /\ r.id \in last + 1 .. last + NumberCreated(item)
  /\ \A r, q \in Elements(new) \cup started : r.id = q.id => r = q
  /\ \A i, j \in DOMAIN new : new[i] = new[j] => i = j

LEMMA Created ==
  ASSUME MeasurementsTypeOK, NEW item \in Item, NEW last \in Nat,
         MeasureOrReplay(item, last)
  PROVE  /\ NumberCreated(item) \in Nat \ {0}
         /\ \E new \in Seq(Answered), started \in SUBSET (Request \ Answered) :
              Fresh(item, last, new, started)
<1>. DEFINE results == memoized[item.index][item.experiment]
            n == NumberCreated(item)
<1>1. results \in Nat
  BY Constants DEF MeasurementsTypeOK, Item
<1>2. n \in Nat \ {0}
  BY <1>1 DEF NumberCreated
<1>3. item.index \in Indices /\ item.experiment \in Experiments
  BY DEF Item
<1>4. measurementQueue \in Seq(Answered) /\ memoized' = memoized
  BY DEF MeasurementsTypeOK, MeasureOrReplay
<1>5. CASE Replay(item, last)
  <2>. DEFINE new == [k \in 1 .. results |-> RequestFor(item, last + k, "Success", TRUE)]
  <2>1. results > 0 /\ n = results
    BY <1>1, <1>5 DEF Replay, NumberCreated
  <2>2. \A k \in 1 .. results : /\ last + k \in Nat \ {0}
                                /\ last + k \in last + 1 .. last + n
    BY <1>1, <2>1
  <2>3. \A k \in 1 .. results : new[k] \in Answered
    BY <1>3, <2>2 DEF RequestFor, Request, Answered, Status
  <2>4. new \in Seq(Answered) /\ DOMAIN new = 1 .. results
    <3>1. new \in [1 .. results -> Answered]
      BY <2>3
    <3>. QED
      BY ONLY <1>1, <3>1, FunctionIsSeq
  <2>5. measurementQueue' = measurementQueue \o new /\ inFlight' = inFlight \cup {}
    BY <1>5 DEF Replay
  <2>6. \A r \in Elements(new) : \E k \in 1 .. results :
          /\ r = new[k] /\ r.id = last + k
          /\ r.index = item.index /\ r.experiment = item.experiment
    BY DEF Elements, RequestFor
  <2>7. \A k \in 1 .. results : new[k].id = last + k
    BY DEF RequestFor
  <2>. HIDE DEF new, results, n
  <2>8. \A r \in Elements(new) \cup {} :
          /\ r.index = item.index /\ r.experiment = item.experiment
          /\ r.id \in last + 1 .. last + n
    BY <2>2, <2>6
  <2>9. \A i, j \in 1 .. results : last + i = last + j => i = j
    BY <1>1
  <2>10. \A r, q \in Elements(new) \cup {} : r.id = q.id => r = q
    BY <2>6, <2>9
  <2>11. \A i, j \in DOMAIN new : new[i] = new[j] => i = j
    BY <2>4, <2>7, <2>9
  <2>12. Fresh(item, last, new, {})
    BY <1>4, <2>5, <2>8, <2>10, <2>11 DEF Fresh, n
  <2>. QED
    BY <1>2, <2>4, <2>12 DEF n
<1>6. CASE SubmitExternal(item, last)
  <2>. DEFINE request == RequestFor(item, last + 1, "Failed", FALSE)
  <2>1. request \in Answered
    BY <1>3 DEF RequestFor, Request, Answered, Status
  <2>2. /\ request.index = item.index /\ request.experiment = item.experiment
        /\ request.id = last + 1
    BY DEF RequestFor
  <2>3. measurementQueue' = Append(measurementQueue, request) /\ inFlight' = inFlight \cup {}
    BY <1>6 DEF SubmitExternal
  <2>. HIDE DEF request
  <2>4. /\ <<request>> \in Seq(Answered) /\ DOMAIN <<request>> = {1}
        /\ measurementQueue' = measurementQueue \o <<request>>
    BY <1>4, <2>1, <2>3
  <2>5. Elements(<<request>>) = {request}
    BY <2>4 DEF Elements
  <2>6. last + 1 \in last + 1 .. last + n
    BY <1>2
  <2>7. Fresh(item, last, <<request>>, {})
    BY <1>4, <2>2, <2>3, <2>4, <2>5, <2>6 DEF Fresh
  <2>. QED
    BY <1>2, <2>4, <2>7
<1>7. CASE SubmitToActuator(item, last)
  <2>. DEFINE request == RequestFor(item, last + 1, "Unknown", FALSE)
  <2>1. request \in Request \ Answered
    BY <1>3 DEF RequestFor, Request, Answered, Status
  <2>2. /\ request.index = item.index /\ request.experiment = item.experiment
        /\ request.id = last + 1
    BY DEF RequestFor
  <2>3. measurementQueue' = measurementQueue /\ inFlight' = inFlight \cup {request}
    BY <1>7 DEF SubmitToActuator
  <2>. HIDE DEF request
  <2>4. /\ <<>> \in Seq(Answered) /\ DOMAIN <<>> = {}
        /\ measurementQueue' = measurementQueue \o <<>>
    BY <1>4, <2>3
  <2>5. Elements(<<>>) = {}
    BY <2>4 DEF Elements
  <2>6. last + 1 \in last + 1 .. last + n
    BY <1>2
  <2>7. Fresh(item, last, <<>>, {request})
    BY <1>4, <2>2, <2>3, <2>4, <2>5, <2>6 DEF Fresh
  <2>. QED
    BY <1>2, <2>1, <2>4, <2>7
<1>. QED
  BY <1>5, <1>6, <1>7 DEF MeasureOrReplay

-----------------------------------------------------------------------------
(* What a step of somebody else leaves to a trial.                         *)

\* The types of the requests on the way.
LEMMA MadeTypes ==
  ASSUME TypesOK
  PROVE  /\ inFlight \subseteq Request \ Answered
         /\ measurementQueue \in Seq(Answered) /\ stored \in Seq(Answered)
         /\ Elements(measurementQueue) \subseteq Answered
         /\ Elements(stored) \subseteq Answered
         /\ Answered \subseteq Request
         /\ Made \subseteq Request
         /\ seen[Operator] \subseteq Made
<1>1. /\ inFlight \subseteq Request \ Answered
      /\ measurementQueue \in Seq(Answered) /\ stored \in Seq(Answered)
  BY DEF TypesOK, MeasurementsTypeOK
<1>2. /\ Elements(measurementQueue) \subseteq Answered
      /\ Elements(stored) \subseteq Answered
  BY <1>1 DEF Elements
<1>. QED
  BY <1>1, <1>2 DEF Answered, Made, TypesOK

\* The requests of a trial are those they were, or one was lost: its numbers
\* stay, and so does what is known of the trial.
LEMMA TrialKept ==
  ASSUME TypesOK, TypesOK', NEW t \in Trials, TrialInv(t),
         trial'[t] = trial[t], seen' = seen,
         \A r \in Made' : r.index = t =>
           \E q \in Made : q.index = t /\ q.id = r.id /\ q.experiment = r.experiment
  PROVE  TrialInv(t)'
<1>1. \A e : Numbers(t, e) \subseteq Numbers(t, e)'
  BY DEF Numbers
<1>2. /\ Counted(t) => Counted(t)'
      /\ OpenOrSeen(t) => OpenOrSeen(t)'
      /\ \A e : Due(t, e)' <=> Due(t, e)
      /\ \A e : Collected(t, e)' = Collected(t, e)
  BY DEF Counted, Checking, Waiting, New, OpenOrSeen, Open, Due, Collected, Successes, Requests
<1>3. IndependentRequested(t) => IndependentRequested(t)'
  BY <1>1, <1>2 DEF IndependentRequested
<1>4. DependentRequested(t) => DependentRequested(t)'
  <2>. SUFFICES ASSUME DependentRequested(t), NEW e \in Experiments,
                       NEW k \in DOMAIN DependentsOf[e]
                PROVE  Cardinality(Collected(t, e)') <=
                         Cardinality(Numbers(t, DependentsOf[e][k])')
                           + (IF Due(t, DependentsOf[e][k])' THEN 1 ELSE 0)
    BY DEF DependentRequested
  <2>. DEFINE d == DependentsOf[e][k]
  <2>1. d \in Experiments
    BY Constants
  <2>2. Cardinality(Collected(t, e)) <= Cardinality(Numbers(t, d)) + (IF Due(t, d) THEN 1 ELSE 0)
    BY DEF DependentRequested
  <2>3. Cardinality(Numbers(t, d)) <= Cardinality(Numbers(t, d)')
    BY <1>1, <2>1, CountsAreFiniteNext, FS_Subset DEF Finite
  <2>4. /\ Cardinality(Numbers(t, d)) \in Nat /\ Cardinality(Numbers(t, d)') \in Nat
        /\ Cardinality(Collected(t, e)) \in Nat
    BY <2>1, CountsAreFinite, CountsAreFiniteNext DEF Finite
  <2>. HIDE DEF d
  <2>5. Cardinality(Collected(t, e)') <=
          Cardinality(Numbers(t, d)') + (IF Due(t, d)' THEN 1 ELSE 0)
    BY <1>2, <2>2, <2>3, <2>4
  <2>. QED
    BY <2>5 DEF d
<1>. QED
  BY <1>2, <1>3, <1>4 DEF TrialInv, Goes, WaitingOnExperiments

\* A step that makes and moves no requests.
LEMMA SameRequests ==
  ASSUME TypesOK, Numbered, UNCHANGED <<measurementVars, stored, seen>>,
         trial' \in [Trials -> Local],
         \A t \in Trials :
           trial'[t].submittedExperiments = trial[t].submittedExperiments
  PROVE  TypesOK' /\ Numbered' /\ Made' = Made
<1>1. UNCHANGED <<memoized, inFlight, measurementQueue, stored, seen>>
  BY DEF measurementVars
<1>2. /\ Elements(measurementQueue)' = Elements(measurementQueue)
      /\ Elements(stored)' = Elements(stored) /\ Made' = Made
  BY <1>1 DEF Elements, Made
<1>3. TypesOK'
  BY <1>1, <1>2 DEF TypesOK, MeasurementsTypeOK
<1>4. \A r \in Made : r.index \in Trials
  BY MadeTypes DEF Request, Trials
<1>5. \A r \in Made' : r.id <= trial'[r.index].submittedExperiments
  BY <1>2, <1>4 DEF Numbered
<1>. QED
  BY <1>1, <1>2, <1>3, <1>5 DEF Numbered

-----------------------------------------------------------------------------
(* The manager, the operator's callbacks, and the actuators.               *)

\* A step of these leaves the trials alone.
LEMMA OutsideStep ==
  ASSUME IInv, TypesOK', Numbered', UNCHANGED <<trial, exit>>,
         \A t \in Trials : TrialInv(t)'
  PROVE  IInv'
<1>1. ReturnInv'
  BY DEF IInv, ReturnInv, Phases
<1>. QED
  BY <1>1 DEF IInv

\* The head of the queue is stored, or lost.
LEMMA StoreStep ==
  ASSUME IInv, ManagerStores \/ ManagerFails
  PROVE  IInv'
<1>. DEFINE head == Head(measurementQueue)
<1>1. /\ measurementQueue # <<>> /\ measurementQueue' = Tail(measurementQueue)
      /\ stored' = Append(stored, head) \/ stored' = stored
      /\ seen' = seen
      /\ UNCHANGED <<memoized, inFlight, trial, exit>>
  BY DEF ManagerStores, ManagerFails, Manager!Store, Manager!Fail, Unchanged
<1>2. /\ measurementQueue \in Seq(Answered) /\ stored \in Seq(Answered)
      /\ Elements(measurementQueue) \subseteq Answered
  BY MadeTypes DEF IInv
<1>3. /\ head \in Answered /\ measurementQueue' \in Seq(Answered)
      /\ Elements(measurementQueue) = {head} \cup Elements(measurementQueue')
      /\ \A i, j \in DOMAIN measurementQueue' :
           measurementQueue'[i] = measurementQueue'[j] => i = j
      /\ head \notin Elements(measurementQueue')
  BY <1>1, <1>2, ElementsTail, TailDistinct DEF IInv, Numbered
<1>. HIDE DEF head
<1>4. /\ stored' \in Seq(Answered)
      /\ Elements(stored') \subseteq Elements(stored) \cup {head}
      /\ Elements(stored) \subseteq Elements(stored')
  <2>1. CASE stored' = Append(stored, head)
    BY ONLY <1>2, <1>3, <2>1, ElementsAppend
  <2>2. CASE stored' = stored
    BY <1>2, <2>2
  <2>. QED
    BY <1>1, <2>1, <2>2
<1>5. Made' \subseteq Made
  BY <1>1, <1>3, <1>4 DEF Made, Elements
<1>6. TypesOK'
  <2>1. MeasurementsTypeOK'
    BY <1>1, <1>3 DEF IInv, TypesOK, MeasurementsTypeOK
  <2>. QED
    BY <1>1, <1>4, <2>1 DEF IInv, TypesOK
<1>7. Numbered'
  <2>1. Elements(measurementQueue') \cap Elements(stored') = {}
    BY <1>3, <1>4 DEF IInv, Numbered
  <2>. QED
    BY <1>1, <1>3, <1>5, <2>1 DEF IInv, Numbered, Elements
<1>8. \A t \in Trials : TrialInv(t)'
  BY <1>1, <1>5, <1>6, TrialKept DEF IInv
<1>. QED
  BY <1>1, <1>6, <1>7, <1>8, OutsideStep

\* The operator learns of a request: its trial has not collected it yet.
LEMMA SeeStep ==
  ASSUME IInv, OnUpdate
  PROVE  IInv'
<1>1. PICK r \in Elements(stored) :
        /\ r \notin seen[Operator]
        /\ seen' = [seen EXCEPT ![Operator] = @ \cup {r}]
        /\ UNCHANGED <<measurementQueue, stored, memoized, inFlight, trial, exit>>
  BY DEF OnUpdate, Manager!See, Unchanged, Elements
<1>2. /\ DOMAIN seen' = {Operator} /\ seen'[Operator] = seen[Operator] \cup {r}
      /\ Elements(stored)' = Elements(stored) /\ Made' = Made
  BY <1>1 DEF IInv, TypesOK, Elements, Made
<1>3. TypesOK'
  <2>1. MeasurementsTypeOK' /\ stored' \in Seq(Answered) /\ trial' \in [Trials -> Local]
    BY <1>1 DEF IInv, TypesOK, MeasurementsTypeOK
  <2>2. IsFiniteSet(seen'[Operator]) /\ seen'[Operator] \subseteq Elements(stored)'
    BY <1>1, <1>2, FS_AddElement DEF IInv, TypesOK
  <2>. QED
    BY <1>2, <2>1, <2>2 DEF TypesOK
<1>4. Numbered'
  BY <1>1, <1>2 DEF IInv, Numbered
<1>5. ASSUME NEW t \in Trials
      PROVE  TrialInv(t)'
  <2>1. TrialInv(t) /\ trial'[t] = trial[t] /\ Open(t)' = Open(t)
    BY <1>1 DEF IInv, Open
  <2>2. \A e : Numbers(t, e)' = Numbers(t, e) /\ (Due(t, e)' <=> Due(t, e))
    BY <1>1, <1>2 DEF Numbers, Due
  <2>3. ASSUME Goes(t), r.index = t
        PROVE  r.id \in Open(t)
    <3>1. r \in Made /\ r \in Request /\ seen[Operator] \subseteq Made
      BY MadeTypes DEF IInv, Made
    <3>2. trial[t].submittedExperiments \in Nat
      BY DEF IInv, TypesOK, Local
    <3>3. r.id \in 1 .. trial[t].submittedExperiments
      BY <2>3, <3>1, <3>2 DEF IInv, Numbered, Request
    <3>4. \A q \in seen[Operator] : ~(q.index = t /\ q.id = r.id)
      BY <1>1, <2>3, <3>1 DEF IInv, Numbered
    <3>. QED
      BY <2>1, <2>3, <3>3, <3>4 DEF TrialInv, OpenOrSeen
  <2>4. ASSUME Goes(t)
        PROVE  \A e : Collected(t, e)' = Collected(t, e)
    BY <1>2, <2>1, <2>3, <2>4 DEF Collected, Successes, Requests
  <2>5. OpenOrSeen(t) => OpenOrSeen(t)'
    BY <1>2, <2>1 DEF OpenOrSeen
  <2>6. Goes(t) => /\ DependentRequested(t) => DependentRequested(t)'
                   /\ IndependentRequested(t) => IndependentRequested(t)'
    BY <2>2, <2>4 DEF DependentRequested, IndependentRequested
  <2>7. Counted(t)' <=> Counted(t)
    BY <2>1 DEF Counted, Checking, Waiting, New
  <2>. QED
    BY <2>1, <2>5, <2>6, <2>7 DEF TrialInv, Goes, WaitingOnExperiments
<1>. QED
  BY <1>1, <1>3, <1>4, <1>5, OutsideStep

\* An actuator's answer has the number of the request it answers.
LEMMA AnswerStep ==
  ASSUME IInv, ActuatorAnswers
  PROVE  IInv'
<1>1. PICK request \in inFlight : ActuatorCompletes(request)
  BY DEF ActuatorAnswers
<1>2. PICK status \in {"Success", "Failed"} :
        measurementQueue' = Append(measurementQueue, [request EXCEPT !.status = status])
  BY <1>1 DEF ActuatorCompletes
<1>. DEFINE answer == [request EXCEPT !.status = status]
<1>3. /\ request \in Request \ Answered /\ request \in Made
      /\ measurementQueue \in Seq(Answered)
      /\ inFlight \subseteq Request \ Answered
      /\ Elements(measurementQueue) \subseteq Answered
      /\ Elements(stored) \subseteq Answered
  BY MadeTypes DEF IInv, Made
<1>4. /\ answer \in Answered /\ answer.id = request.id /\ answer.index = request.index
      /\ answer.experiment = request.experiment
  BY <1>3 DEF Request, Answered, Status
<1>5. /\ measurementQueue' = Append(measurementQueue, answer)
      /\ inFlight' = inFlight \ {request}
      /\ UNCHANGED <<memoized, stored, seen, trial, exit>>
  BY <1>1, <1>2 DEF ActuatorCompletes, ActuatorAnswers, managerVars
<1>. HIDE DEF answer
<1>6. /\ measurementQueue' \in Seq(Answered)
      /\ Elements(measurementQueue') = Elements(measurementQueue) \cup {answer}
  BY <1>3, <1>4, <1>5, ElementsAppend
<1>7. Elements(stored)' = Elements(stored)
  BY <1>5 DEF Elements
<1>8. Made' = (Made \ {request}) \cup {answer}
  <2>1. request \notin Elements(measurementQueue) \cup Elements(stored)
    BY <1>3
  <2>. QED
    BY <1>5, <1>6, <1>7, <2>1 DEF Made, Elements
<1>9. answer \notin Made
  BY <1>3, <1>4 DEF IInv, Numbered
<1>10. TypesOK'
  <2>1. MeasurementsTypeOK'
    BY <1>5, <1>6 DEF IInv, TypesOK, MeasurementsTypeOK
  <2>. QED
    BY <1>5, <1>7, <2>1 DEF IInv, TypesOK
<1>11. Numbered'
  <2>1. \A r \in Made' : r.id <= trial'[r.index].submittedExperiments
    BY <1>3, <1>4, <1>5, <1>8 DEF IInv, Numbered
  <2>2. \A r, q \in Made' : r.index = q.index /\ r.id = q.id => r = q
    BY <1>3, <1>4, <1>8 DEF IInv, Numbered
  <2>3. \A i, j \in DOMAIN measurementQueue' :
          measurementQueue'[i] = measurementQueue'[j] => i = j
    <3>1. \A k \in DOMAIN measurementQueue : measurementQueue[k] # answer
      BY <1>9 DEF Made, Elements
    <3>2. /\ DOMAIN measurementQueue' = DOMAIN measurementQueue \cup {Len(measurementQueue) + 1}
          /\ \A k \in DOMAIN measurementQueue : measurementQueue'[k] = measurementQueue[k]
          /\ measurementQueue'[Len(measurementQueue) + 1] = answer
      BY <1>3, <1>4, <1>5
    <3>. QED
      BY <3>1, <3>2 DEF IInv, Numbered
  <2>4. Elements(measurementQueue') \cap Elements(stored') = {}
    BY <1>6, <1>7, <1>9 DEF IInv, Numbered, Made, Elements
  <2>. QED
    BY <2>1, <2>2, <2>3, <2>4 DEF Numbered, Elements
<1>12. \A t \in Trials : TrialInv(t)'
  <2>1. \A r \in Made' : \E q \in Made :
          q.index = r.index /\ q.id = r.id /\ q.experiment = r.experiment
    BY <1>3, <1>4, <1>8
  <2>. QED
    BY <1>5, <1>10, <2>1, TrialKept DEF IInv
<1>. QED
  BY <1>5, <1>10, <1>11, <1>12, OutsideStep

\* onError and what the manager does besides.
LEMMA ManagerInv ==
  ASSUME IInv, ManagerStep
  PROVE  IInv'
<1>1. CASE OnError
  <2>1. /\ UNCHANGED <<measurementVars, stored, seen, trial, exit>>
        /\ trial' \in [Trials -> Local]
    BY <1>1 DEF OnError, Unchanged, measurementVars, IInv, TypesOK
  <2>2. TypesOK' /\ Numbered' /\ Made' = Made
    BY <2>1, SameRequests DEF IInv
  <2>3. \A t \in Trials : TrialInv(t)'
    BY <2>1, <2>2, TrialKept DEF IInv
  <2>. QED
    BY <2>1, <2>2, <2>3, OutsideStep
<1>. QED
  BY <1>1, StoreStep, SeeStep DEF ManagerStep

-----------------------------------------------------------------------------
(* The steps of a trial that make no request.                              *)

\* A trial that runs, or may start, does so before run() returns.
LEMMA RunsBeforeReturn ==
  ASSUME IInv, NEW t \in Trials, Running(t) \/ MayStart(t)
  PROVE  exit = "none"
BY DEF IInv, ReturnInv, Phases, Running, MayStart

\* What such a step leaves to show.
LEMMA LocalStep ==
  ASSUME IInv, NEW t \in Trials, NEW local \in Local, Only(t, local),
         UNCHANGED measurementVars, exit = "none",
         local.submittedExperiments = trial[t].submittedExperiments
  PROVE  /\ TypesOK' /\ Numbered' /\ Made' = Made /\ seen' = seen
         /\ trial'[t] = local
         /\ TrialInv(t)' => IInv'
<1>1. /\ trial' = [trial EXCEPT ![t] = local] /\ trial \in [Trials -> Local]
      /\ UNCHANGED <<stored, seen, exit>>
  BY DEF Only, managerVars, IInv, TypesOK
<1>2. trial' \in [Trials -> Local] /\ trial'[t] = local
  BY <1>1
<1>3. \A u \in Trials : trial'[u].submittedExperiments = trial[u].submittedExperiments
  BY <1>1
<1>4. TypesOK' /\ Numbered' /\ Made' = Made
  BY <1>1, <1>2, <1>3, SameRequests DEF IInv
<1>5. \A u \in Trials \ {t} : TrialInv(u)'
  <2>. SUFFICES ASSUME NEW u \in Trials, u # t PROVE TrialInv(u)'
    OBVIOUS
  <2>1. trial'[u] = trial[u]
    BY <1>1
  <2>. QED
    BY <1>1, <1>4, <2>1, TrialKept DEF IInv
<1>6. ReturnInv'
  BY <1>1 DEF ReturnInv
<1>. QED
  BY <1>1, <1>2, <1>4, <1>5, <1>6 DEF IInv

\* What a trial has not collected, and the counters, stay as they are where
\* its lists together hold what they held.
LEMMA SameWork ==
  ASSUME IInv, NEW t \in Trials, Goes(t), TypesOK', Made' = Made, seen' = seen,
         Open(t)' = Open(t), Counted(t)',
         trial'[t].phase \in {"running", "reported"},
         trial'[t].remaining = trial[t].remaining,
         trial'[t].submittedExperiments = trial[t].submittedExperiments,
         trial'[t].phase = "reported" =>
           ~WaitingOnExperiments(t)' /\ trial'[t].remaining = <<>>
  PROVE  TrialInv(t)'
<1>1. /\ Counted(t) /\ OpenOrSeen(t) /\ IndependentRequested(t) /\ DependentRequested(t)
  BY DEF IInv, TrialInv
<1>2. /\ \A e : Numbers(t, e)' = Numbers(t, e)
      /\ \A e : Due(t, e)' <=> Due(t, e)
      /\ \A e : Collected(t, e)' = Collected(t, e)
  BY DEF Numbers, Due, Collected, Successes, Requests
<1>3. OpenOrSeen(t)'
  BY <1>1 DEF OpenOrSeen
<1>4. IndependentRequested(t)' /\ DependentRequested(t)'
  BY <1>1, <1>2 DEF IndependentRequested, DependentRequested
<1>. QED
  BY <1>3, <1>4 DEF TrialInv

\* Leaving the trial because of an error.
LEMMA RaiseStep ==
  ASSUME IInv, NEW t \in Trials, Raise(t), Running(t) \/ MayStart(t)
  PROVE  IInv'
<1>. DEFINE local == Ended(t, "raised")
<1>1. trial[t] \in Local
  BY DEF IInv, TypesOK
<1>2. /\ local \in Local /\ local.phase = "raised"
      /\ local.submittedExperiments = trial[t].submittedExperiments
  <2>1. <<>> \in Seq(Experiments) /\ <<>> \in Seq(Nat)
    OBVIOUS
  <2>. QED
    BY <1>1, <2>1 DEF Ended, Idle, Local
<1>3. Only(t, local) /\ UNCHANGED measurementVars
  BY DEF Raise
<1>. HIDE DEF local
<1>4. trial'[t] = local /\ (TrialInv(t)' => IInv')
  BY <1>2, <1>3, RunsBeforeReturn, LocalStep
<1>5. TrialInv(t)'
  BY <1>2, <1>4 DEF TrialInv, Goes
<1>. QED
  BY <1>4, <1>5

\* At its start a trial has requested nothing, and all independent experiments
\* are due.
LEMMA StartStep ==
  ASSUME IInv, NEW t \in Trials, StartTrial(t)
  PROVE  IInv'
<1>. DEFINE local == [Idle EXCEPT !.phase = "running", !.remaining = IndependentExperiments]
<1>1. /\ local \in Local /\ local.phase = "running"
      /\ local.remaining = IndependentExperiments
      /\ local.submittedExperiments = 0 /\ local.completedRequests = 0
      /\ local.toCheck = <<>> /\ local.waitingRequestIds = <<>> /\ local.newRequests = <<>>
  <2>1. <<>> \in Seq(Experiments) /\ <<>> \in Seq(Nat)
    OBVIOUS
  <2>. QED
    BY <2>1, Constants DEF Idle, Local
<1>2. MayStart(t) /\ Only(t, local) /\ UNCHANGED measurementVars
  BY DEF StartTrial
<1>3. trial[t].submittedExperiments = 0
  BY <1>2 DEF MayStart, IInv, TrialInv
<1>. HIDE DEF local
<1>4. /\ TypesOK' /\ Made' = Made /\ seen' = seen /\ trial'[t] = local
      /\ TrialInv(t)' => IInv'
  BY <1>1, <1>2, <1>3, RunsBeforeReturn, LocalStep
<1>5. Counted(t)'
  BY <1>1, <1>4 DEF Counted, Checking, Waiting, New
<1>6. OpenOrSeen(t)'
  BY <1>1, <1>4 DEF OpenOrSeen
<1>7. IndependentRequested(t)'
  BY <1>1, <1>4 DEF IndependentRequested, Due
<1>8. DependentRequested(t)'
  <2>. SUFFICES ASSUME NEW e \in Experiments, NEW k \in DOMAIN DependentsOf[e]
                PROVE  Cardinality(Collected(t, e)') <=
                         Cardinality(Numbers(t, DependentsOf[e][k])')
                           + (IF Due(t, DependentsOf[e][k])' THEN 1 ELSE 0)
    BY DEF DependentRequested
  <2>. DEFINE d == DependentsOf[e][k]
  <2>1. d \in Experiments
    BY Constants
  <2>2. \A r \in Made : r.index # t
    BY <1>3, MadeTypes DEF IInv, Numbered, Request
  <2>3. Collected(t, e)' = {}
    BY <1>4, <2>2, MadeTypes DEF IInv, Collected, Successes, Requests
  <2>4. Cardinality(Collected(t, e)') = 0
    BY <2>3, FS_EmptySet
  <2>5. Cardinality(Numbers(t, d)') \in Nat
    BY <1>4, <2>1, CountsAreFiniteNext DEF Finite
  <2>. QED
    BY <2>4, <2>5
<1>9. TrialInv(t)'
  BY <1>1, <1>4, <1>5, <1>6, <1>7, <1>8 DEF TrialInv
<1>. QED
  BY <1>4, <1>9

\* The counters and the lengths of the lists are numbers.
LEMMA Lengths ==
  ASSUME NEW t \in Trials, trial[t] \in Local
  PROVE  /\ trial[t].completedRequests \in Nat /\ trial[t].submittedExperiments \in Nat
         /\ Checking(t) \in Nat /\ Waiting(t) \in Nat /\ New(t) \in Nat
<1>1. /\ trial[t].completedRequests \in Nat /\ trial[t].submittedExperiments \in Nat
      /\ trial[t].toCheck \in Seq(Nat) /\ trial[t].waitingRequestIds \in Seq(Nat)
      /\ trial[t].newRequests \in Seq(Nat)
  BY DEF Local
<1>. QED
  BY <1>1 DEF Checking, Waiting, New

LEMMA AddLast ==
  ASSUME NEW a \in Nat, NEW b \in Nat, NEW c \in Nat, NEW d \in Nat, NEW n \in Nat
  PROVE  (a + b + c + d) + n = a + b + c + (d + n)
OBVIOUS

\* An id that is looked at and not finished goes from one list to another.
LEMMA NotFinishedStep ==
  ASSUME IInv, NEW t \in Trials, NotFinished(t)
  PROVE  IInv'
<1>. DEFINE toCheck == trial[t].toCheck
            waiting == trial[t].waitingRequestIds
            local == [trial[t] EXCEPT !.toCheck = Tail(@),
                        !.waitingRequestIds = Append(@, Head(toCheck))]
<1>1. /\ trial[t] \in Local /\ toCheck \in Seq(Nat) /\ waiting \in Seq(Nat)
      /\ toCheck # <<>> /\ Running(t) /\ trial[t].remaining = <<>>
      /\ Only(t, local) /\ UNCHANGED measurementVars
  BY DEF NotFinished, Checks, IInv, TypesOK, Local
<1>. HIDE DEF toCheck, waiting
<1>2. /\ Tail(toCheck) \in Seq(Nat) /\ Head(toCheck) \in Nat
      /\ Len(Tail(toCheck)) = Len(toCheck) - 1
      /\ Elements(toCheck) = {Head(toCheck)} \cup Elements(Tail(toCheck))
  BY <1>1, ElementsTail
<1>3. /\ Append(waiting, Head(toCheck)) \in Seq(Nat)
      /\ Len(Append(waiting, Head(toCheck))) = Len(waiting) + 1
      /\ Elements(Append(waiting, Head(toCheck))) = Elements(waiting) \cup {Head(toCheck)}
  BY <1>1, <1>2, ElementsAppend
<1>4. /\ local \in Local /\ local.phase = trial[t].phase
      /\ local.submittedExperiments = trial[t].submittedExperiments
      /\ local.completedRequests = trial[t].completedRequests
      /\ local.remaining = trial[t].remaining
      /\ local.toCheck = Tail(toCheck)
      /\ local.waitingRequestIds = Append(waiting, Head(toCheck))
      /\ local.newRequests = trial[t].newRequests
  BY <1>1, <1>2, <1>3 DEF Local, toCheck, waiting
<1>. HIDE DEF local
<1>5. /\ TypesOK' /\ Made' = Made /\ seen' = seen /\ trial'[t] = local
      /\ TrialInv(t)' => IInv'
  BY <1>1, <1>4, RunsBeforeReturn, LocalStep
<1>6. Open(t)' = Open(t)
  BY <1>2, <1>3, <1>4, <1>5 DEF Open, toCheck, waiting
<1>7. Counted(t)'
  <2>1. Counted(t)
    BY <1>1 DEF IInv, TrialInv, Goes, Running
  <2>2. /\ Checking(t)' = Checking(t) - 1 /\ Waiting(t)' = Waiting(t) + 1
        /\ New(t)' = New(t)
    BY <1>2, <1>3, <1>4, <1>5 DEF Checking, Waiting, New, toCheck, waiting
  <2>3. /\ trial'[t].completedRequests = trial[t].completedRequests
        /\ trial'[t].submittedExperiments = trial[t].submittedExperiments
    BY <1>4, <1>5
  <2>4. /\ trial[t].completedRequests \in Nat /\ Checking(t) \in Nat
        /\ Waiting(t) \in Nat /\ New(t) \in Nat
    BY <1>1, Lengths
  <2>. QED
    BY ONLY <2>1, <2>2, <2>3, <2>4 DEF Counted
<1>8. TrialInv(t)'
  BY <1>1, <1>4, <1>5, <1>6, <1>7, SameWork DEF Running, Goes
<1>. QED
  BY <1>5, <1>8

\* A new turn looks at all ids that are open.
LEMMA NextTurnStep ==
  ASSUME IInv, NEW t \in Trials, NextTurn(t)
  PROVE  IInv'
<1>. DEFINE waiting == trial[t].waitingRequestIds
            new == trial[t].newRequests
            local == [trial[t] EXCEPT !.toCheck = waiting \o new,
                        !.waitingRequestIds = <<>>, !.newRequests = <<>>]
<1>1. /\ trial[t] \in Local /\ waiting \in Seq(Nat) /\ new \in Seq(Nat)
      /\ trial[t].toCheck = <<>> /\ Running(t) /\ trial[t].remaining = <<>>
      /\ Only(t, local) /\ UNCHANGED measurementVars
  BY DEF NextTurn, EndOfTurn, IInv, TypesOK, Local
<1>. HIDE DEF waiting, new
<1>2. /\ waiting \o new \in Seq(Nat) /\ Len(waiting \o new) = Len(waiting) + Len(new)
      /\ Elements(waiting \o new) = Elements(waiting) \cup Elements(new)
  BY <1>1, ElementsConcat
<1>3. <<>> \in Seq(Nat) /\ Len(<<>>) = 0 /\ Elements(<<>>) = {}
  BY DEF Elements
<1>4. /\ local \in Local /\ local.phase = trial[t].phase
      /\ local.submittedExperiments = trial[t].submittedExperiments
      /\ local.completedRequests = trial[t].completedRequests
      /\ local.remaining = trial[t].remaining
      /\ local.toCheck = waiting \o new
      /\ local.waitingRequestIds = <<>> /\ local.newRequests = <<>>
  BY <1>1, <1>2, <1>3 DEF Local, waiting, new
<1>. HIDE DEF local
<1>5. /\ TypesOK' /\ Made' = Made /\ seen' = seen /\ trial'[t] = local
      /\ TrialInv(t)' => IInv'
  BY <1>1, <1>4, RunsBeforeReturn, LocalStep
<1>6. Open(t)' = Open(t)
  BY <1>1, <1>2, <1>3, <1>4, <1>5 DEF Open, waiting, new
<1>7. Counted(t)'
  <2>1. Counted(t)
    BY <1>1 DEF IInv, TrialInv, Goes, Running
  <2>2. /\ Checking(t)' = Waiting(t) + New(t) /\ Checking(t) = 0
        /\ Waiting(t)' = 0 /\ New(t)' = 0
    BY <1>1, <1>2, <1>3, <1>4, <1>5 DEF Checking, Waiting, New, waiting, new
  <2>. QED
    BY <1>1, <1>4, <1>5, <2>1, <2>2, Lengths DEF Counted
<1>8. TrialInv(t)'
  BY <1>1, <1>4, <1>5, <1>6, <1>7, SameWork DEF Running, Goes
<1>. QED
  BY <1>5, <1>8

\* A trial reports at the end of a turn.
LEMMA ReportStep ==
  ASSUME IInv, NEW t \in Trials, Report(t)
  PROVE  IInv'
<1>. DEFINE local == [trial[t] EXCEPT !.phase = "reported"]
<1>1. /\ trial[t] \in Local /\ Running(t) /\ trial[t].remaining = <<>>
      /\ ~WaitingOnExperiments(t)
      /\ Only(t, local) /\ UNCHANGED measurementVars
  BY DEF Report, EndOfTurn, IInv, TypesOK
<1>2. /\ local \in Local /\ local.phase = "reported"
      /\ local.submittedExperiments = trial[t].submittedExperiments
      /\ local.completedRequests = trial[t].completedRequests
      /\ local.remaining = trial[t].remaining
      /\ local.toCheck = trial[t].toCheck
      /\ local.waitingRequestIds = trial[t].waitingRequestIds
      /\ local.newRequests = trial[t].newRequests
  BY <1>1 DEF Local
<1>. HIDE DEF local
<1>3. /\ TypesOK' /\ Made' = Made /\ seen' = seen /\ trial'[t] = local
      /\ TrialInv(t)' => IInv'
  BY <1>1, <1>2, RunsBeforeReturn, LocalStep
<1>4. Open(t)' = Open(t)
  BY <1>2, <1>3 DEF Open
<1>5. Counted(t)'
  <2>1. Counted(t)
    BY <1>1 DEF IInv, TrialInv, Goes, Running
  <2>. QED
    BY <1>2, <1>3, <2>1 DEF Counted, Checking, Waiting, New
<1>6. ~WaitingOnExperiments(t)'
  BY <1>1, <1>2, <1>3 DEF WaitingOnExperiments
<1>7. TrialInv(t)'
  BY <1>1, <1>2, <1>3, <1>4, <1>5, <1>6, SameWork DEF Running, Goes
<1>. QED
  BY <1>3, <1>7

-----------------------------------------------------------------------------
(* A trial requests an experiment.                                         *)

\* What a call of measure_or_replay does: it makes n requests, those of new
\* answered already, and numbers them after the trial's last one.
SubmitsWith(t, n, new, started) ==
  LET last == trial[t].submittedExperiments
      asked == Elements(new) \cup started
  IN  /\ measurementQueue' = measurementQueue \o new
      /\ inFlight' = inFlight \cup started
      /\ UNCHANGED <<memoized, stored, seen, exit>>
      /\ \A r \in asked : /\ r.index = t /\ r.experiment = Head(trial[t].remaining)
                          /\ r.id \in last + 1 .. last + n
      /\ \A r, q \in asked : r.id = q.id => r = q
      /\ \A i, j \in DOMAIN new : new[i] = new[j] => i = j
      /\ trial' \in [Trials -> Local]
      /\ \A u \in Trials \ {t} : trial'[u] = trial[u]
      /\ trial[t].phase = "running" /\ trial'[t].phase = "running"
      /\ trial[t].remaining # <<>>
      /\ trial'[t].remaining = Tail(trial[t].remaining)
      /\ trial'[t].toCheck = trial[t].toCheck
      /\ trial'[t].waitingRequestIds = trial[t].waitingRequestIds
      /\ Elements(trial'[t].newRequests) =
           Elements(trial[t].newRequests) \cup (last + 1 .. last + n)
      /\ New(t)' = New(t) + n
      /\ trial'[t].completedRequests = trial[t].completedRequests
      /\ trial'[t].submittedExperiments = last + n

LEMMA SubmitFacts ==
  ASSUME IInv, NEW t \in Trials, Submit(t)
  PROVE  \E n \in Nat \ {0}, new \in Seq(Answered), started \in SUBSET (Request \ Answered) :
           SubmitsWith(t, n, new, started)
<1>. DEFINE item == NextItem(t)
            last == trial[t].submittedExperiments
            n == NumberCreated(item)
            ids == [k \in 1 .. n |-> last + k]
            local == [trial[t] EXCEPT !.remaining = Tail(@), !.newRequests = @ \o ids,
                                      !.submittedExperiments = last + n]
<1>1. /\ trial[t] \in Local /\ trial \in [Trials -> Local] /\ MeasurementsTypeOK
      /\ Running(t) /\ trial[t].remaining # <<>>
      /\ MeasureOrReplay(item, last) /\ Only(t, local)
  BY DEF Submit, IInv, TypesOK
<1>2. /\ Head(trial[t].remaining) \in Experiments
      /\ Tail(trial[t].remaining) \in Seq(Experiments)
      /\ trial[t].newRequests \in Seq(Nat) /\ last \in Nat
  BY <1>1, ElementsTail DEF Local
<1>3. item \in Item /\ item.index = t /\ item.experiment = Head(trial[t].remaining)
  BY <1>2 DEF NextItem, Item, Trials
<1>. HIDE DEF item, last
<1>4. n \in Nat \ {0}
  BY <1>1, <1>2, <1>3, Created
<1>5. PICK new \in Seq(Answered), started \in SUBSET (Request \ Answered) :
        Fresh(item, last, new, started)
  BY <1>1, <1>2, <1>3, Created
<1>. HIDE DEF n
<1>6. ids \in Seq(Nat) /\ Len(ids) = n /\ Elements(ids) = last + 1 .. last + n
  <2>1. ids \in [1 .. n -> Nat] /\ DOMAIN ids = 1 .. n
    BY <1>2, <1>4
  <2>2. ids \in Seq(Nat) /\ Len(ids) = n
    BY <1>4, <2>1, FunctionIsSeq
  <2>3. ASSUME NEW id \in last + 1 .. last + n
        PROVE  id \in Elements(ids)
    <3>1. id - last \in 1 .. n /\ last + (id - last) = id
      BY <1>2, <1>4
    <3>2. ids[id - last] = id
      BY <3>1
    <3>. QED
      BY <2>1, <3>1, <3>2 DEF Elements
  <2>4. Elements(ids) \subseteq last + 1 .. last + n
    BY <1>2, <1>4, <2>1 DEF Elements
  <2>. QED
    BY <2>2, <2>3, <2>4
<1>. HIDE DEF ids
<1>7. /\ trial[t].newRequests \o ids \in Seq(Nat)
      /\ Len(trial[t].newRequests \o ids) = Len(trial[t].newRequests) + n
      /\ Elements(trial[t].newRequests \o ids) =
           Elements(trial[t].newRequests) \cup (last + 1 .. last + n)
  <2>1. trial[t].newRequests \in Seq(Nat) /\ ids \in Seq(Nat)
    BY <1>2, <1>6
  <2>2. /\ trial[t].newRequests \o ids \in Seq(Nat)
        /\ Len(trial[t].newRequests \o ids) = Len(trial[t].newRequests) + Len(ids)
        /\ Elements(trial[t].newRequests \o ids) =
             Elements(trial[t].newRequests) \cup Elements(ids)
    BY ONLY <2>1, ElementsConcat
  <2>. QED
    BY <1>6, <2>2
<1>8. last + n \in Nat
  BY <1>2, <1>4
<1>9. /\ local \in Local /\ local.phase = trial[t].phase
      /\ local.remaining = Tail(trial[t].remaining)
      /\ local.toCheck = trial[t].toCheck
      /\ local.waitingRequestIds = trial[t].waitingRequestIds
      /\ local.newRequests = trial[t].newRequests \o ids
      /\ local.completedRequests = trial[t].completedRequests
      /\ local.submittedExperiments = last + n
  BY <1>1, <1>2, <1>7, <1>8 DEF Local
<1>. HIDE DEF local
<1>10. /\ trial' \in [Trials -> Local] /\ trial'[t] = local
       /\ \A u \in Trials \ {t} : trial'[u] = trial[u]
       /\ UNCHANGED <<stored, seen, exit>>
  BY <1>1, <1>9 DEF Only, managerVars
<1>11. New(t)' = New(t) + n
  BY <1>7, <1>9, <1>10 DEF New
<1>12. SubmitsWith(t, n, new, started)
  <2>1. /\ measurementQueue' = measurementQueue \o new
        /\ inFlight' = inFlight \cup started /\ memoized' = memoized
        /\ \A r \in Elements(new) \cup started :
             /\ r.index = t /\ r.experiment = Head(trial[t].remaining)
             /\ r.id \in last + 1 .. last + n
        /\ \A r, q \in Elements(new) \cup started : r.id = q.id => r = q
        /\ \A i, j \in DOMAIN new : new[i] = new[j] => i = j
    BY <1>3, <1>5 DEF Fresh, n
  <2>2. trial[t].phase = "running" /\ trial[t].remaining # <<>>
    BY <1>1 DEF Running
  <2>. QED
    BY <1>7, <1>9, <1>10, <1>11, <2>1, <2>2 DEF SubmitsWith, last
<1>. QED
  BY <1>4, <1>12

\* The new requests are the trial's, and have numbers of their own.
LEMMA SubmitNumbers ==
  ASSUME IInv, NEW t \in Trials, NEW n \in Nat \ {0}, NEW new \in Seq(Answered),
         NEW started \in SUBSET (Request \ Answered), SubmitsWith(t, n, new, started)
  PROVE  /\ TypesOK' /\ Numbered'
         /\ Made' = Made \cup Elements(new) \cup started
         /\ \A r \in Made : r.index = t => r.id <= trial[t].submittedExperiments
<1>. DEFINE last == trial[t].submittedExperiments
            asked == Elements(new) \cup started
<1>1. /\ measurementQueue \in Seq(Answered) /\ stored \in Seq(Answered)
      /\ inFlight \subseteq Request \ Answered /\ Made \subseteq Request
      /\ last \in Nat
  BY MadeTypes DEF IInv, TypesOK, Local
<1>2. /\ measurementQueue' \in Seq(Answered)
      /\ Elements(measurementQueue') = Elements(measurementQueue) \cup Elements(new)
  BY <1>1, ElementsConcat DEF SubmitsWith
<1>3. /\ Elements(stored)' = Elements(stored)
      /\ Elements(measurementQueue)' = Elements(measurementQueue')
  BY DEF SubmitsWith, Elements
<1>4. Made' = Made \cup asked
  BY <1>2, <1>3 DEF Made, SubmitsWith
<1>5. TypesOK'
  <2>1. MeasurementsTypeOK'
    BY <1>1, <1>2 DEF SubmitsWith, IInv, TypesOK, MeasurementsTypeOK
  <2>. QED
    BY <1>3, <2>1 DEF SubmitsWith, IInv, TypesOK
<1>6. /\ \A r \in asked : r.index = t /\ r.id \in last + 1 .. last + n
      /\ \A r, q \in asked : r.id = q.id => r = q
      /\ trial'[t].submittedExperiments = last + n
      /\ \A u \in Trials \ {t} : trial'[u] = trial[u]
  BY DEF SubmitsWith
<1>7. /\ \A r \in Made : r.index \in Trials /\ r.id \in Nat
      /\ \A r \in Made : r.id <= trial[r.index].submittedExperiments
      /\ \A r, q \in Made : r.index = q.index /\ r.id = q.id => r = q
  BY <1>1 DEF IInv, Numbered, Request, Trials
<1>8. \A r \in Made : r.index = t => r.id <= last
  BY <1>7
<1>. HIDE DEF last, asked
<1>9. \A r \in asked : r.id > last /\ r.id <= last + n /\ r.id \in Nat
  BY <1>1, <1>6
<1>10. \A r \in Made, q \in asked : r.index = q.index => r.id # q.id
  BY <1>1, <1>6, <1>7, <1>8, <1>9
<1>11. \A r \in Made' : r.id <= trial'[r.index].submittedExperiments
  <2>1. \A r \in Made : r.index = t => r.id <= last + n
    BY <1>1, <1>7, <1>8
  <2>2. \A r \in Made : r.index # t => r.id <= trial'[r.index].submittedExperiments
    BY <1>6, <1>7
  <2>. QED
    BY <1>4, <1>6, <1>9, <2>1, <2>2
<1>12. \A r, q \in Made' : r.index = q.index /\ r.id = q.id => r = q
  BY <1>4, <1>6, <1>7, <1>10
<1>13. Made \cap asked = {}
  BY <1>10
<1>14. \A i, j \in DOMAIN measurementQueue' :
         measurementQueue'[i] = measurementQueue'[j] => i = j
  <2>1. Elements(measurementQueue) \cap Elements(new) = {}
    BY <1>13 DEF Made, asked
  <2>2. /\ \A i, j \in DOMAIN measurementQueue :
             measurementQueue[i] = measurementQueue[j] => i = j
        /\ \A i, j \in DOMAIN new : new[i] = new[j] => i = j
        /\ measurementQueue' = measurementQueue \o new
    BY DEF IInv, Numbered, SubmitsWith
  <2>3. \A i, j \in DOMAIN (measurementQueue \o new) :
          (measurementQueue \o new)[i] = (measurementQueue \o new)[j] => i = j
    BY <1>1, <2>1, <2>2, ConcatDistinct
  <2>. QED
    BY ONLY <2>2, <2>3
<1>15. Elements(measurementQueue') \cap Elements(stored') = {}
  BY <1>2, <1>3, <1>13 DEF IInv, Numbered, Made, asked, Elements
<1>16. Numbered'
  BY <1>3, <1>11, <1>12, <1>14, <1>15 DEF Numbered, Elements
<1>. QED
  BY <1>4, <1>5, <1>8, <1>16 DEF asked, last

\* What the trial has submitted is open, and counted; the experiment is no
\* longer due, and one of the new numbers is that of a request of it.
LEMMA SubmitOwn ==
  ASSUME IInv, NEW t \in Trials, NEW n \in Nat \ {0}, NEW new \in Seq(Answered),
         NEW started \in SUBSET (Request \ Answered), SubmitsWith(t, n, new, started)
  PROVE  TrialInv(t)'
<1>. DEFINE last == trial[t].submittedExperiments
            asked == Elements(new) \cup started
<1>. PICK h : h = Head(trial[t].remaining)
  OBVIOUS
<1>1. /\ trial[t] \in Local /\ TypesOK /\ TypesOK' /\ Made' = Made \cup asked
      /\ \A r \in Made : r.index = t => r.id <= last
  <2>1. trial[t] \in Local /\ TypesOK
    BY DEF IInv, TypesOK
  <2>2. /\ TypesOK' /\ Made' = Made \cup Elements(new) \cup started
        /\ \A r \in Made : r.index = t => r.id <= trial[t].submittedExperiments
    BY SubmitNumbers
  <2>. QED
    BY <2>1, <2>2
<1>2. /\ Counted(t) /\ OpenOrSeen(t) /\ IndependentRequested(t) /\ DependentRequested(t)
  BY DEF SubmitsWith, IInv, TrialInv, Goes
<1>3. /\ trial'[t].phase = "running" /\ seen' = seen
      /\ trial'[t].submittedExperiments = last + n
      /\ trial'[t].completedRequests = trial[t].completedRequests
      /\ Checking(t)' = Checking(t) /\ Waiting(t)' = Waiting(t) /\ New(t)' = New(t) + n
      /\ Open(t)' = Open(t) \cup (last + 1 .. last + n)
      /\ \A r \in asked : /\ r.index = t /\ r.experiment = h
                          /\ r.id \in last + 1 .. last + n
  BY DEF SubmitsWith, Checking, Waiting, Open
<1>4. /\ last \in Nat /\ trial[t].completedRequests \in Nat
      /\ Checking(t) \in Nat /\ Waiting(t) \in Nat /\ New(t) \in Nat
  BY <1>1, Lengths
<1>5. last = trial[t].completedRequests + Checking(t) + Waiting(t) + New(t)
  BY <1>2 DEF Counted
<1>6. \A e \in Experiments : Due(t, e) /\ e # h => Due(t, e)'
  <2>1. \A e : (Due(t, e) <=> e \in Elements(trial[t].remaining))
    BY DEF Due, Elements
  <2>2. \A e : (Due(t, e)' <=> e \in Elements(Tail(trial[t].remaining)))
    BY DEF SubmitsWith, Due, Elements
  <2>3. trial[t].remaining \in Seq(Experiments) /\ trial[t].remaining # <<>>
    BY <1>1 DEF SubmitsWith, Local
  <2>4. Elements(trial[t].remaining) = {h} \cup Elements(Tail(trial[t].remaining))
    BY <2>3, ElementsTail
  <2>. QED
    BY <2>1, <2>2, <2>4
<1>. HIDE DEF last, asked
<1>7. Counted(t)'
  <2>1. n \in Nat
    OBVIOUS
  <2>2. last + n = trial[t].completedRequests + Checking(t) + Waiting(t) + (New(t) + n)
    <3>1. last + n = (trial[t].completedRequests + Checking(t) + Waiting(t) + New(t)) + n
      BY ONLY <1>5
    <3>. QED
      BY ONLY <1>4, <2>1, <3>1, AddLast
  <2>3. trial'[t].submittedExperiments =
          trial'[t].completedRequests + Checking(t)' + Waiting(t)' + New(t)'
    BY ONLY <1>3, <2>2
  <2>. QED
    BY ONLY <2>3 DEF Counted
<1>8. OpenOrSeen(t)'
  <2>1. \A id \in 1 .. last + n : id \in 1 .. last \/ id \in last + 1 .. last + n
    BY <1>4
  <2>2. \A id \in 1 .. last : id \in Open(t) \/ \E r \in seen[Operator] : r.index = t /\ r.id = id
    BY <1>2 DEF OpenOrSeen, last
  <2>. QED
    BY <1>3, <2>1, <2>2 DEF OpenOrSeen
<1>9. \A e : Numbers(t, e) \subseteq Numbers(t, e)'
  <2>. SUFFICES ASSUME NEW e, NEW id \in Numbers(t, e)
                PROVE  id \in Numbers(t, e)'
    OBVIOUS
  <2>1. id \in 1 .. last /\ \A r \in Made : r.index = t /\ r.id = id => r.experiment = e
    BY DEF Numbers, last
  <2>2. id \in 1 .. last + n /\ id \notin last + 1 .. last + n
    BY <1>4, <2>1
  <2>. QED
    BY <1>1, <1>3, <2>1, <2>2 DEF Numbers
<1>10. last + 1 \in Numbers(t, h)' \ Numbers(t, h)
  <2>1. last + 1 \in 1 .. last + n /\ last + 1 \notin 1 .. last
    BY <1>4
  <2>2. \A r \in Made : r.index = t => r.id # last + 1
    BY <1>1, <1>4
  <2>3. last + 1 \in Numbers(t, h)'
    BY <1>1, <1>3, <2>1, <2>2 DEF Numbers
  <2>. QED
    BY <2>1, <2>3 DEF Numbers, last
<1>11. \A e : Collected(t, e)' \subseteq Collected(t, e)
  BY <1>3 DEF Collected, Successes, Requests
<1>12. IndependentRequested(t)'
  <2>. SUFFICES ASSUME NEW k \in DOMAIN IndependentExperiments
                PROVE  \/ Due(t, IndependentExperiments[k])'
                       \/ Numbers(t, IndependentExperiments[k])' # {}
    BY DEF IndependentRequested
  <2>1. IndependentExperiments[k] \in Experiments
    BY Constants
  <2>2. Due(t, IndependentExperiments[k]) \/ Numbers(t, IndependentExperiments[k]) # {}
    BY <1>2 DEF IndependentRequested
  <2>. QED
    BY <1>6, <1>9, <1>10, <2>1, <2>2
<1>13. DependentRequested(t)'
  <2>. SUFFICES ASSUME NEW e \in Experiments, NEW k \in DOMAIN DependentsOf[e]
                PROVE  Cardinality(Collected(t, e)') <=
                         Cardinality(Numbers(t, DependentsOf[e][k])')
                           + (IF Due(t, DependentsOf[e][k])' THEN 1 ELSE 0)
    BY DEF DependentRequested
  <2>. DEFINE d == DependentsOf[e][k]
  <2>1. d \in Experiments
    BY Constants
  <2>2. Cardinality(Collected(t, e)) <= Cardinality(Numbers(t, d)) + (IF Due(t, d) THEN 1 ELSE 0)
    BY <1>2 DEF DependentRequested
  <2>. HIDE DEF d
  <2>3. /\ IsFiniteSet(Numbers(t, d)) /\ IsFiniteSet(Numbers(t, d)')
        /\ IsFiniteSet(Collected(t, e))
        /\ Cardinality(Numbers(t, d)) \in Nat /\ Cardinality(Numbers(t, d)') \in Nat
        /\ Cardinality(Collected(t, e)) \in Nat /\ Cardinality(Collected(t, e)') \in Nat
    BY <1>1, <2>1, CountsAreFinite, CountsAreFiniteNext DEF Finite
  <2>4. Cardinality(Collected(t, e)') <= Cardinality(Collected(t, e))
    BY <1>11, <2>3, FS_Subset
  <2>5. CASE d = h
    <3>1. Numbers(t, d) \cup {last + 1} \subseteq Numbers(t, d)' /\ last + 1 \notin Numbers(t, d)
      BY <1>9, <1>10, <2>5
    <3>2. Cardinality(Numbers(t, d) \cup {last + 1}) = Cardinality(Numbers(t, d)) + 1
      BY <2>3, <3>1, FS_AddElement
    <3>3. Cardinality(Numbers(t, d) \cup {last + 1}) <= Cardinality(Numbers(t, d)')
      BY <2>3, <3>1, FS_Subset
    <3>. QED
      BY <2>2, <2>3, <2>4, <3>2, <3>3 DEF d
  <2>6. CASE d # h
    <3>1. Due(t, d) => Due(t, d)'
      BY <1>6, <2>1, <2>6
    <3>2. Cardinality(Numbers(t, d)) <= Cardinality(Numbers(t, d)')
      BY <1>9, <2>3, FS_Subset
    <3>. QED
      BY <2>2, <2>3, <2>4, <3>1, <3>2 DEF d
  <2>. QED
    BY <2>5, <2>6
<1>. QED
  BY <1>3, <1>7, <1>8, <1>12, <1>13 DEF TrialInv

LEMMA SubmitStep ==
  ASSUME IInv, NEW t \in Trials, Submit(t)
  PROVE  IInv'
<1>1. PICK n \in Nat \ {0}, new \in Seq(Answered), started \in SUBSET (Request \ Answered) :
        SubmitsWith(t, n, new, started)
  BY SubmitFacts
<1>2. TypesOK' /\ Numbered' /\ Made' = Made \cup Elements(new) \cup started
  BY <1>1, SubmitNumbers
<1>3. TrialInv(t)'
  BY <1>1, SubmitOwn
<1>4. ASSUME NEW u \in Trials, u # t
      PROVE  TrialInv(u)'
  <2>1. /\ trial'[u] = trial[u] /\ seen' = seen
        /\ \A r \in Elements(new) \cup started : r.index = t
    BY <1>1, <1>4 DEF SubmitsWith
  <2>2. \A r \in Made' : r.index = u => r \in Made
    BY <1>2, <1>4, <2>1
  <2>. QED
    BY <1>2, <2>1, <2>2, TrialKept DEF IInv
<1>5. ReturnInv'
  <2>1. exit = "none"
    BY RunsBeforeReturn DEF Submit
  <2>. QED
    BY <1>1, <2>1 DEF SubmitsWith, ReturnInv
<1>. QED
  BY <1>2, <1>3, <1>4, <1>5 DEF IInv

-----------------------------------------------------------------------------
(* A trial collects an answer.                                             *)

\* The number leaves the lists; if the answer is a success of an experiment,
\* what it enables is due.
LEMMA CollectStep ==
  ASSUME IInv, NEW t \in Trials, Collect(t)
  PROVE  IInv'
<1>1. PICK request \in Finished(t) :
        Only(t, [trial[t] EXCEPT
          !.toCheck = Tail(@),
          !.completedRequests = @ + 1,
          !.remaining = IF request.status = "Success"
                          THEN DependentsOf[request.experiment] ELSE <<>>,
          !.measured = IF request.experiment = MetricExperiment
                         THEN request.status = "Success" ELSE @])
  BY DEF Collect
<1>. DEFINE toCheck == trial[t].toCheck
            local == [trial[t] EXCEPT
              !.toCheck = Tail(@),
              !.completedRequests = @ + 1,
              !.remaining = IF request.status = "Success"
                              THEN DependentsOf[request.experiment] ELSE <<>>,
              !.measured = IF request.experiment = MetricExperiment
                             THEN request.status = "Success" ELSE @]
<1>2. /\ trial[t] \in Local /\ toCheck \in Seq(Nat) /\ toCheck # <<>>
      /\ trial[t].completedRequests \in Nat
      /\ Running(t) /\ trial[t].remaining = <<>>
      /\ Only(t, local) /\ UNCHANGED measurementVars
  BY <1>1 DEF Collect, Checks, IInv, TypesOK, Local
<1>3. /\ request \in seen[Operator] /\ request.index = t /\ request.id = Head(toCheck)
      /\ request \in Made /\ request.experiment \in Experiments
  BY MadeTypes DEF Finished, IInv, Request
<1>4. /\ Tail(toCheck) \in Seq(Nat) /\ Len(Tail(toCheck)) = Len(toCheck) - 1
      /\ Elements(toCheck) = {request.id} \cup Elements(Tail(toCheck))
  BY <1>2, <1>3, ElementsTail
<1>5. /\ local \in Local /\ local.phase = trial[t].phase
      /\ local.submittedExperiments = trial[t].submittedExperiments
      /\ local.completedRequests = trial[t].completedRequests + 1
      /\ request.status = "Success" => local.remaining = DependentsOf[request.experiment]
      /\ local.toCheck = Tail(toCheck)
      /\ local.waitingRequestIds = trial[t].waitingRequestIds
      /\ local.newRequests = trial[t].newRequests
  <2>1. /\ <<>> \in Seq(Experiments) /\ DependentsOf[request.experiment] \in Seq(Experiments)
        /\ (request.status = "Success") \in BOOLEAN /\ trial[t].completedRequests + 1 \in Nat
    BY <1>2, <1>3, Constants
  <2>2. (IF request.status = "Success"
           THEN DependentsOf[request.experiment] ELSE <<>>) \in Seq(Experiments)
    BY <2>1
  <2>3. (IF request.experiment = MetricExperiment
           THEN request.status = "Success" ELSE trial[t].measured) \in BOOLEAN
    BY <1>2, <2>1 DEF Local
  <2>. HIDE DEF toCheck
  <2>4. local \in Local
    BY <1>2, <1>4, <2>1, <2>2, <2>3 DEF Local, toCheck
  <2>. QED
    BY <1>2, <2>4 DEF Local, toCheck
<1>. HIDE DEF local, toCheck
<1>6. /\ TypesOK' /\ Made' = Made /\ seen' = seen /\ trial'[t] = local
      /\ TrialInv(t)' => IInv'
  BY <1>2, <1>5, RunsBeforeReturn, LocalStep
<1>7. /\ Counted(t) /\ OpenOrSeen(t) /\ IndependentRequested(t) /\ DependentRequested(t)
  BY <1>2 DEF IInv, TrialInv, Goes, Running
<1>8. Counted(t)'
  <2>1. /\ Checking(t)' = Checking(t) - 1 /\ Waiting(t)' = Waiting(t) /\ New(t)' = New(t)
        /\ trial'[t].completedRequests = trial[t].completedRequests + 1
        /\ trial'[t].submittedExperiments = trial[t].submittedExperiments
    BY <1>4, <1>5, <1>6 DEF Checking, Waiting, New, toCheck
  <2>2. /\ trial[t].completedRequests \in Nat /\ Checking(t) \in Nat
        /\ Waiting(t) \in Nat /\ New(t) \in Nat
    BY <1>2, Lengths
  <2>. QED
    BY ONLY <1>7, <2>1, <2>2 DEF Counted
<1>9. Open(t) = Open(t)' \cup {request.id}
  BY <1>4, <1>5, <1>6 DEF Open, toCheck
<1>10. OpenOrSeen(t)'
  BY <1>3, <1>5, <1>6, <1>7, <1>9 DEF OpenOrSeen
<1>11. \A e : Numbers(t, e)' = Numbers(t, e) /\ ~Due(t, e)
  BY <1>2, <1>5, <1>6 DEF Numbers, Due
<1>12. IndependentRequested(t)'
  BY <1>7, <1>11 DEF IndependentRequested
<1>13. \A e : /\ Collected(t, e)' \subseteq Collected(t, e) \cup {request}
              /\ request \in Collected(t, e)' =>
                   request.status = "Success" /\ request.experiment = e
  <2>1. \A r \in seen[Operator] : r.index = t /\ r.id = request.id => r = request
    BY <1>3, MadeTypes DEF IInv, Numbered
  <2>. QED
    BY <1>6, <1>9, <2>1 DEF Collected, Successes, Requests
<1>14. DependentRequested(t)'
  <2>. SUFFICES ASSUME NEW e \in Experiments, NEW k \in DOMAIN DependentsOf[e]
                PROVE  Cardinality(Collected(t, e)') <=
                         Cardinality(Numbers(t, DependentsOf[e][k])')
                           + (IF Due(t, DependentsOf[e][k])' THEN 1 ELSE 0)
    BY DEF DependentRequested
  <2>. DEFINE d == DependentsOf[e][k]
  <2>1. d \in Experiments
    BY Constants
  <2>2. Cardinality(Collected(t, e)) <= Cardinality(Numbers(t, d)) + (IF Due(t, d) THEN 1 ELSE 0)
    BY <1>7 DEF DependentRequested
  <2>3. request \in Collected(t, e)' => Due(t, d)'
    BY <1>5, <1>6, <1>13 DEF Due
  <2>. HIDE DEF d
  <2>4. /\ IsFiniteSet(Collected(t, e)) /\ Cardinality(Numbers(t, d)) \in Nat
        /\ Cardinality(Collected(t, e)) \in Nat /\ Cardinality(Collected(t, e)') \in Nat
    BY <1>6, <2>1, CountsAreFinite, CountsAreFiniteNext DEF Finite, IInv
  <2>5. Cardinality(Collected(t, e)) <= Cardinality(Numbers(t, d)')
    BY <1>11, <2>2, <2>4
  <2>6. CASE request \in Collected(t, e)'
    <3>1. /\ IsFiniteSet(Collected(t, e) \cup {request})
          /\ Cardinality(Collected(t, e) \cup {request}) <= Cardinality(Collected(t, e)) + 1
      <4>1. /\ IsFiniteSet(Collected(t, e) \cup {request})
            /\ Cardinality(Collected(t, e) \cup {request}) =
                 IF request \in Collected(t, e) THEN Cardinality(Collected(t, e))
                 ELSE Cardinality(Collected(t, e)) + 1
        BY <2>4, FS_AddElement
      <4>. QED
        BY <2>4, <4>1
    <3>2. Cardinality(Collected(t, e) \cup {request}) \in Nat
      BY <3>1, FS_CardinalityType
    <3>3. Cardinality(Collected(t, e)') <= Cardinality(Collected(t, e) \cup {request})
      BY <1>13, <3>1, FS_Subset
    <3>4. Cardinality(Numbers(t, d)') = Cardinality(Numbers(t, d))
      BY <1>11
    <3>. QED
      BY <2>3, <2>4, <2>5, <2>6, <3>1, <3>2, <3>3, <3>4 DEF d
  <2>7. CASE request \notin Collected(t, e)'
    <3>1. Collected(t, e)' \subseteq Collected(t, e)
      BY <1>13, <2>7
    <3>2. Cardinality(Collected(t, e)') <= Cardinality(Collected(t, e))
      BY <2>4, <3>1, FS_Subset
    <3>3. Cardinality(Numbers(t, d)') = Cardinality(Numbers(t, d))
      BY <1>11
    <3>. QED
      BY <2>4, <2>5, <3>2, <3>3 DEF d
  <2>. QED
    BY <2>6, <2>7
<1>15. TrialInv(t)'
  BY <1>2, <1>5, <1>6, <1>8, <1>10, <1>12, <1>14 DEF TrialInv, Goes, Running
<1>. QED
  BY <1>6, <1>15

-----------------------------------------------------------------------------
(* Ray Tune ends trials, and run() returns.                                *)

LEMMA StopStep ==
  ASSUME IInv, StopAll
  PROVE  IInv'
<1>1. /\ exit = "none" /\ UNCHANGED <<measurementVars, stored, seen, exit>>
      /\ trial \in [Trials -> Local]
      /\ trial' = [t \in Trials |->
                     IF Running(t) THEN Ended(t, "terminated") ELSE trial[t]]
  BY DEF StopAll, managerVars, IInv, TypesOK
<1>2. ASSUME NEW t \in Trials
      PROVE  /\ Ended(t, "terminated") \in Local
             /\ Ended(t, "terminated").phase = "terminated"
             /\ Ended(t, "terminated").submittedExperiments = trial[t].submittedExperiments
  <2>1. <<>> \in Seq(Experiments) /\ <<>> \in Seq(Nat) /\ trial[t] \in Local
    BY <1>1
  <2>. QED
    BY <2>1 DEF Ended, Idle, Local
<1>3. /\ trial' \in [Trials -> Local]
      /\ \A t \in Trials :
           trial'[t].submittedExperiments = trial[t].submittedExperiments
  BY <1>1, <1>2
<1>4. TypesOK' /\ Numbered' /\ Made' = Made
  BY <1>1, <1>3, SameRequests DEF IInv
<1>5. ASSUME NEW t \in Trials
      PROVE  TrialInv(t)'
  <2>1. CASE Running(t)
    <3>1. trial'[t].phase = "terminated"
      BY <1>1, <1>2, <2>1
    <3>. QED
      BY <3>1 DEF TrialInv, Goes
  <2>2. CASE ~Running(t)
    <3>1. trial'[t] = trial[t]
      BY <1>1, <2>2
    <3>. QED
      BY <1>1, <1>4, <3>1, TrialKept DEF IInv
  <2>. QED
    BY <2>1, <2>2
<1>6. ReturnInv'
  BY <1>1 DEF ReturnInv
<1>. QED
  BY <1>4, <1>5, <1>6 DEF IInv

LEMMA ReturnStep ==
  ASSUME IInv, RunReturns
  PROVE  IInv'
<1>1. /\ UNCHANGED <<measurementVars, stored, seen, trial>> /\ trial' \in [Trials -> Local]
      /\ exit' = Outcome /\ Phases("running") = {}
  BY DEF RunReturns, managerVars, IInv, TypesOK
<1>2. TypesOK' /\ Numbered' /\ Made' = Made
  BY <1>1, SameRequests DEF IInv
<1>3. \A t \in Trials : TrialInv(t)'
  BY <1>1, <1>2, TrialKept DEF IInv
<1>4. ReturnInv'
  BY <1>1 DEF ReturnInv, Outcome, Phases
<1>. QED
  BY <1>2, <1>3, <1>4 DEF IInv

-----------------------------------------------------------------------------
(* The theorems.                                                           *)

LEMMA InitInv == Init => IInv
<1>. SUFFICES ASSUME Init PROVE IInv
  OBVIOUS
<1>1. /\ MeasurementsInit /\ stored = <<>> /\ seen = [s \in {Operator} |-> {}]
      /\ trial = [t \in Trials |-> Idle] /\ exit = "none"
  BY DEF Init, Manager!Init
<1>2. Idle \in Local
  <2>1. <<>> \in Seq(Experiments) /\ <<>> \in Seq(Nat)
    OBVIOUS
  <2>. QED
    BY <2>1 DEF Idle, Local
<1>3. MeasurementsTypeOK
  <2>1. <<>> \in Seq(Answered)
    OBVIOUS
  <2>. QED
    BY <1>1, <2>1 DEF MeasurementsInit, MeasurementsTypeOK, Held
<1>4. TypesOK
  <2>1. stored \in Seq(Answered)
    BY <1>1
  <2>2. seen[Operator] = {} /\ DOMAIN seen = {Operator} /\ IsFiniteSet(seen[Operator])
    BY <1>1, FS_EmptySet
  <2>. QED
    BY <1>1, <1>2, <1>3, <2>1, <2>2 DEF TypesOK
<1>5. Made = {}
  BY <1>1 DEF MeasurementsInit, Made, Elements
<1>6. Numbered
  <2>1. DOMAIN measurementQueue = {}
    BY <1>1 DEF MeasurementsInit
  <2>. QED
    BY <1>5, <2>1 DEF Numbered, Made
<1>7. \A t \in Trials : TrialInv(t)
  BY <1>1 DEF TrialInv, Goes, Idle
<1>8. ReturnInv
  BY <1>1 DEF ReturnInv
<1>. QED
  BY <1>4, <1>6, <1>7, <1>8 DEF IInv

LEMMA TrialStepInv ==
  ASSUME IInv, NEW t \in Trials, TrialStep(t)
  PROVE  IInv'
<1>1. CASE StartTrial(t)
  BY <1>1, StartStep
<1>2. CASE StartRaises(t)
  BY <1>2, RaiseStep DEF StartRaises
<1>3. CASE Submit(t)
  BY <1>3, SubmitStep
<1>4. CASE SubmitRaises(t)
  BY <1>4, RaiseStep DEF SubmitRaises
<1>5. CASE NotFinished(t)
  BY <1>5, NotFinishedStep
<1>6. CASE Collect(t)
  BY <1>6, CollectStep
<1>7. CASE NextTurn(t)
  BY <1>7, NextTurnStep
<1>8. CASE TurnRaises(t)
  BY <1>8, RaiseStep DEF TurnRaises, EndOfTurn
<1>9. CASE Report(t)
  BY <1>9, ReportStep
<1>. QED
  BY <1>1, <1>2, <1>3, <1>4, <1>5, <1>6, <1>7, <1>8, <1>9 DEF TrialStep

LEMMA NextInv ==
  ASSUME IInv, [Next]_vars
  PROVE  IInv'
<1>1. CASE ManagerStep
  BY <1>1, ManagerInv
<1>2. CASE ActuatorAnswers
  BY <1>2, AnswerStep
<1>3. CASE \E t \in Trials : TrialStep(t)
  BY <1>3, TrialStepInv
<1>4. CASE StopAll
  BY <1>4, StopStep
<1>5. CASE RunReturns
  BY <1>5, ReturnStep
<1>6. CASE UNCHANGED vars
  <2>1. /\ UNCHANGED <<measurementVars, stored, seen, trial, exit>>
        /\ trial' \in [Trials -> Local]
    BY <1>6 DEF vars, managerVars, IInv, TypesOK
  <2>2. TypesOK' /\ Numbered' /\ Made' = Made
    BY <2>1, SameRequests DEF IInv
  <2>3. \A t \in Trials : TrialInv(t)'
    BY <2>1, <2>2, TrialKept DEF IInv
  <2>. QED
    BY <2>1, <2>2, <2>3, OutsideStep
<1>. QED
  BY <1>1, <1>2, <1>3, <1>4, <1>5, <1>6 DEF Next

\* Types hold, the requests of a trial are numbered without gap or repetition,
\* and its counters agree with its lists (the local variables of
\* tune_trainable).
THEOREM InductiveInvariant == Spec => []IInv
BY InitInv, NextInv, PTL DEF Spec

\* A trial that has reported waits for nothing, and all it asked for was seen.
LEMMA AllSeen ==
  ASSUME IInv, NEW t \in Trials, trial[t].phase = "reported"
  PROVE  /\ Open(t) = {}
         /\ \A id \in 1 .. trial[t].submittedExperiments :
              \E r \in seen[Operator] : r.index = t /\ r.id = id
         /\ \A r \in Made : r.index = t =>
              r.id \in 1 .. trial[t].submittedExperiments /\ r \in seen[Operator]
         /\ \A e \in Experiments : ~Due(t, e)
<1>1. /\ trial[t] \in Local /\ Counted(t) /\ OpenOrSeen(t)
      /\ ~WaitingOnExperiments(t) /\ trial[t].remaining = <<>>
  BY DEF IInv, TypesOK, TrialInv, Goes
<1>2. Checking(t) = 0 /\ Waiting(t) = 0 /\ New(t) = 0
  <2>1. /\ trial[t].completedRequests \in Nat /\ trial[t].submittedExperiments \in Nat
        /\ Checking(t) \in Nat /\ Waiting(t) \in Nat /\ New(t) \in Nat
    BY <1>1, Lengths
  <2>2. ~(trial[t].completedRequests < trial[t].submittedExperiments)
    BY <1>1 DEF WaitingOnExperiments
  <2>3. trial[t].submittedExperiments =
          trial[t].completedRequests + Checking(t) + Waiting(t) + New(t)
    BY <1>1 DEF Counted
  <2>. QED
    BY ONLY <2>1, <2>2, <2>3
<1>3. /\ trial[t].toCheck = <<>> /\ trial[t].waitingRequestIds = <<>>
      /\ trial[t].newRequests = <<>>
  BY <1>1, <1>2 DEF Local, Checking, Waiting, New
<1>4. Open(t) = {}
  BY <1>3 DEF Open, Elements
<1>5. \A id \in 1 .. trial[t].submittedExperiments :
        \E r \in seen[Operator] : r.index = t /\ r.id = id
  BY <1>1, <1>4 DEF OpenOrSeen
<1>6. ASSUME NEW r \in Made, r.index = t
      PROVE  r.id \in 1 .. trial[t].submittedExperiments /\ r \in seen[Operator]
  <2>1. r.id \in Nat \ {0} /\ trial[t].submittedExperiments \in Nat
    BY <1>1, MadeTypes DEF IInv, Request, Local
  <2>2. r.id \in 1 .. trial[t].submittedExperiments
    BY <1>6, <2>1 DEF IInv, Numbered
  <2>3. PICK q \in seen[Operator] : q.index = t /\ q.id = r.id
    BY <1>5, <2>2
  <2>4. q = r
    BY <1>6, <2>3, MadeTypes DEF IInv, Numbered
  <2>. QED
    BY <2>2, <2>4
<1>. QED
  BY <1>1, <1>4, <1>5, <1>6 DEF Due

\* Each number of a request of the experiment is that of one that was seen.
LEMMA NumbersAreRequests ==
  ASSUME IInv, NEW t \in Trials, trial[t].phase = "reported", NEW d \in Experiments
  PROVE  /\ Cardinality(Numbers(t, d)) <= Cardinality(Requests(t, d))
         /\ Numbers(t, d) # {} => Requests(t, d) # {}
<1>1. ASSUME NEW id \in Numbers(t, d)
      PROVE  \E r \in Requests(t, d) : r.id = id
  <2>1. PICK r \in seen[Operator] : r.index = t /\ r.id = id
    BY AllSeen DEF Numbers
  <2>. QED
    BY <2>1, MadeTypes DEF IInv, Numbers, Requests
<1>. DEFINE f == [id \in Numbers(t, d) |-> CHOOSE r \in Requests(t, d) : r.id = id]
<1>2. \A id \in Numbers(t, d) : f[id] \in Requests(t, d) /\ f[id].id = id
  BY <1>1
<1>3. f \in [Numbers(t, d) -> Requests(t, d)]
  BY <1>2
<1>. HIDE DEF f
<1>4. f \in Injection(Numbers(t, d), Requests(t, d))
  BY <1>2, <1>3 DEF Injection, IsInjective
<1>5. IsFiniteSet(Requests(t, d))
  BY FS_Subset DEF IInv, TypesOK, Requests
<1>. QED
  BY <1>1, <1>4, <1>5, FS_Injection

\* A trial that reports has measured its entity.
THEOREM ReportedMeasured == Spec => []ReportedMeansMeasured
<1>1. IInv => ReportedMeansMeasured
  <2>. SUFFICES ASSUME IInv, NEW t \in Trials, trial[t].phase = "reported"
                PROVE  /\ \A k \in DOMAIN IndependentExperiments :
                            Requests(t, IndependentExperiments[k]) # {}
                       /\ \A e \in Experiments : \A k \in DOMAIN DependentsOf[e] :
                            Cardinality(Requests(t, DependentsOf[e][k]))
                              >= Cardinality(Successes(t, e))
                       /\ \A request \in inFlight \cup Elements(measurementQueue) :
                            request.index # t
    BY DEF ReportedMeansMeasured, Phases, Elements
  <2>1. IndependentRequested(t) /\ DependentRequested(t)
    BY DEF IInv, TrialInv, Goes
  <2>2. ASSUME NEW k \in DOMAIN IndependentExperiments
        PROVE  Requests(t, IndependentExperiments[k]) # {}
    <3>1. IndependentExperiments[k] \in Experiments
      BY Constants
    <3>2. Numbers(t, IndependentExperiments[k]) # {}
      BY <2>1, <3>1, AllSeen DEF IndependentRequested
    <3>. QED
      BY <3>1, <3>2, NumbersAreRequests
  <2>3. ASSUME NEW e \in Experiments, NEW k \in DOMAIN DependentsOf[e]
        PROVE  Cardinality(Requests(t, DependentsOf[e][k])) >= Cardinality(Successes(t, e))
    <3>. DEFINE d == DependentsOf[e][k]
    <3>1. d \in Experiments
      BY Constants
    <3>2. Collected(t, e) = Successes(t, e) /\ ~Due(t, d)
      BY <3>1, AllSeen DEF Collected
    <3>3. Cardinality(Collected(t, e)) <=
            Cardinality(Numbers(t, d)) + (IF Due(t, d) THEN 1 ELSE 0)
      BY <2>1 DEF DependentRequested
    <3>. HIDE DEF d
    <3>4. /\ Cardinality(Numbers(t, d)) \in Nat /\ Cardinality(Collected(t, e)) \in Nat
          /\ Cardinality(Requests(t, d)) \in Nat
      BY <3>1, CountsAreFinite, FS_Subset, FS_CardinalityType
         DEF Finite, IInv, TypesOK, Requests
    <3>5. Cardinality(Numbers(t, d)) <= Cardinality(Requests(t, d))
      BY <3>1, NumbersAreRequests
    <3>6. Cardinality(Requests(t, d)) >= Cardinality(Successes(t, e))
      BY <3>2, <3>3, <3>4, <3>5
    <3>. QED
      BY <3>6 DEF d
  <2>4. ASSUME NEW request \in inFlight \cup Elements(measurementQueue), request.index = t
        PROVE  FALSE
    <3>1. request \in seen[Operator]
      BY <2>4, AllSeen DEF Made
    <3>2. request \in Elements(stored) /\ request \in Answered
      BY <3>1, MadeTypes DEF IInv, TypesOK
    <3>. QED
      BY <3>2, MadeTypes DEF IInv, Numbered
  <2>. QED
    BY <2>2, <2>3, <2>4
<1>. QED
  BY <1>1, InductiveInvariant, PTL

\* An optimisation recorded as a success has lost nothing.
THEOREM SuccessStored == Spec => []SuccessMeansStored
<1>1. IInv => SuccessMeansStored
  <2>. SUFFICES ASSUME IInv, exit = "SUCCESS", NEW t \in Trials,
                       trial[t].phase # "terminated"
                PROVE  Cardinality({r \in seen[Operator] : r.index = t})
                         = trial[t].submittedExperiments
    BY DEF SuccessMeansStored, Phases
  <2>. DEFINE mine == {r \in seen[Operator] : r.index = t}
              submitted == trial[t].submittedExperiments
  <2>1. /\ submitted \in Nat
        /\ trial[t].phase \in {"pending", "reported"}
    BY DEF IInv, ReturnInv, Phases, TypesOK, Local
  <2>2. mine \subseteq Made /\ IsFiniteSet(mine)
    BY MadeTypes, FS_Subset DEF IInv, TypesOK
  <2>3. CASE trial[t].phase = "pending"
    <3>1. submitted = 0
      BY <2>3 DEF IInv, TrialInv
    <3>2. mine = {}
      BY <2>2, <3>1, MadeTypes DEF IInv, Numbered, Request
    <3>. QED
      BY <3>1, <3>2, FS_EmptySet
  <2>4. CASE trial[t].phase = "reported"
    <3>. DEFINE f == [r \in mine |-> r.id]
    <3>1. /\ \A r \in mine : r.id \in 1 .. submitted
          /\ \A id \in 1 .. submitted : \E r \in mine : r.id = id
      BY <2>2, <2>4, AllSeen
    <3>2. \A r, q \in mine : r.id = q.id => r = q
      BY <2>2 DEF IInv, Numbered
    <3>. HIDE DEF mine, submitted
    <3>3. f \in Bijection(mine, 1 .. submitted)
      BY <3>1, <3>2 DEF Bijection, Injection, Surjection, IsInjective
    <3>4. Cardinality(1 .. submitted) = Cardinality(mine)
      BY <2>2, <3>3, FS_Bijection DEF ExistsBijection
    <3>5. Cardinality(1 .. submitted) = submitted
      BY <2>1, FS_Interval
    <3>. QED
      BY <3>4, <3>5 DEF mine, submitted
  <2>. QED
    BY <2>1, <2>3, <2>4
<1>. QED
  BY <1>1, InductiveInvariant, PTL

-----------------------------------------------------------------------------
(* The stoppers.  Their inductive invariant says what each counter counts  *)
(* in the results of all trials so far: a stopper keeps a few numbers and  *)
(* the documentation speaks of all samples.                                *)

StopperTypesOK ==
  /\ kind \in Kinds
  /\ history \in Seq(Results(kind))
  /\ should_stop \in BOOLEAN

\* Until it stops, the SimpleStopper knows the last configuration and the best
\* metric, and has waited for each trial that did not improve on it.
Repeated ==
  StopOnRepeat /\ \E k \in Told :
    k > 1 /\ k > MinTrials /\ history[k].config = history[k - 1].config
LastAndBest ==
  /\ last_experiment = IF history = <<>> THEN None ELSE history[Len(history)].config
  /\ last_metric \in Int /\ last_metric >= NaN
  /\ \A k \in Told : history[k].metric <= last_metric
  /\ last_metric = NaN \/ \E k \in Told : history[k].metric = last_metric
SimpleInv ==
  /\ trials_num = Len(history)
  /\ should_stop => SimpleDue
  /\ ~should_stop =>
       /\ ~Repeated /\ LastAndBest
       /\ patience = BufferStates - Cardinality(NotImproving)
       /\ patience >= 0

GrowthInv ==
  /\ trials_num = Len(history)
  /\ history # <<>> => last_metric = history[1].metric
  /\ patience = GraceTrials - Cardinality(NotGrowing)
  /\ should_stop <=> patience < 0

MaxSamplesInv ==
  /\ trials_num = Len(history)
  /\ should_stop <=> (history # <<>> /\ Len(history) >= MaxSamples)

\* How many calculations in a row, up to the last one, had these verdicts.
InARow(count, verdicts) ==
  /\ count \in 0 .. Cardinality(Calculated)
  /\ \A k \in Calculated : SamplesSince(k) < count => history[k].verdict \in verdicts
  /\ count < Cardinality(Calculated) =>
       \E k \in Calculated : SamplesSince(k) = count /\ history[k].verdict \notin verdicts
NotDueYet ==
  \/ Calculated = {}
  \/ below_cnt < SamplesBelowLimit
  \/ no_changes_cnt < SamplesBelowLimit
GainInv ==
  /\ trials_num = Cardinality(Parsed(Len(history)))
  /\ should_stop => InformationGainDue
  /\ ~should_stop =>
       /\ \A k \in Calculated : history[k].verdict # "fails"
       /\ InARow(below_cnt, {"converging", "ranksChange"})
       /\ InARow(no_changes_cnt, {"converging", "informationGrows"})
       /\ NotDueYet

DifferenceInv ==
  /\ trials_num = Cardinality(Differences(Len(history)))
  /\ should_stop <=> MetricDifferenceDue

StopperInv ==
  /\ StopperTypesOK
  /\ kind = "Simple" => SimpleInv
  /\ kind = "Growth" => GrowthInv
  /\ kind = "MaxSamples" => MaxSamplesInv
  /\ kind = "InformationGain" => GainInv
  /\ kind = "MetricDifference" => DifferenceInv

\* The types of the constants and of a result.
LEMMA StopperConstants ==
  /\ MinTrials \in Nat /\ BufferStates \in Nat /\ GrowthThreshold \in Nat
  /\ GraceTrials \in Nat /\ MaxSamples \in Nat /\ MinSamples \in Nat
  /\ SamplesBelowLimit \in Nat
  /\ StopOnRepeat \in BOOLEAN /\ CountNan \in BOOLEAN
  /\ None \notin Configs /\ NaN \in Int
  /\ Kinds \subseteq {"Simple", "Growth", "MaxSamples", "InformationGain",
                      "MetricDifference"}
BY StoppersAssumption DEF NaN

LEMMA ResultTypes ==
  ASSUME NEW k, NEW result \in Results(k)
  PROVE  /\ result.config \in Configs /\ result.metric \in Int
         /\ result.metric >= NaN /\ result.verdict \in Verdicts(k)
<1>1. Values \subseteq Nat /\ Configs # {} /\ NaN = -1
  BY StoppersAssumption DEF NaN
<1>2. \A S : S # {} => (CHOOSE c \in S : TRUE) \in S
  OBVIOUS
<1>3. result.config \in Configs
  BY <1>1, <1>2 DEF Results
<1>4. result.metric \in Values \cup {NaN, 0}
  BY DEF Results
<1>5. result.verdict \in Verdicts(k)
  BY DEF Results
<1>6. result.metric \in Int /\ result.metric >= NaN
  <2>1. CASE result.metric \in Values
    <3>1. result.metric \in Nat
      BY <1>1, <2>1
    <3>. QED
      BY <1>1, <3>1
  <2>2. CASE result.metric = NaN
    BY <1>1, <2>2
  <2>3. CASE result.metric = 0
    BY <1>1, <2>3
  <2>. QED
    BY <1>4, <2>1, <2>2, <2>3
<1>. QED
  BY <1>3, <1>5, <1>6

\* What a call for a new trial does to the history.
LEMMA HistoryGrows ==
  ASSUME StopperTypesOK, NEW tried, NEW result \in Results(kind), Seen(tried, result)
  PROVE  /\ kind' = kind /\ history' \in Seq(Results(kind))'
         /\ Len(history) \in Nat /\ Len(history') = Len(history) + 1
         /\ Told = 1 .. Len(history) /\ Told' = Told \cup {Len(history) + 1}
         /\ Len(history) + 1 \notin Told
         /\ \A k \in Told : history'[k] = history[k] /\ history[k] \in Results(kind)
         /\ history'[Len(history) + 1] = result
         /\ history' # <<>>
<1>1. kind' = kind /\ history' = Append(history, result)
  BY DEF Seen
<1>2. history \in Seq(Results(kind))
  BY DEF StopperTypesOK
<1>3. Results(kind)' = Results(kind)
  BY <1>1 DEF Results, Verdicts
<1>. QED
  BY <1>1, <1>2, <1>3 DEF Told

\* A set of trials with one more.
LEMMA OneMore ==
  ASSUME NEW n \in Nat, NEW S, S \subseteq 1 .. n
  PROVE  /\ IsFiniteSet(S) /\ Cardinality(S) \in Nat
         /\ Cardinality(S \cup {n + 1}) = Cardinality(S) + 1
<1>1. IsFiniteSet(1 .. n)
  BY FS_Interval
<1>2. IsFiniteSet(S)
  BY <1>1, FS_Subset
<1>3. n + 1 \notin S
  OBVIOUS
<1>. QED
  BY <1>2, <1>3, FS_AddElement, FS_CardinalityType

LEMMA NoneYet ==
  Cardinality({}) = 0 /\ 1 .. 0 = {}
BY FS_EmptySet

-----------------------------------------------------------------------------
(* SimpleStopper.                                                          *)

\* Only the new trial may improve or not.
LEMMA NotImprovingGrows ==
  ASSUME StopperTypesOK, NEW tried, NEW result \in Results(kind), Seen(tried, result)
  PROVE  LET n == Len(history)
             improves == \A k \in Told : history[k].metric < result.metric
             added == /\ n + 1 > MinTrials
                      /\ IF result.metric = NaN THEN CountNan ELSE ~improves
         IN  /\ NotImproving' = IF added THEN NotImproving \cup {n + 1} ELSE NotImproving
             /\ NotImproving \subseteq 1 .. n
             /\ Cardinality(NotImproving) \in Nat
             /\ Cardinality(NotImproving)' =
                  IF added THEN Cardinality(NotImproving) + 1 ELSE Cardinality(NotImproving)
<1>. DEFINE n == Len(history)
            improves == \A k \in Told : history[k].metric < result.metric
            added == /\ n + 1 > MinTrials
                     /\ IF result.metric = NaN THEN CountNan ELSE ~improves
<1>1. /\ n \in Nat /\ Told = 1 .. n /\ Told' = Told \cup {n + 1} /\ n + 1 \notin Told
      /\ \A k \in Told : history'[k] = history[k]
      /\ history'[n + 1] = result
  BY HistoryGrows
<1>2. ASSUME NEW k \in Told PROVE Improves(k)' <=> Improves(k)
  <2>1. \A j \in 1 .. k - 1 : j \in Told
    BY <1>1
  <2>. QED
    BY <1>1, <2>1 DEF Improves
<1>3. ASSUME NEW m, m = n + 1 PROVE Improves(m)' <=> improves
  <2>1. 1 .. m - 1 = Told
    BY <1>1, <1>3
  <2>. QED
    BY <1>1, <1>3, <2>1 DEF Improves
<1>4. \A k \in Told : k \in NotImproving' <=> k \in NotImproving
  BY <1>1, <1>2 DEF NotImproving
<1>5. n + 1 \in NotImproving' <=> added
  BY <1>1, <1>3 DEF NotImproving
<1>6. NotImproving \subseteq Told /\ NotImproving' \subseteq Told'
  BY DEF NotImproving
<1>7. NotImproving' = IF added THEN NotImproving \cup {n + 1} ELSE NotImproving
  <2>. HIDE DEF added
  <2>1. CASE added
    BY <1>1, <1>4, <1>5, <1>6, <2>1
  <2>2. CASE ~added
    <3>1. n + 1 \notin NotImproving'
      BY <1>5, <2>2
    <3>2. NotImproving' \subseteq Told
      BY <1>1, <1>6, <3>1
    <3>3. NotImproving' = NotImproving
      BY <1>4, <1>6, <3>2
    <3>. QED
      BY <2>2, <3>3
  <2>. QED
    BY <2>1, <2>2
<1>8. NotImproving \subseteq 1 .. n
  BY <1>1, <1>6
<1>. QED
  BY <1>1, <1>7, <1>8, OneMore

LEMMA RepeatedGrows ==
  ASSUME StopperTypesOK, NEW tried, NEW result \in Results(kind), Seen(tried, result)
  PROVE  Repeated' <=>
           \/ Repeated
           \/ /\ StopOnRepeat /\ Len(history) >= 1 /\ Len(history) + 1 > MinTrials
              /\ result.config = history[Len(history)].config
<1>. DEFINE n == Len(history)
<1>1. /\ n \in Nat /\ Told = 1 .. n /\ Told' = Told \cup {n + 1} /\ n + 1 \notin Told
      /\ \A k \in Told : history'[k] = history[k]
      /\ history'[n + 1] = result
  BY HistoryGrows
<1>. DEFINE At(k) == k > 1 /\ k > MinTrials /\ history[k].config = history[k - 1].config
<1>2. ASSUME NEW k \in Told
      PROVE  At(k)' <=> At(k)
  <2>1. k > 1 => k - 1 \in Told
    BY <1>1
  <2>. QED
    BY <1>1, <2>1
<1>3. ASSUME NEW m, m = n + 1
      PROVE  At(m)' <=> (n >= 1 /\ n + 1 > MinTrials /\ result.config = history[n].config)
  <2>1. n >= 1 => n \in Told
    BY <1>1
  <2>2. m - 1 = n /\ (m > 1 <=> n >= 1)
    BY <1>1, <1>3
  <2>. QED
    BY <1>1, <1>3, <2>1, <2>2
<1>4. Repeated <=> StopOnRepeat /\ \E k \in Told : At(k)
  BY DEF Repeated
<1>5. Repeated' <=> StopOnRepeat /\ \E k \in Told' : At(k)'
  BY DEF Repeated
<1>. HIDE DEF At
<1>6. ASSUME NEW m, m = n + 1
      PROVE  (\E k \in Told' : At(k)') <=> (\E k \in Told : At(k)) \/ At(m)'
  BY <1>1, <1>2, <1>6
<1>. QED
  BY <1>3, <1>4, <1>5, <1>6


\* What is better than the last metric is better than all.
LEMMA BetterIsBest ==
  ASSUME StopperTypesOK, NEW tried, NEW result \in Results(kind), Seen(tried, result),
         LastAndBest
  PROVE  /\ IsBetter(result.metric) <=>
              /\ result.metric # NaN
              /\ \A k \in Told : history[k].metric < result.metric
         /\ IsBetter(result.metric) /\ last_metric' = result.metric
              /\ last_experiment' = result.config => LastAndBest'
         /\ ~IsBetter(result.metric) /\ last_metric' = last_metric
              /\ last_experiment' = result.config => LastAndBest'
<1>. DEFINE n == Len(history)
<1>1. /\ n \in Nat /\ Told = 1 .. n /\ Told' = Told \cup {n + 1} /\ n + 1 \notin Told
      /\ \A k \in Told : history'[k] = history[k] /\ history[k] \in Results(kind)
      /\ history'[n + 1] = result /\ Len(history') = n + 1 /\ history' # <<>>
  BY HistoryGrows
<1>2. /\ result.metric \in Int /\ result.metric >= NaN
      /\ \A k \in Told : history[k].metric \in Int /\ history[k].metric >= NaN
  BY <1>1, ResultTypes
<1>3. /\ last_metric \in Int /\ last_metric >= NaN
      /\ \A k \in Told : history[k].metric <= last_metric
      /\ last_metric = NaN \/ \E k \in Told : history[k].metric = last_metric
  BY DEF LastAndBest
<1>4. NaN = -1
  BY DEF NaN
<1>5. IsBetter(result.metric) <=>
        /\ result.metric # NaN
        /\ \A k \in Told : history[k].metric < result.metric
  <2>1. CASE last_metric = NaN
    BY <1>2, <1>3, <1>4, <2>1 DEF IsBetter
  <2>2. CASE last_metric # NaN
    <3>1. PICK k \in Told : history[k].metric = last_metric
      BY <1>3, <2>2
    <3>. QED
      BY <1>2, <1>3, <2>2, <3>1 DEF IsBetter
  <2>. QED
    BY <2>1, <2>2
<1>6. ASSUME IsBetter(result.metric), last_metric' = result.metric,
             last_experiment' = result.config
      PROVE  LastAndBest'
  <2>1. \A k \in Told' : history'[k].metric <= last_metric'
    BY <1>1, <1>2, <1>5, <1>6
  <2>2. history'[n + 1].metric = last_metric' /\ n + 1 \in Told'
    BY <1>1, <1>6
  <2>. QED
    BY <1>1, <1>2, <1>6, <2>1, <2>2 DEF LastAndBest
<1>7. ASSUME ~IsBetter(result.metric), last_metric' = last_metric,
             last_experiment' = result.config
      PROVE  LastAndBest'
  <2>1. result.metric <= last_metric
    BY <1>2, <1>3, <1>4, <1>7 DEF IsBetter
  <2>2. \A k \in Told' : history'[k].metric <= last_metric'
    BY <1>1, <1>3, <1>7, <2>1
  <2>3. last_metric' = NaN \/ \E k \in Told' : history'[k].metric = last_metric'
    BY <1>1, <1>3, <1>7
  <2>. QED
    BY <1>1, <1>3, <1>7, <2>2, <2>3 DEF LastAndBest
<1>. QED
  BY <1>5, <1>6, <1>7

LEMMA SimpleNext ==
  ASSUME StopperInv, NEW tried, NEW result \in Results(kind),
         SimpleStopper(tried, result)
  PROVE  SimpleInv'
<1>. DEFINE n == Len(history)
            improves == \A k \in Told : history[k].metric < result.metric
            added == /\ n + 1 > MinTrials
                     /\ IF result.metric = NaN THEN CountNan ELSE ~improves
<1>1. /\ kind = "Simple" /\ StopperTypesOK /\ SimpleInv
      /\ Seen(tried, result) /\ trials_num' = trials_num + 1
  BY DEF StopperInv, SimpleStopper
<1>2. /\ n \in Nat /\ Told = 1 .. n /\ Len(history') = n + 1 /\ trials_num' = n + 1
      /\ trials_num = n /\ (history = <<>> <=> n = 0)
  BY <1>1, HistoryGrows DEF SimpleInv, StopperTypesOK
<1>3. /\ Cardinality(NotImproving) \in Nat
      /\ Cardinality(NotImproving)' =
           IF added THEN Cardinality(NotImproving) + 1 ELSE Cardinality(NotImproving)
  BY <1>1, NotImprovingGrows
<1>4. Repeated' <=> \/ Repeated
                    \/ /\ StopOnRepeat /\ n >= 1 /\ n + 1 > MinTrials
                       /\ result.config = history[n].config
  BY <1>1, RepeatedGrows
<1>5. result.config \in Configs /\ result.metric \in Int
  BY ResultTypes
<1>6. InGracePeriod <=> n + 1 <= MinTrials
  BY <1>2 DEF InGracePeriod
<1>7. SimpleDue => SimpleDue'
  BY <1>3, <1>4, StopperConstants DEF SimpleDue, Repeated
<1>8. CASE should_stop
  <2>1. should_stop'
    BY <1>8 DEF SimpleStopper, SimpleRepeats, SimpleSkips, SimpleImproves, SimpleWaits
  <2>. QED
    BY <1>1, <1>2, <1>7, <1>8, <2>1 DEF SimpleInv
<1>9. CASE ~should_stop
  <2>1. /\ ~Repeated /\ LastAndBest /\ patience >= 0
        /\ patience = BufferStates - Cardinality(NotImproving)
    BY <1>1, <1>9 DEF SimpleInv
  <2>2. IsBetter(result.metric) <=> result.metric # NaN /\ improves
    BY <1>1, <2>1, BetterIsBest
  <2>3. IsRepeat(result) <=>
          /\ StopOnRepeat /\ n >= 1 /\ n + 1 > MinTrials
          /\ result.config = history[n].config
    BY <1>2, <1>5, <1>6, <2>1, StopperConstants DEF IsRepeat, LastAndBest
  <2>4. CASE SimpleRepeats(result)
    <3>1. should_stop' /\ Repeated'
      BY <1>4, <2>3, <2>4 DEF SimpleRepeats
    <3>. QED
      BY <1>2, <3>1 DEF SimpleInv, SimpleDue, Repeated
  <2>5. CASE SimpleSkips(result)
    <3>1. ~should_stop' /\ ~Repeated' /\ ~added /\ ~IsBetter(result.metric)
      BY <1>4, <1>9, <2>1, <2>2, <2>3, <2>5 DEF SimpleSkips
    <3>2. LastAndBest' /\ patience' = patience
      BY <1>1, <2>1, <2>5, <3>1, BetterIsBest DEF SimpleSkips
    <3>. QED
      BY <1>2, <1>3, <2>1, <3>1, <3>2, StopperConstants DEF SimpleInv
  <2>6. CASE SimpleImproves(result)
    <3>1. ~should_stop' /\ ~Repeated' /\ ~added
      BY <1>4, <1>9, <2>1, <2>2, <2>3, <2>6 DEF SimpleImproves
    <3>2. LastAndBest' /\ patience' = patience
      BY <1>1, <2>1, <2>6, BetterIsBest DEF SimpleImproves
    <3>. QED
      BY <1>2, <1>3, <2>1, <3>1, <3>2, StopperConstants DEF SimpleInv
  <2>7. CASE SimpleWaits(result)
    <3>1. ~Repeated' /\ (added <=> n + 1 > MinTrials)
      BY <1>4, <2>1, <2>2, <2>3, <2>7 DEF SimpleWaits
    <3>2. LastAndBest'
      BY <1>1, <2>1, <2>7, BetterIsBest DEF SimpleWaits
    <3>3. /\ patience' = IF added THEN patience - 1 ELSE patience
          /\ should_stop' <=> patience' < 0
      <4>1. InGracePeriod <=> ~added
        BY <1>2, <1>6, <3>1, StopperConstants
      <4>2. /\ patience' = IF InGracePeriod THEN patience ELSE patience - 1
            /\ should_stop' = (should_stop \/ patience' < 0)
        BY <2>7 DEF SimpleWaits
      <4>. HIDE DEF added
      <4>. QED
        BY <1>9, <4>1, <4>2
    <3>4. patience' = BufferStates - Cardinality(NotImproving)'
      BY <1>3, <2>1, <3>3, StopperConstants
    <3>5. Cardinality(NotImproving)' \in Nat /\ patience' \in Int
      BY <1>3, <3>4, StopperConstants
    <3>6. CASE should_stop'
      <4>1. Cardinality(NotImproving)' > BufferStates
        BY <3>3, <3>4, <3>5, <3>6, StopperConstants
      <4>. QED
        BY <1>2, <3>6, <4>1 DEF SimpleInv, SimpleDue
    <3>7. CASE ~should_stop'
      BY <1>2, <3>1, <3>2, <3>3, <3>4, <3>5, <3>7, StopperConstants DEF SimpleInv
    <3>. QED
      BY <3>6, <3>7
  <2>. QED
    BY <2>4, <2>5, <2>6, <2>7 DEF SimpleStopper
<1>. QED
  BY <1>8, <1>9

-----------------------------------------------------------------------------
(* GrowthStopper and MaxSamplesStopper.                                    *)

\* Only the new trial may fail to differ from the first one.
LEMMA NotGrowingGrows ==
  ASSUME StopperTypesOK, NEW tried, NEW result \in Results(kind), Seen(tried, result),
         history # <<>> => last_metric = history[1].metric
  PROVE  LET n == Len(history)
             added == history # <<>> /\ BelowThreshold(result.metric)
         IN  /\ Cardinality(NotGrowing) \in Nat
             /\ Cardinality(NotGrowing)' =
                  IF added THEN Cardinality(NotGrowing) + 1 ELSE Cardinality(NotGrowing)
<1>. DEFINE n == Len(history)
            added == history # <<>> /\ BelowThreshold(result.metric)
<1>1. /\ n \in Nat /\ Told = 1 .. n /\ Told' = Told \cup {n + 1} /\ n + 1 \notin Told
      /\ \A k \in Told : history'[k] = history[k] /\ history[k] \in Results(kind)
      /\ history'[n + 1] = result
  BY HistoryGrows
<1>2. (history = <<>> <=> n = 0) /\ (n > 0 => 1 \in Told)
  BY <1>1 DEF StopperTypesOK
<1>3. \A k \in Told : k # 1 => (k \in NotGrowing' <=> k \in NotGrowing)
  BY <1>1, <1>2 DEF NotGrowing
<1>4. n + 1 \in NotGrowing' <=> added
  <2>1. CASE n = 0
    BY <1>2, <2>1 DEF NotGrowing
  <2>2. CASE n > 0
    <3>1. /\ n + 1 \in Told' \ {1} /\ history'[1] = history[1]
          /\ last_metric = history[1].metric
          /\ result.metric \in Int /\ history[1].metric \in Int
      BY <1>1, <1>2, <2>2, ResultTypes
    <3>2. n + 1 \in NotGrowing' <=>
            /\ NaN \notin {result.metric, last_metric}
            /\ result.metric - last_metric \in 1 - GrowthThreshold .. GrowthThreshold - 1
      BY <1>1, <3>1 DEF NotGrowing
    <3>. QED
      BY <1>2, <2>2, <3>1, <3>2, StopperConstants DEF BelowThreshold
  <2>. QED
    BY <1>1, <2>1, <2>2
<1>5. NotGrowing \subseteq Told \ {1} /\ NotGrowing' \subseteq Told' \ {1}
  BY DEF NotGrowing
<1>6. CASE added
  <2>1. NotGrowing' = NotGrowing \cup {n + 1}
    <3>. HIDE DEF added
    <3>. QED
      BY <1>1, <1>3, <1>4, <1>5, <1>6
  <2>. QED
    BY <1>1, <1>5, <1>6, <2>1, OneMore
<1>7. CASE ~added
  <2>1. NotGrowing' \subseteq Told \ {1}
    <3>. HIDE DEF added
    <3>. QED
      BY <1>1, <1>4, <1>5, <1>7
  <2>2. NotGrowing' = NotGrowing
    BY <1>3, <1>5, <2>1
  <2>. QED
    BY <1>1, <1>5, <1>7, <2>2, OneMore
<1>. QED
  BY <1>6, <1>7

LEMMA GrowthNext ==
  ASSUME StopperInv, NEW tried, NEW result \in Results(kind),
         GrowthStopper(tried, result)
  PROVE  GrowthInv'
<1>. DEFINE n == Len(history)
            added == history # <<>> /\ BelowThreshold(result.metric)
<1>1. /\ kind = "Growth" /\ StopperTypesOK /\ GrowthInv
      /\ Seen(tried, result) /\ trials_num' = trials_num + 1
  BY DEF StopperInv, GrowthStopper
<1>2. /\ n \in Nat /\ Len(history') = n + 1 /\ trials_num' = n + 1 /\ trials_num = n
      /\ (history = <<>> <=> n = 0) /\ history' # <<>>
      /\ history'[n + 1] = result /\ (n > 0 => history'[1] = history[1])
  BY <1>1, HistoryGrows DEF GrowthInv, StopperTypesOK
<1>3. /\ Cardinality(NotGrowing) \in Nat
      /\ Cardinality(NotGrowing)' =
           IF added THEN Cardinality(NotGrowing) + 1 ELSE Cardinality(NotGrowing)
  BY <1>1, NotGrowingGrows DEF GrowthInv
<1>4. /\ patience = GraceTrials - Cardinality(NotGrowing)
      /\ should_stop <=> patience < 0
      /\ should_stop \in BOOLEAN
  BY <1>1 DEF GrowthInv, StopperTypesOK
<1>5. CASE n = 0
  <2>1. last_metric' = result.metric /\ patience' = patience /\ should_stop' = should_stop
    BY <1>2, <1>5 DEF GrowthStopper
  <2>2. last_metric' = history'[1].metric
    BY <1>2, <1>5, <2>1
  <2>3. Cardinality(NotGrowing)' = Cardinality(NotGrowing)
    BY <1>2, <1>3, <1>5
  <2>. QED
    BY <1>2, <1>4, <2>1, <2>2, <2>3 DEF GrowthInv
<1>6. CASE n > 0
  <2>1. /\ last_metric' = last_metric
        /\ patience' = IF added THEN patience - 1 ELSE patience
        /\ should_stop' = (should_stop \/ patience' < 0)
    BY <1>2, <1>6 DEF GrowthStopper
  <2>2. last_metric' = history'[1].metric
    BY <1>1, <1>2, <1>6, <2>1 DEF GrowthInv
  <2>3. patience' = GraceTrials - Cardinality(NotGrowing)'
    <3>. HIDE DEF added
    <3>. QED
      BY <1>3, <1>4, <2>1, StopperConstants
  <2>4. patience < 0 => patience' < 0
    <3>. HIDE DEF added
    <3>. QED
      BY <1>3, <1>4, <2>1, StopperConstants
  <2>5. should_stop' <=> patience' < 0
    BY <1>4, <2>1, <2>4
  <2>. QED
    BY <1>2, <2>2, <2>3, <2>5 DEF GrowthInv
<1>. QED
  BY <1>2, <1>5, <1>6

LEMMA MaxSamplesNext ==
  ASSUME StopperInv, NEW tried, NEW result \in Results(kind),
         MaxSamplesStopper(tried, result)
  PROVE  MaxSamplesInv'
<1>1. /\ kind = "MaxSamples" /\ StopperTypesOK /\ MaxSamplesInv
      /\ Seen(tried, result) /\ trials_num' = trials_num + 1
      /\ should_stop' = (trials_num' >= MaxSamples \/ should_stop)
  BY DEF StopperInv, MaxSamplesStopper
<1>2. Len(history) \in Nat /\ Len(history') = Len(history) + 1 /\ history' # <<>>
  BY <1>1, HistoryGrows
<1>3. trials_num' = Len(history')
  BY <1>1, <1>2 DEF MaxSamplesInv
<1>4. should_stop => Len(history') >= MaxSamples
  BY <1>1, <1>2, StopperConstants DEF MaxSamplesInv
<1>5. should_stop' <=> Len(history') >= MaxSamples
  BY <1>1, <1>3, <1>4 DEF StopperTypesOK
<1>. QED
  BY <1>2, <1>3, <1>5 DEF MaxSamplesInv

-----------------------------------------------------------------------------
(* BayesianMetricDifferenceStopper.                                        *)

LEMMA DifferencesGrow ==
  ASSUME StopperTypesOK, NEW tried, NEW result \in Results(kind), Seen(tried, result)
  PROVE  LET n == Len(history) IN
         /\ \A k \in Told : Differences(k)' = Differences(k)
         /\ n \in Nat /\ Differences(n) \subseteq 1 .. n
         /\ \A m : m = n + 1 =>
              Differences(m)' = IF result.metric = NaN THEN Differences(n)
                                                       ELSE Differences(n) \cup {m}
<1>. DEFINE n == Len(history)
<1>1. /\ n \in Nat /\ Told = 1 .. n /\ n + 1 \notin Told
      /\ \A k \in Told : history'[k] = history[k]
      /\ history'[n + 1] = result
  BY HistoryGrows
<1>2. ASSUME NEW k \in Told PROVE Differences(k)' = Differences(k)
  <2>1. \A j \in 1 .. k : j \in Told
    BY <1>1
  <2>. QED
    BY <1>1, <2>1 DEF Differences
<1>3. ASSUME NEW m, m = n + 1
      PROVE  Differences(m)' = IF result.metric = NaN THEN Differences(n)
                                                      ELSE Differences(n) \cup {m}
  <2>1. 1 .. m = Told \cup {m} /\ m \notin Told
    BY <1>1, <1>3
  <2>. QED
    BY <1>1, <1>3, <2>1 DEF Differences
<1>4. Differences(n) \subseteq 1 .. n
  BY DEF Differences
<1>. QED
  BY <1>1, <1>2, <1>3, <1>4

LEMMA DifferenceNext ==
  ASSUME StopperInv, NEW tried, NEW result \in Results(kind),
         BayesianMetricDifferenceStopper(tried, result)
  PROVE  DifferenceInv'
<1>1. /\ kind = "MetricDifference" /\ StopperTypesOK /\ DifferenceInv
      /\ Seen(tried, result) /\ ~should_stop
      /\ trials_num' = IF result.metric = NaN THEN trials_num ELSE trials_num + 1
      /\ should_stop' = (/\ result.metric # NaN
                         /\ trials_num' >= MinSamples
                         /\ result.verdict # "undecided")
  BY DEF StopperInv, BayesianMetricDifferenceStopper, Judges
<1>. SUFFICES ASSUME NEW n, n = Len(history), NEW m, m = n + 1
              PROVE  DifferenceInv'
  OBVIOUS
<1>2. /\ n \in Nat /\ Len(history') = m
      /\ Told = 1 .. n /\ Told' = Told \cup {m} /\ m \notin Told
      /\ \A k \in Told : history'[k] = history[k]
      /\ history'[m] = result
  BY <1>1, HistoryGrows
<1>3. /\ \A k \in Told : Differences(k)' = Differences(k)
      /\ Differences(n) \subseteq 1 .. n
      /\ Differences(m)' = IF result.metric = NaN THEN Differences(n)
                                                  ELSE Differences(n) \cup {m}
  BY <1>1, <1>2, DifferencesGrow
<1>4. /\ Cardinality(Differences(n)) \in Nat
      /\ Cardinality(Differences(n) \cup {m}) = Cardinality(Differences(n)) + 1
  BY <1>2, <1>3, OneMore
<1>5. trials_num = Cardinality(Differences(n))
  BY <1>1 DEF DifferenceInv
<1>6. trials_num' = Cardinality(Differences(m)')
  BY <1>1, <1>3, <1>4, <1>5
<1>7. (Cardinality(Differences(Len(history))))' = Cardinality(Differences(m)')
  BY <1>2 DEF Differences
<1>8. m \in Differences(m)' <=> result.metric # NaN
  BY <1>2, <1>3
<1>. DEFINE Sure(k) == /\ k \in Differences(k) /\ history[k].verdict # "undecided"
                       /\ Cardinality(Differences(k)) >= MinSamples
<1>9. \A k \in Told : ~Sure(k) /\ ~Sure(k)'
  BY <1>1, <1>2, <1>3 DEF DifferenceInv, MetricDifferenceDue
<1>10. Sure(m)' <=> should_stop'
  BY <1>1, <1>2, <1>6, <1>8
<1>11. MetricDifferenceDue' <=> \E k \in Told' : Sure(k)'
  BY DEF MetricDifferenceDue
<1>. HIDE DEF Sure
<1>12. MetricDifferenceDue' <=> should_stop'
  BY <1>2, <1>9, <1>10, <1>11
<1>. QED
  BY <1>6, <1>7, <1>12 DEF DifferenceInv

-----------------------------------------------------------------------------
(* InformationGainStopper.                                                 *)

LEMMA ParsedNow ==
  ASSUME StopperTypesOK, NEW n, n = Len(history)
  PROVE  /\ n \in Nat /\ Told = 1 .. n
         /\ \A k \in Told \cup {n} : /\ Parsed(k) \subseteq 1 .. n
                                      /\ IsFiniteSet(Parsed(k))
                                      /\ Cardinality(Parsed(k)) \in Nat
                                      /\ Cardinality(Parsed(k)) <= Cardinality(Parsed(n))
         /\ \A k \in Told : /\ SamplesSince(k) \in Nat
                             /\ SamplesSince(k) = Cardinality(Parsed(n)) - Cardinality(Parsed(k))
         /\ Calculated \subseteq 1 .. n
         /\ Cardinality(Calculated) \in Nat
<1>1. n \in Nat /\ Told = 1 .. n
  BY DEF StopperTypesOK, Told
<1>2. ASSUME NEW k \in Told \cup {n}
      PROVE  /\ Parsed(k) \subseteq Parsed(n) /\ Parsed(k) \subseteq 1 .. n
             /\ IsFiniteSet(Parsed(k)) /\ Cardinality(Parsed(k)) \in Nat
             /\ Cardinality(Parsed(k)) <= Cardinality(Parsed(n))
  <2>1. k \in Int /\ k <= n
    BY <1>1
  <2>2. Parsed(k) \subseteq Parsed(n) /\ Parsed(n) \subseteq 1 .. n
    BY <1>1, <2>1 DEF Parsed
  <2>3. IsFiniteSet(1 .. n)
    BY <1>1, FS_Interval
  <2>4. IsFiniteSet(Parsed(n))
    BY <2>2, <2>3, FS_Subset
  <2>5. /\ IsFiniteSet(Parsed(k)) /\ Cardinality(Parsed(k)) <= Cardinality(Parsed(n))
        /\ Cardinality(Parsed(k)) \in Nat
    BY <2>2, <2>4, FS_Subset, FS_CardinalityType
  <2>. QED
    BY <2>2, <2>5
<1>3. \A k \in Told :
        /\ SamplesSince(k) \in Nat
        /\ SamplesSince(k) = Cardinality(Parsed(n)) - Cardinality(Parsed(k))
  BY <1>2 DEF SamplesSince
<1>4. Calculated \subseteq 1 .. n
  BY <1>1 DEF Calculated
<1>. QED
  BY <1>1, <1>2, <1>3, <1>4, OneMore

LEMMA ParsedGrows ==
  ASSUME StopperTypesOK, NEW tried, NEW result \in Results(kind), Seen(tried, result),
         NEW n, n = Len(history), NEW m, m = n + 1
  PROVE  /\ \A k \in Told : Parsed(k)' = Parsed(k)
         /\ result.verdict = "unparsable" =>
              /\ Cardinality(Parsed(m)') = Cardinality(Parsed(n))
              /\ Calculated' = Calculated
              /\ \A k \in Told : SamplesSince(k)' = SamplesSince(k)
         /\ result.verdict # "unparsable" =>
              /\ Cardinality(Parsed(m)') = Cardinality(Parsed(n)) + 1
              /\ Calculated' = IF Cardinality(Parsed(n)) + 1 >= MinSamples
                                 THEN Calculated \cup {m} ELSE Calculated
              /\ SamplesSince(m)' = 0
              /\ \A k \in Told : SamplesSince(k)' = SamplesSince(k) + 1
         /\ (Cardinality(Parsed(Len(history))))' = Cardinality(Parsed(m)')
<1>1. /\ n \in Nat /\ Told = 1 .. n /\ Told' = Told \cup {m} /\ m \notin Told
      /\ \A k \in Told : history'[k] = history[k]
      /\ history'[m] = result /\ Len(history') = m
  BY HistoryGrows
<1>2. ASSUME NEW k \in Told PROVE Parsed(k)' = Parsed(k)
  <2>1. \A j \in 1 .. k : j \in Told
    BY <1>1
  <2>. QED
    BY <1>1, <2>1 DEF Parsed
<1>3. Parsed(m)' = IF result.verdict = "unparsable" THEN Parsed(n)
                                                    ELSE Parsed(n) \cup {m}
  <2>1. 1 .. m = Told \cup {m}
    BY <1>1
  <2>. QED
    BY <1>1, <2>1 DEF Parsed
<1>4. /\ Parsed(n) \subseteq 1 .. n /\ Cardinality(Parsed(n)) \in Nat
      /\ Cardinality(Parsed(n) \cup {m}) = Cardinality(Parsed(n)) + 1
  BY <1>1, ParsedNow, OneMore
<1>5. (Cardinality(Parsed(Len(history))))' = Cardinality(Parsed(m)')
  BY <1>1 DEF Parsed
<1>6. \A k \in Told : SamplesSince(k)' = Cardinality(Parsed(m)') - Cardinality(Parsed(k))
  BY <1>2, <1>5 DEF SamplesSince
<1>7. \A k \in Told :
        /\ SamplesSince(k) = Cardinality(Parsed(n)) - Cardinality(Parsed(k))
        /\ Cardinality(Parsed(k)) \in Nat
  BY ParsedNow
<1>8. SamplesSince(m)' = Cardinality(Parsed(m)') - Cardinality(Parsed(m)')
  BY <1>5 DEF SamplesSince
<1>9. Calculated \subseteq Told /\ Calculated' \subseteq Told'
  BY DEF Calculated
<1>10. \A k \in Told : k \in Calculated' <=> k \in Calculated
  BY <1>1, <1>2 DEF Calculated
<1>11. m \in Calculated' <=> m \in Parsed(m)' /\ Cardinality(Parsed(m)') >= MinSamples
  BY <1>1 DEF Calculated
<1>12. CASE result.verdict = "unparsable"
  <2>1. Parsed(m)' = Parsed(n) /\ m \notin Parsed(m)'
    BY <1>1, <1>3, <1>4, <1>12
  <2>2. Calculated' = Calculated
    BY <1>1, <1>9, <1>10, <1>11, <2>1
  <2>3. \A k \in Told : SamplesSince(k)' = SamplesSince(k)
    BY <1>6, <1>7, <2>1
  <2>. QED
    BY <1>2, <1>5, <1>12, <2>1, <2>2, <2>3
<1>13. CASE result.verdict # "unparsable"
  <2>1. /\ Cardinality(Parsed(m)') = Cardinality(Parsed(n)) + 1 /\ m \in Parsed(m)'
    BY <1>3, <1>4, <1>13
  <2>2. m \in Calculated' <=> Cardinality(Parsed(n)) + 1 >= MinSamples
    BY <1>11, <2>1
  <2>3. CASE Cardinality(Parsed(n)) + 1 >= MinSamples
    <3>1. Calculated' = Calculated \cup {m}
      BY <1>1, <1>9, <1>10, <2>2, <2>3
    <3>2. SamplesSince(m)' = 0 /\ \A k \in Told : SamplesSince(k)' = SamplesSince(k) + 1
      BY <1>4, <1>6, <1>7, <1>8, <2>1
    <3>. QED
      BY <1>2, <1>5, <1>13, <2>1, <2>3, <3>1, <3>2
  <2>4. CASE ~(Cardinality(Parsed(n)) + 1 >= MinSamples)
    <3>0. m \notin Calculated'
      BY <2>2, <2>4
    <3>1. Calculated' = Calculated
      BY <1>1, <1>9, <1>10, <3>0
    <3>2. SamplesSince(m)' = 0 /\ \A k \in Told : SamplesSince(k)' = SamplesSince(k) + 1
      BY <1>4, <1>6, <1>7, <1>8, <2>1
    <3>. QED
      BY <1>2, <1>5, <1>13, <2>1, <2>4, <3>1, <3>2
  <2>. QED
    BY <2>3, <2>4
<1>. QED
  BY <1>12, <1>13

\* Before min_samples nothing is calculated.
LEMMA NotCalculatedBefore ==
  ASSUME StopperTypesOK, Cardinality(Parsed(Len(history))) < MinSamples
  PROVE  Calculated = {}
<1>1. \A k \in Told : /\ Cardinality(Parsed(k)) \in Nat
                       /\ Cardinality(Parsed(Len(history))) \in Nat
                       /\ Cardinality(Parsed(k)) <= Cardinality(Parsed(Len(history)))
  BY ParsedNow
<1>. QED
  BY <1>1, StopperConstants DEF Calculated

\* One more calculation, and a counter that counts on or starts again.
LEMMA RowGrows ==
  ASSUME StopperTypesOK, NEW tried, NEW result \in Results(kind), Seen(tried, result),
         NEW n, n = Len(history), NEW m, m = n + 1,
         result.verdict # "unparsable", Cardinality(Parsed(n)) + 1 >= MinSamples,
         NEW verdicts, NEW count, InARow(count, verdicts),
         NEW next, next = IF result.verdict \in verdicts THEN count + 1 ELSE 0
  PROVE  /\ next \in 0 .. Cardinality(Calculated')
         /\ \A k \in Calculated' :
              SamplesSince(k)' < next => history'[k].verdict \in verdicts
         /\ next < Cardinality(Calculated') =>
              \E k \in Calculated' :
                SamplesSince(k)' = next /\ history'[k].verdict \notin verdicts
<1>1. /\ n \in Nat /\ Told = 1 .. n /\ m \notin Told
      /\ \A k \in Told : history'[k] = history[k]
      /\ history'[m] = result
  BY HistoryGrows
<1>2. /\ Calculated \subseteq Told /\ Cardinality(Calculated) \in Nat
      /\ \A k \in Told : SamplesSince(k) \in Nat
  BY <1>1, ParsedNow
<1>3. /\ Calculated' = Calculated \cup {m} /\ SamplesSince(m)' = 0
      /\ \A k \in Told : SamplesSince(k)' = SamplesSince(k) + 1
  BY ParsedGrows
<1>4. Cardinality(Calculated') = Cardinality(Calculated) + 1
  BY <1>1, <1>2, <1>3, OneMore
<1>5. /\ count \in 0 .. Cardinality(Calculated)
      /\ \A k \in Calculated : SamplesSince(k) < count => history[k].verdict \in verdicts
      /\ count < Cardinality(Calculated) =>
           \E k \in Calculated : SamplesSince(k) = count /\ history[k].verdict \notin verdicts
  BY DEF InARow
<1>6. CASE result.verdict \in verdicts
  <2>1. next = count + 1
    BY <1>6
  <2>2. ASSUME NEW k \in Calculated', SamplesSince(k)' < next
        PROVE  history'[k].verdict \in verdicts
    <3>1. CASE k = m
      BY <1>1, <1>6, <3>1
    <3>2. CASE k \in Calculated
      <4>1. SamplesSince(k) < count
        BY <1>2, <1>3, <1>5, <2>1, <2>2, <3>2
      <4>. QED
        BY <1>1, <1>2, <1>5, <3>2, <4>1
    <3>. QED
      BY <1>3, <3>1, <3>2
  <2>3. ASSUME next < Cardinality(Calculated')
        PROVE  \E k \in Calculated' :
                 SamplesSince(k)' = next /\ history'[k].verdict \notin verdicts
    <3>1. PICK k \in Calculated : SamplesSince(k) = count /\ history[k].verdict \notin verdicts
      BY <1>2, <1>4, <1>5, <2>1, <2>3
    <3>2. /\ k \in Calculated' /\ SamplesSince(k)' = next
          /\ history'[k].verdict \notin verdicts
      BY <1>1, <1>2, <1>3, <2>1, <3>1
    <3>. QED
      BY <3>2
  <2>. QED
    BY <1>2, <1>4, <1>5, <2>1, <2>2, <2>3
<1>7. CASE result.verdict \notin verdicts
  <2>1. next = 0
    BY <1>7
  <2>2. \A k \in Calculated' : SamplesSince(k)' \in Nat
    BY <1>2, <1>3
  <2>3. m \in Calculated' /\ SamplesSince(m)' = next /\ history'[m].verdict \notin verdicts
    BY <1>1, <1>3, <1>7, <2>1
  <2>. QED
    BY <1>2, <1>4, <2>1, <2>2, <2>3
<1>. QED
  BY <1>6, <1>7

\* The two counters tell whether a calculation is due to be the last one.
LEMMA GainDueIs ==
  /\ StopperTypesOK
  /\ \A k \in Calculated : history[k].verdict # "fails"
  /\ InARow(below_cnt, {"converging", "ranksChange"})
  /\ InARow(no_changes_cnt, {"converging", "informationGrows"})
  => (InformationGainDue <=> ~NotDueYet)
<1>. SUFFICES ASSUME StopperTypesOK,
                     \A k \in Calculated : history[k].verdict # "fails",
                     InARow(below_cnt, {"converging", "ranksChange"}),
                     InARow(no_changes_cnt, {"converging", "informationGrows"})
              PROVE  InformationGainDue <=> ~NotDueYet
  OBVIOUS
<1>1. /\ Calculated \subseteq Told /\ Cardinality(Calculated) \in Nat
      /\ \A k \in Told : SamplesSince(k) \in Nat
  BY ParsedNow
<1>2. /\ below_cnt \in Nat /\ below_cnt <= Cardinality(Calculated)
      /\ no_changes_cnt \in Nat /\ no_changes_cnt <= Cardinality(Calculated)
  BY <1>1 DEF InARow
<1>3. ASSUME ~NotDueYet PROVE InformationGainDue
  <2>1. /\ Calculated # {} /\ below_cnt >= SamplesBelowLimit
        /\ no_changes_cnt >= SamplesBelowLimit
    BY <1>2, <1>3, StopperConstants DEF NotDueYet
  <2>2. ASSUME NEW k \in Calculated, SamplesSince(k) < SamplesBelowLimit
        PROVE  history[k].verdict = "converging"
    <3>1. SamplesSince(k) < below_cnt /\ SamplesSince(k) < no_changes_cnt
      BY <1>1, <1>2, <2>1, <2>2, StopperConstants
    <3>2. /\ history[k].verdict \in {"converging", "ranksChange"}
          /\ history[k].verdict \in {"converging", "informationGrows"}
      BY <2>2, <3>1 DEF InARow
    <3>. QED
      BY <3>2
  <2>. QED
    BY <1>1, <1>2, <2>1, <2>2, StopperConstants DEF InformationGainDue
<1>4. ASSUME NotDueYet, InformationGainDue PROVE FALSE
  <2>1. /\ Calculated # {} /\ Cardinality(Calculated) >= SamplesBelowLimit
        /\ \A k \in Calculated :
             SamplesSince(k) < SamplesBelowLimit => history[k].verdict = "converging"
    BY <1>4 DEF InformationGainDue
  <2>2. CASE below_cnt < SamplesBelowLimit
    <3>1. PICK k \in Calculated :
            SamplesSince(k) = below_cnt /\ history[k].verdict \notin {"converging", "ranksChange"}
      BY <1>1, <1>2, <2>1, <2>2, StopperConstants DEF InARow
    <3>. QED
      BY <2>1, <2>2, <3>1
  <2>3. CASE no_changes_cnt < SamplesBelowLimit
    <3>1. PICK k \in Calculated :
            /\ SamplesSince(k) = no_changes_cnt
            /\ history[k].verdict \notin {"converging", "informationGrows"}
      BY <1>1, <1>2, <2>1, <2>3, StopperConstants DEF InARow
    <3>. QED
      BY <2>1, <2>3, <3>1
  <2>. QED
    BY <1>4, <2>1, <2>2, <2>3 DEF NotDueYet
<1>. QED
  BY <1>3, <1>4

LEMMA GainNext ==
  ASSUME StopperInv, NEW tried, NEW result \in Results(kind),
         InformationGainStopper(tried, result)
  PROVE  GainInv'
<1>1. /\ kind = "InformationGain" /\ StopperTypesOK /\ GainInv
      /\ Seen(tried, result) /\ ~should_stop
  BY DEF StopperInv, InformationGainStopper, Judges
<1>. SUFFICES ASSUME NEW n, n = Len(history), NEW m, m = n + 1
              PROVE  GainInv'
  OBVIOUS
<1>2. /\ n \in Nat /\ Told = 1 .. n /\ m \notin Told
      /\ \A k \in Told : history'[k] = history[k]
      /\ history'[m] = result
  BY <1>1, HistoryGrows
<1>3. /\ trials_num = Cardinality(Parsed(n)) /\ trials_num \in Nat
      /\ \A k \in Calculated : history[k].verdict # "fails"
      /\ InARow(below_cnt, {"converging", "ranksChange"})
      /\ InARow(no_changes_cnt, {"converging", "informationGrows"})
      /\ NotDueYet
  BY <1>1, ParsedNow DEF GainInv
<1>4. Calculated \subseteq Told
  BY <1>1, <1>2, ParsedNow
<1>5. /\ (Cardinality(Parsed(Len(history))))' = Cardinality(Parsed(m)')
      /\ result.verdict = "unparsable" =>
           /\ Cardinality(Parsed(m)') = Cardinality(Parsed(n))
           /\ Calculated' = Calculated
           /\ \A k \in Told : SamplesSince(k)' = SamplesSince(k)
      /\ result.verdict # "unparsable" =>
           /\ Cardinality(Parsed(m)') = Cardinality(Parsed(n)) + 1
           /\ Calculated' = IF Cardinality(Parsed(n)) + 1 >= MinSamples
                              THEN Calculated \cup {m} ELSE Calculated
           /\ SamplesSince(m)' = 0
           /\ \A k \in Told : SamplesSince(k)' = SamplesSince(k) + 1
  BY <1>1, ParsedGrows
\* A result that changes neither the counters nor what was calculated.
<1>6. ASSUME UNCHANGED <<should_stop, GainVars>>, Calculated' = Calculated,
             trials_num' = Cardinality(Parsed(m)'),
             \A k \in Calculated : SamplesSince(k)' = SamplesSince(k)
      PROVE  GainInv'
  <2>1. \A k \in Calculated' : history'[k].verdict # "fails"
    BY <1>2, <1>3, <1>4, <1>6
  <2>2. /\ InARow(below_cnt, {"converging", "ranksChange"})'
        /\ InARow(no_changes_cnt, {"converging", "informationGrows"})'
    <3>1. ASSUME NEW count, NEW count2, count2 = count, NEW verdicts, InARow(count, verdicts)
          PROVE  /\ count2 \in 0 .. Cardinality(Calculated')
                 /\ \A k \in Calculated' :
                      SamplesSince(k)' < count2 => history'[k].verdict \in verdicts
                 /\ count2 < Cardinality(Calculated') =>
                      \E k \in Calculated' :
                        SamplesSince(k)' = count2 /\ history'[k].verdict \notin verdicts
      BY <1>2, <1>4, <1>6, <3>1 DEF InARow
    <3>2. /\ below_cnt' \in 0 .. Cardinality(Calculated')
          /\ \A k \in Calculated' :
               SamplesSince(k)' < below_cnt' => history'[k].verdict \in {"converging", "ranksChange"}
          /\ below_cnt' < Cardinality(Calculated') =>
               \E k \in Calculated' :
                 SamplesSince(k)' = below_cnt' /\ history'[k].verdict \notin {"converging", "ranksChange"}
      BY <1>3, <1>6, <3>1 DEF GainVars
    <3>3. /\ no_changes_cnt' \in 0 .. Cardinality(Calculated')
          /\ \A k \in Calculated' :
               SamplesSince(k)' < no_changes_cnt' => history'[k].verdict \in {"converging", "informationGrows"}
          /\ no_changes_cnt' < Cardinality(Calculated') =>
               \E k \in Calculated' :
                 SamplesSince(k)' = no_changes_cnt' /\ history'[k].verdict \notin {"converging", "informationGrows"}
      BY <1>3, <1>6, <3>1 DEF GainVars
    <3>4. InARow(below_cnt, {"converging", "ranksChange"})'
      BY <3>2 DEF InARow
    <3>5. InARow(no_changes_cnt, {"converging", "informationGrows"})'
      BY <3>3 DEF InARow
    <3>. QED
      BY <3>4, <3>5
  <2>3. NotDueYet'
    BY <1>3, <1>6 DEF NotDueYet, GainVars
  <2>. QED
    BY <1>1, <1>5, <1>6, <2>1, <2>2, <2>3 DEF GainInv
<1>7. CASE GainIgnores(result)
  <2>1. result.verdict = "unparsable" /\ trials_num' = trials_num
        /\ UNCHANGED <<should_stop, GainVars>>
    BY <1>7 DEF GainIgnores
  <2>. QED
    BY <1>3, <1>4, <1>5, <1>6, <2>1
<1>8. CASE GainCollects(result)
  <2>1. /\ result.verdict # "unparsable" /\ trials_num' = trials_num + 1
        /\ trials_num' < MinSamples /\ UNCHANGED <<should_stop, GainVars>>
    BY <1>8 DEF GainCollects
  <2>2. Calculated = {}
    BY <1>1, <1>3, <2>1, NotCalculatedBefore, StopperConstants
  <2>3. Calculated' = Calculated
    BY <1>3, <1>5, <2>1, StopperConstants
  <2>. QED
    BY <1>3, <1>5, <1>6, <2>1, <2>2, <2>3
<1>9. CASE GainFails(result)
  <2>1. /\ result.verdict = "fails" /\ trials_num' = trials_num + 1
        /\ trials_num' >= MinSamples /\ should_stop'
    BY <1>9 DEF GainFails
  <2>2. Calculated' = Calculated \cup {m} /\ trials_num' = Cardinality(Parsed(m)')
    BY <1>3, <1>5, <2>1
  <2>3. InformationGainDue'
    BY <1>2, <2>1, <2>2 DEF InformationGainDue
  <2>. QED
    BY <1>5, <2>1, <2>2, <2>3 DEF GainInv
<1>10. CASE GainCalculates(result)
  <2>1. /\ result.verdict \notin {"unparsable", "fails"}
        /\ trials_num' = trials_num + 1 /\ trials_num' >= MinSamples
        /\ below_cnt' = IF result.verdict \in {"informationGrows", "diverging"}
                          THEN 0 ELSE below_cnt + 1
        /\ no_changes_cnt' = IF result.verdict \in {"ranksChange", "diverging"}
                               THEN 0 ELSE no_changes_cnt + 1
        /\ should_stop' = (/\ no_changes_cnt' >= SamplesBelowLimit
                           /\ below_cnt' >= SamplesBelowLimit)
    BY <1>10 DEF GainCalculates
  <2>2. result.verdict \in {"converging", "ranksChange", "informationGrows", "diverging"}
    BY <1>1, <2>1, ResultTypes DEF Verdicts
  <2>3. /\ below_cnt' = IF result.verdict \in {"converging", "ranksChange"}
                          THEN below_cnt + 1 ELSE 0
        /\ no_changes_cnt' = IF result.verdict \in {"converging", "informationGrows"}
                               THEN no_changes_cnt + 1 ELSE 0
    BY <2>1, <2>2
  <2>4. Calculated' = Calculated \cup {m} /\ trials_num' = Cardinality(Parsed(m)')
    BY <1>3, <1>5, <2>1
  <2>5. Cardinality(Parsed(n)) + 1 >= MinSamples /\ result.verdict # "unparsable"
    BY <1>3, <2>1
  <2>6. /\ InARow(below_cnt, {"converging", "ranksChange"})'
        /\ InARow(no_changes_cnt, {"converging", "informationGrows"})'
    <3>1. ASSUME NEW count, NEW next, NEW verdicts, InARow(count, verdicts),
                 next = IF result.verdict \in verdicts THEN count + 1 ELSE 0
          PROVE  /\ next \in 0 .. Cardinality(Calculated')
                 /\ \A k \in Calculated' :
                      SamplesSince(k)' < next => history'[k].verdict \in verdicts
                 /\ next < Cardinality(Calculated') =>
                      \E k \in Calculated' :
                        SamplesSince(k)' = next /\ history'[k].verdict \notin verdicts
      BY <1>1, <2>5, <3>1, RowGrows
    <3>2. /\ below_cnt' \in 0 .. Cardinality(Calculated')
          /\ \A k \in Calculated' :
               SamplesSince(k)' < below_cnt' => history'[k].verdict \in {"converging", "ranksChange"}
          /\ below_cnt' < Cardinality(Calculated') =>
               \E k \in Calculated' :
                 SamplesSince(k)' = below_cnt' /\ history'[k].verdict \notin {"converging", "ranksChange"}
      BY <1>3, <2>3, <3>1
    <3>3. /\ no_changes_cnt' \in 0 .. Cardinality(Calculated')
          /\ \A k \in Calculated' :
               SamplesSince(k)' < no_changes_cnt' => history'[k].verdict \in {"converging", "informationGrows"}
          /\ no_changes_cnt' < Cardinality(Calculated') =>
               \E k \in Calculated' :
                 SamplesSince(k)' = no_changes_cnt' /\ history'[k].verdict \notin {"converging", "informationGrows"}
      BY <1>3, <2>3, <3>1
    <3>4. InARow(below_cnt, {"converging", "ranksChange"})'
      BY <3>2 DEF InARow
    <3>5. InARow(no_changes_cnt, {"converging", "informationGrows"})'
      BY <3>3 DEF InARow
    <3>. QED
      BY <3>4, <3>5
  <2>7. (\A k \in Calculated : history[k].verdict # "fails")'
    BY <1>2, <1>3, <1>4, <2>1, <2>4
  <2>8. StopperTypesOK'
    BY <1>1, <2>1, HistoryGrows DEF StopperTypesOK
  <2>9. InformationGainDue' <=> ~NotDueYet'
    BY <2>6, <2>7, <2>8, GainDueIs, PTL
  <2>10. should_stop' <=> ~NotDueYet'
    <3>1. Calculated' # {} /\ below_cnt' \in Int /\ no_changes_cnt' \in Int
      BY <2>4, <2>6 DEF InARow
    <3>. QED
      BY <2>1, <3>1, StopperConstants DEF NotDueYet
  <2>. QED
    BY <1>5, <2>4, <2>6, <2>7, <2>9, <2>10 DEF GainInv
<1>. QED
  BY <1>7, <1>8, <1>9, <1>10 DEF InformationGainStopper

-----------------------------------------------------------------------------
(* Together.                                                               *)

LEMMA StopperInitInv == StopperInit => StopperInv
<1>. SUFFICES ASSUME StopperInit PROVE StopperInv
  OBVIOUS
<1>1. /\ kind \in Kinds /\ history = <<>> /\ Len(history) = 0 /\ Told = {}
      /\ trials_num = 0 /\ should_stop = FALSE
      /\ last_experiment = None /\ last_metric = NaN
      /\ patience = IF kind = "Simple" THEN BufferStates ELSE GraceTrials
      /\ below_cnt = 0 /\ no_changes_cnt = 0
  BY DEF StopperInit, Told
<1>2. /\ NotImproving = {} /\ NotGrowing = {} /\ Calculated = {}
      /\ Parsed(0) = {} /\ Differences(0) = {} /\ ~Repeated
  BY <1>1 DEF NotImproving, NotGrowing, Calculated, Parsed, Differences, Repeated
<1>3. StopperTypesOK
  <2>1. \A S : <<>> \in Seq(S)
    OBVIOUS
  <2>. QED
    BY <1>1, <2>1 DEF StopperTypesOK
<1>4. kind = "Simple" => SimpleInv
  BY <1>1, <1>2, NoneYet, StopperConstants DEF SimpleInv, LastAndBest
<1>5. kind = "Growth" => GrowthInv
  BY <1>1, <1>2, NoneYet, StopperConstants DEF GrowthInv
<1>6. kind = "MaxSamples" => MaxSamplesInv
  BY <1>1 DEF MaxSamplesInv
<1>7. GainInv
  <2>1. Cardinality(Calculated) = 0 /\ Cardinality(Parsed(Len(history))) = 0
    BY <1>1, <1>2, NoneYet
  <2>2. \A verdicts : InARow(0, verdicts)
    BY <1>2, <2>1 DEF InARow
  <2>. QED
    BY <1>1, <1>2, <2>1, <2>2 DEF GainInv, NotDueYet
<1>8. DifferenceInv
  BY <1>1, <1>2, NoneYet DEF DifferenceInv, MetricDifferenceDue
<1>. QED
  BY <1>3, <1>4, <1>5, <1>6, <1>7, <1>8 DEF StopperInv

LEMMA StopperTypesNext ==
  ASSUME StopperInv, NEW tried, NEW result \in Results(kind), Seen(tried, result),
         should_stop' \in BOOLEAN
  PROVE  StopperTypesOK' /\ kind' = kind
BY HistoryGrows DEF StopperInv, StopperTypesOK

LEMMA StopperNextInv == StopperInv /\ [StopperNext]_stopperVars => StopperInv'
<1>. SUFFICES ASSUME StopperInv, [StopperNext]_stopperVars PROVE StopperInv'
  OBVIOUS
<1>1. CASE UNCHANGED stopperVars
  <2>1. /\ kind' = kind /\ history' = history /\ should_stop' = should_stop
        /\ trials_num' = trials_num /\ last_metric' = last_metric
        /\ last_experiment' = last_experiment /\ patience' = patience
        /\ below_cnt' = below_cnt /\ no_changes_cnt' = no_changes_cnt
    BY <1>1 DEF stopperVars
  <2>2. StopperTypesOK'
    BY <2>1 DEF StopperInv, StopperTypesOK, Results, Verdicts
  <2>3. Told' = Told /\ Repeated' = Repeated
    BY <2>1 DEF Told, Repeated
  <2>4. NotImproving' = NotImproving /\ NotGrowing' = NotGrowing
    BY <2>1 DEF Told, NotImproving, Improves, NotGrowing
  <2>5. \A k : Parsed(k)' = Parsed(k) /\ Differences(k)' = Differences(k)
    BY <2>1 DEF Parsed, Differences
  <2>6. Calculated' = Calculated /\ \A k : SamplesSince(k)' = SamplesSince(k)
    BY <2>1, <2>3, <2>5 DEF Calculated, SamplesSince
  <2>7. SimpleInv' = SimpleInv
    BY <2>1, <2>3, <2>4 DEF SimpleInv, SimpleDue, Repeated, LastAndBest, Told
  <2>8. GrowthInv' = GrowthInv /\ MaxSamplesInv' = MaxSamplesInv
    BY <2>1, <2>4 DEF GrowthInv, MaxSamplesInv
  <2>9. GainInv' = GainInv
    BY <2>1, <2>5, <2>6 DEF GainInv, InARow, NotDueYet, InformationGainDue, Parsed
  <2>10. DifferenceInv' = DifferenceInv
    BY <2>1, <2>3, <2>5 DEF DifferenceInv, MetricDifferenceDue, Differences
  <2>. QED
    BY <2>1, <2>2, <2>7, <2>8, <2>9, <2>10 DEF StopperInv
<1>. SUFFICES ASSUME NEW tried \in TrialIds, NEW result \in Results(kind),
                     \/ SimpleStopper(tried, result)
                     \/ GrowthStopper(tried, result)
                     \/ MaxSamplesStopper(tried, result)
                     \/ InformationGainStopper(tried, result)
                     \/ BayesianMetricDifferenceStopper(tried, result)
              PROVE  StopperInv'
  BY <1>1 DEF StopperNext
<1>2. should_stop \in BOOLEAN
  BY DEF StopperInv, StopperTypesOK
<1>3. CASE SimpleStopper(tried, result)
  <2>1. kind = "Simple" /\ Seen(tried, result) /\ should_stop' \in BOOLEAN
    BY <1>2, <1>3 DEF SimpleStopper, SimpleRepeats, SimpleSkips, SimpleImproves, SimpleWaits
  <2>. QED
    BY <1>3, <2>1, SimpleNext, StopperTypesNext DEF StopperInv
<1>4. CASE GrowthStopper(tried, result)
  <2>1. kind = "Growth" /\ Seen(tried, result) /\ should_stop' \in BOOLEAN
    BY <1>2, <1>4 DEF GrowthStopper
  <2>. QED
    BY <1>4, <2>1, GrowthNext, StopperTypesNext DEF StopperInv
<1>5. CASE MaxSamplesStopper(tried, result)
  <2>1. kind = "MaxSamples" /\ Seen(tried, result) /\ should_stop' \in BOOLEAN
    BY <1>2, <1>5 DEF MaxSamplesStopper
  <2>. QED
    BY <1>5, <2>1, MaxSamplesNext, StopperTypesNext DEF StopperInv
<1>6. CASE InformationGainStopper(tried, result)
  <2>1. kind = "InformationGain" /\ Seen(tried, result) /\ should_stop' \in BOOLEAN
    BY <1>2, <1>6 DEF InformationGainStopper, GainIgnores, GainCollects, GainFails,
                      GainCalculates
  <2>. QED
    BY <1>6, <2>1, GainNext, StopperTypesNext DEF StopperInv
<1>7. CASE BayesianMetricDifferenceStopper(tried, result)
  <2>1. kind = "MetricDifference" /\ Seen(tried, result) /\ should_stop' \in BOOLEAN
    BY <1>2, <1>7 DEF BayesianMetricDifferenceStopper
  <2>. QED
    BY <1>7, <2>1, DifferenceNext, StopperTypesNext DEF StopperInv
<1>. QED
  BY <1>3, <1>4, <1>5, <1>6, <1>7

LEMMA StopperInvStopsWhenDue == StopperInv => StopsWhenDue
<1>. SUFFICES ASSUME StopperInv PROVE StopsWhenDue
  OBVIOUS
<1>1. StopperTypesOK /\ kind \in Kinds
  BY DEF StopperInv, StopperTypesOK
<1>2. CASE kind = "Simple"
  <2>1. SimpleInv
    BY <1>2 DEF StopperInv
  <2>2. Cardinality(NotImproving) \in Nat
    <3>1. Len(history) \in Nat /\ NotImproving \subseteq 1 .. Len(history)
      BY <1>1 DEF StopperTypesOK, NotImproving, Told
    <3>. QED
      BY <3>1, OneMore
  <2>3. ~should_stop => ~SimpleDue
    BY <2>1, <2>2, StopperConstants DEF SimpleInv, SimpleDue, Repeated
  <2>. QED
    BY <1>1, <1>2, <2>1, <2>3 DEF SimpleInv, StopsWhenDue
<1>3. CASE kind = "Growth"
  <2>1. GrowthInv
    BY <1>3 DEF StopperInv
  <2>2. Cardinality(NotGrowing) \in Nat
    <3>1. Len(history) \in Nat /\ NotGrowing \subseteq 1 .. Len(history)
      BY <1>1 DEF StopperTypesOK, NotGrowing, Told
    <3>. QED
      BY <3>1, OneMore
  <2>3. should_stop <=> GrowthDue
    BY <2>1, <2>2, StopperConstants DEF GrowthInv, GrowthDue
  <2>. QED
    BY <1>3, <2>3 DEF StopsWhenDue
<1>4. CASE kind = "MaxSamples"
  BY <1>4 DEF StopperInv, MaxSamplesInv, StopsWhenDue
<1>5. CASE kind = "InformationGain"
  <2>1. GainInv
    BY <1>5 DEF StopperInv
  <2>2. should_stop <=> InformationGainDue
    BY <1>1, <2>1, GainDueIs DEF GainInv
  <2>. QED
    BY <1>5, <2>2 DEF StopsWhenDue
<1>6. CASE kind = "MetricDifference"
  BY <1>6 DEF StopperInv, DifferenceInv, StopsWhenDue
<1>. QED
  BY <1>1, <1>2, <1>3, <1>4, <1>5, <1>6, StopperConstants

(***************************************************************************)
(* Whatever the settings and the results, each stopper wants to stop from  *)
(* the very trial on with which its documented criterion is met.           *)
(***************************************************************************)
THEOREM StoppersCorrect == StopperSpec => []StopsWhenDue
<1>1. StopperSpec => []StopperInv
  BY StopperInitInv, StopperNextInv, PTL DEF StopperSpec
<1>. QED
  BY <1>1, StopperInvStopsWhenDue, PTL
=============================================================================
