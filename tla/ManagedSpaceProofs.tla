------------------------- MODULE ManagedSpaceProofs -------------------------
(***************************************************************************)
(* Proofs about the discovery space manager, for any set of subscribers,   *)
(* any set of requests and any faults of the subscribers: the inductive    *)
(* invariant Inv, what completion means, that errors are reported, and     *)
(* that the manager implements StoreThenNotify; and about the space it     *)
(* manages: what the samplers draw from it can be measured, and is drawn   *)
(* once; and about TRIM on such a space: how much of their holdout sets    *)
(* its models have not seen, and what its budget is spent on.              *)
(***************************************************************************)
EXTENDS ManagedSpace, Trim, FiniteSetTheorems, SequenceTheorems, WellFoundedInduction,
        TLAPS

-----------------------------------------------------------------------------
(* Queues without duplicates.                                              *)

\* What a queue holds after one more element is appended.
LEMMA RangeOfAppend ==
  ASSUME NEW S, NEW seq \in Seq(S), NEW x \in S
  PROVE  Range(Append(seq, x)) = Range(seq) \cup {x}
<1>. DEFINE longer == Append(seq, x)
<1>1. /\ DOMAIN longer = 1 .. Len(seq) + 1
      /\ DOMAIN seq = 1 .. Len(seq)
      /\ Len(seq) \in Nat
      /\ \A k \in 1 .. Len(seq) : longer[k] = seq[k]
      /\ longer[Len(seq) + 1] = x
  OBVIOUS
<1>2. ASSUME NEW y \in Range(longer) PROVE y \in Range(seq) \cup {x}
  <2>1. PICK k \in 1 .. Len(seq) + 1 : y = longer[k]
    BY <1>1, <1>2 DEF Range
  <2>2. k \in 1 .. Len(seq) \/ k = Len(seq) + 1
    BY <1>1
  <2>. QED
    BY <1>1, <2>1, <2>2 DEF Range
<1>3. ASSUME NEW y \in Range(seq) \cup {x} PROVE y \in Range(longer)
  <2>1. CASE y = x
    BY <1>1, <2>1 DEF Range
  <2>2. CASE y \in Range(seq)
    BY <1>1, <2>2 DEF Range
  <2>. QED
    BY <1>3, <2>1, <2>2
<1>. QED
  BY <1>2, <1>3

\* A duplicate-free queue stays so when a new element is appended.
LEMMA DistinctAppend ==
  ASSUME NEW S, NEW seq \in Seq(S), NEW x \in S,
         Distinct(seq), x \notin Range(seq)
  PROVE  Distinct(Append(seq, x))
BY DEF Range, Distinct

\* Taking the head off a duplicate-free queue removes just that element.
LEMMA TakeHead ==
  ASSUME NEW S, NEW seq \in Seq(S), seq # <<>>, Distinct(seq)
  PROVE  /\ Head(seq) \in S
         /\ Head(seq) \in Range(seq)
         /\ Tail(seq) \in Seq(S)
         /\ Range(Tail(seq)) = Range(seq) \ {Head(seq)}
         /\ Distinct(Tail(seq))
<1>1. Len(seq) \in Nat \ {0} /\ Head(seq) = seq[1] /\ Head(seq) \in S
  OBVIOUS
<1>2. /\ Tail(seq) \in Seq(S)
      /\ Len(Tail(seq)) = Len(seq) - 1
      /\ \A k \in 1 .. Len(seq) - 1 : Tail(seq)[k] = seq[k + 1]
  OBVIOUS
<1>3. Distinct(Tail(seq))
  BY <1>1, <1>2 DEF Distinct
<1>4. ASSUME NEW x \in Range(Tail(seq)) PROVE x \in Range(seq) /\ x # Head(seq)
  BY <1>1, <1>2 DEF Range, Distinct
<1>5. ASSUME NEW x \in Range(seq), x # Head(seq) PROVE x \in Range(Tail(seq))
  <2>1. PICK k \in 1 .. Len(seq) : x = seq[k]
    BY DEF Range
  <2>2. k - 1 \in 1 .. Len(seq) - 1 /\ Tail(seq)[k - 1] = x
    BY <1>1, <1>2, <1>5, <2>1
  <2>3. DOMAIN Tail(seq) = 1 .. Len(seq) - 1
    BY <1>1, <1>2
  <2>. QED
    BY <2>2, <2>3 DEF Range
<1>6. Head(seq) \in Range(seq)
  BY <1>1 DEF Range
<1>. QED
  BY <1>1, <1>2, <1>3, <1>4, <1>5, <1>6

-----------------------------------------------------------------------------
(* The inductive invariant.                                                *)

\* Everything in Inv holds initially.
LEMMA InitInv == Init => Inv
<1>. SUFFICES ASSUME Init PROVE Inv
  OBVIOUS
<1>. USE DEF Init, ManagerInit
<1>1. TypeOK
  <2>1. queue \in Seq(Measured) /\ stored \in Seq(Measured)
    OBVIOUS
  <2>2. sent \in [Subscribers -> SUBSET Call]
    BY DEF Call
  <2>. QED
    BY <2>1, <2>2 DEF TypeOK, ManagerTypeOK
<1>2. Range(queue) = {} /\ Range(stored) = {} /\ Distinct(queue)
  BY DEF Range, Distinct
<1>3. OnePlace /\ NotifiedOnce /\ Informed
  BY <1>2 DEF OnePlace, NotifiedOnce, Informed
<1>4. Completion
  BY DEF Completion, UpdatesExecuted
<1>. QED
  BY <1>1, <1>3, <1>4 DEF Inv

\* No step leaves the type invariant.
LEMMA TypeStep == TypeOK /\ [Next]_vars => TypeOK'
<1>. SUFFICES ASSUME TypeOK, [Next]_vars PROVE TypeOK'
  OBVIOUS
<1>. USE DEF TypeOK, ManagerTypeOK, Call
<1>1. ASSUME NEW request \in Measured, Answer(request) PROVE TypeOK'
  BY <1>1 DEF Answer, managerVars
<1>2. ASSUME NEW s \in Subscribers, NEW call \in sent[s], ExecuteCall(s, call)
      PROVE  TypeOK'
  BY <1>2 DEF ExecuteCall, managerVars
<1>3. ASSUME NEW s \in Subscribers, Unsubscribe(s) \/ Crash(s) PROVE TypeOK'
  BY <1>3 DEF Unsubscribe, UnsubscribeFromUpdates, Crash, SubscriberCrashes,
              environmentVars
<1>4. CASE Start
  BY <1>4 DEF Start, StartMonitoring, environmentVars
<1>5. CASE AskToShutDown
  BY <1>5 DEF AskToShutDown, Shutdown
<1>6. CASE Monitor
  <2>. USE <1>6 DEF Monitor, environmentVars
  <2>1. CASE TestIsAlive
    BY <2>1 DEF TestIsAlive
  <2>2. CASE GetTimesOut
    BY <2>2 DEF GetTimesOut
  <2>3. CASE StoreAndNotify
    <3>. USE <2>3 DEF StoreAndNotify
    <3>1. Head(queue) \in Measured /\ Tail(queue) \in Seq(Measured)
      OBVIOUS
    <3>2. queue' \in Seq(Measured) /\ stored' \in Seq(Measured)
      BY <3>1
    <3>3. /\ sent' \in [Subscribers -> SUBSET Call]
          /\ subscribed' \in SUBSET Subscribers
          /\ promiseBroken' \in BOOLEAN
      BY <3>1 DEF Call
    <3>. QED
      BY <3>2, <3>3
  <2>4. CASE StoreFails
    <3>. USE <2>4 DEF StoreFails
    <3>1. queue' \in Seq(Measured)
      OBVIOUS
    <3>2. sent' \in [Subscribers -> SUBSET Call]
      BY DEF Call
    <3>. QED
      BY <3>1, <3>2
  <2>5. CASE MonitoringCompletes
    BY <2>5 DEF MonitoringCompletes
  <2>6. CASE GatherRaises
    BY <2>6 DEF GatherRaises
  <2>7. CASE NotifyRaises
    <3>. USE <2>7 DEF NotifyRaises
    <3>1. Head(queue) \in Measured /\ Tail(queue) \in Seq(Measured)
      OBVIOUS
    <3>2. queue' \in Seq(Measured) /\ stored' \in Seq(Measured)
      BY <3>1
    <3>3. /\ sent' \in [Subscribers -> SUBSET Call]
          /\ subscribed' \in SUBSET Subscribers
          /\ promiseBroken' \in BOOLEAN
      BY <3>1 DEF Call
    <3>. QED
      BY <3>2, <3>3
  <2>8. CASE ReportRaises
    <3>. USE <2>8 DEF ReportRaises
    <3>1. queue' \in Seq(Measured)
      OBVIOUS
    <3>2. sent' \in [Subscribers -> SUBSET Call] /\ subscribed' \in SUBSET Subscribers
      BY DEF Call
    <3>. QED
      BY <3>1, <3>2
  <2>. QED
    BY <2>1, <2>2, <2>3, <2>4, <2>5, <2>6, <2>7, <2>8 DEF MonitorStep, SendRaises
<1>7. CASE UNCHANGED vars
  BY <1>7 DEF vars, managerVars, environmentVars
<1>. QED
  BY <1>1, <1>2, <1>3, <1>4, <1>5, <1>6, <1>7 DEF Next

\* What is known of the request at the head of the measurement queue.
LEMMA QueueHead ==
  ASSUME TypeOK, OnePlace, queue # <<>>
  PROVE  /\ Head(queue) \in Measured
         /\ Head(queue) # ErrorReport
         /\ Head(queue) \in Range(queue)
         /\ Head(queue) \notin Range(stored) \cup unanswered
         /\ Range(Tail(queue)) = Range(queue) \ {Head(queue)}
         /\ Distinct(Tail(queue))
         /\ Range(Append(stored, Head(queue))) = Range(stored) \cup {Head(queue)}
<1>1. queue \in Seq(Measured) /\ stored \in Seq(Measured) /\ Distinct(queue)
  BY DEF TypeOK, ManagerTypeOK, OnePlace
<1>2. /\ Head(queue) \in Measured
      /\ Head(queue) \in Range(queue)
      /\ Range(Tail(queue)) = Range(queue) \ {Head(queue)}
      /\ Distinct(Tail(queue))
  BY <1>1, TakeHead
<1>3. Range(Append(stored, Head(queue))) = Range(stored) \cup {Head(queue)}
  BY <1>1, <1>2, RangeOfAppend
<1>4. Head(queue) \notin Range(stored) \cup unanswered
  BY <1>2 DEF OnePlace
<1>. QED
  BY <1>2, <1>3, <1>4, ManagerAssumption

\* A step that stores, or fails to, is the manager's and no one else's.
LEMMA StoreStep ==
  ASSUME TypeOK, [Next]_vars, StoreAndNotify \/ StoreFails \/ SendRaises
  PROVE  UNCHANGED environmentVars /\ UNCHANGED crashed
<1>1. /\ monitoring = "waiting" /\ monitoring' \in {"test", "unsent"}
      /\ crashed' = crashed
  BY DEF StoreAndNotify, StoreFails, SendRaises, NotifyRaises, ReportRaises
<1>. QED
  BY <1>1 DEF Next, Answer, ExecuteCall, Unsubscribe, UnsubscribeFromUpdates,
     Crash, SubscriberCrashes, Start, StartMonitoring, AskToShutDown, Shutdown,
     Monitor, vars, managerVars, environmentVars

\* The steps that leave the queue, the store and the actuators alone.
LEMMA QuietSteps ==
  ASSUME [Next]_vars,
         ~ (\E request \in Measured : Answer(request)),
         ~ StoreAndNotify, ~ StoreFails, ~ SendRaises
  PROVE  UNCHANGED <<queue, stored, unanswered>>
BY DEF Next, ExecuteCall, Unsubscribe, UnsubscribeFromUpdates, Crash,
       SubscriberCrashes, Start, StartMonitoring, AskToShutDown, Shutdown,
       Monitor, MonitorStep, TestIsAlive, GetTimesOut, MonitoringCompletes,
       GatherRaises, vars, managerVars, environmentVars

\* A request stays in one place: with an actuator, queued or stored.
LEMMA OnePlaceStep == TypeOK /\ OnePlace /\ [Next]_vars => OnePlace'
<1>. SUFFICES ASSUME TypeOK, OnePlace, [Next]_vars PROVE OnePlace'
  OBVIOUS
<1>1. ASSUME NEW request \in Measured, Answer(request) PROVE OnePlace'
  <2>. USE <1>1 DEF Answer, managerVars
  <2>1. queue \in Seq(Measured) /\ request \notin Range(queue)
    BY DEF TypeOK, ManagerTypeOK, OnePlace
  <2>2. Distinct(Append(queue, request))
    BY <2>1, DistinctAppend DEF OnePlace
  <2>3. Range(Append(queue, request)) = Range(queue) \cup {request}
    BY <2>1, RangeOfAppend
  <2>4. /\ queue' = Append(queue, request)
        /\ stored' = stored
        /\ unanswered' = unanswered \ {request}
    OBVIOUS
  <2>5. Range(queue)' = Range(queue) \cup {request} /\ Range(stored)' = Range(stored)
    BY <2>3, <2>4
  <2>6. Distinct(queue)'
    BY <2>2, <2>4
  <2>. QED
    BY <2>4, <2>5, <2>6 DEF OnePlace
<1>2. CASE StoreAndNotify \/ NotifyRaises
  <2>1. /\ queue' = Tail(queue) /\ stored' = Append(stored, Head(queue))
        /\ unanswered' = unanswered /\ queue # <<>>
    BY <1>2, StoreStep DEF StoreAndNotify, NotifyRaises, SendRaises, environmentVars
  <2>2. /\ Range(queue)' = Range(queue) \ {Head(queue)}
        /\ Range(stored)' = Range(stored) \cup {Head(queue)}
        /\ Distinct(queue)'
    BY <2>1, QueueHead
  <2>. QED
    BY <2>1, <2>2, QueueHead DEF OnePlace
<1>3. CASE StoreFails \/ ReportRaises
  <2>1. /\ queue' = Tail(queue) /\ stored' = stored
        /\ unanswered' = unanswered /\ queue # <<>>
    BY <1>3, StoreStep DEF StoreFails, ReportRaises, SendRaises, environmentVars
  <2>2. /\ Range(queue)' = Range(queue) \ {Head(queue)}
        /\ Range(stored)' = Range(stored)
        /\ Distinct(queue)'
    BY <2>1, QueueHead
  <2>. QED
    BY <2>1, <2>2 DEF OnePlace
<1>4. CASE UNCHANGED <<queue, stored, unanswered>>
  BY <1>4 DEF OnePlace, Range, Distinct
<1>. QED
  BY <1>1, <1>2, <1>3, <1>4, QuietSteps DEF SendRaises

\* What StoreAndNotify does to one subscriber.
LEMMA NotifyOne ==
  ASSUME TypeOK, OnePlace, [Next]_vars, StoreAndNotify, NEW s \in Subscribers
  PROVE  /\ Range(stored)' = Range(stored) \cup {Head(queue)}
         /\ seen'[s] = seen[s]
         /\ sent'[s] \in {sent[s], sent[s] \cup {ErrorReport},
                           sent[s] \cup {Head(queue)}}
         /\ crashed' = crashed
         /\ s \in subscribed' => s \in subscribed
         /\ s \in subscribed' /\ s \in crashed => promiseBroken'
         /\ s \in subscribed' /\ s \notin crashed
              => sent'[s] = sent[s] \cup {Head(queue)}
<1>1. /\ queue # <<>> /\ stored' = Append(stored, Head(queue))
      /\ seen' = seen /\ crashed' = crashed
  BY StoreStep DEF StoreAndNotify, environmentVars
<1>2. Range(stored)' = Range(stored) \cup {Head(queue)}
  BY <1>1, QueueHead
<1>3. PICK refused \in SUBSET (subscribed \cap MayRefuse) :
        /\ sent'[s] = IF s \in crashed \/ s \notin subscribed THEN sent[s]
                      ELSE IF s \in refused THEN sent[s] \cup {ErrorReport}
                      ELSE sent[s] \cup {Head(queue)}
        /\ subscribed' = subscribed \ refused
        /\ promiseBroken' =
             (promiseBroken \/ \E r \in subscribed \ refused : r \in crashed)
  BY DEF StoreAndNotify
<1>. QED
  BY <1>1, <1>2, <1>3

\* What NotifyRaises does to one subscriber.
LEMMA NotifyRaisesOne ==
  ASSUME TypeOK, OnePlace, [Next]_vars, NotifyRaises, NEW s \in Subscribers
  PROVE  /\ Range(stored)' = Range(stored) \cup {Head(queue)}
         /\ seen'[s] = seen[s]
         /\ sent'[s] \in {sent[s], sent[s] \cup {ErrorReport},
                           sent[s] \cup {Head(queue)}}
<1>1. queue # <<>> /\ stored' = Append(stored, Head(queue)) /\ seen' = seen
  BY StoreStep DEF NotifyRaises, SendRaises, environmentVars
<1>2. Range(stored)' = Range(stored) \cup {Head(queue)}
  BY <1>1, QueueHead
<1>3. PICK told \in SUBSET subscribed, refused \in SUBSET Subscribers :
        sent'[s] = IF s \in crashed \/ s \notin told THEN sent[s]
                   ELSE IF s \in refused THEN sent[s] \cup {ErrorReport}
                   ELSE sent[s] \cup {Head(queue)}
  BY DEF NotifyRaises, TypeOK, ManagerTypeOK
<1>. QED
  BY <1>1, <1>2, <1>3

\* A subscriber learns of a request once, and only after it is stored.
LEMMA NotifiedOnceStep ==
  TypeOK /\ OnePlace /\ NotifiedOnce /\ [Next]_vars => NotifiedOnce'
<1>. SUFFICES ASSUME TypeOK, OnePlace, NotifiedOnce, [Next]_vars,
                     NEW s \in Subscribers
              PROVE  /\ seen'[s] \cup (sent'[s] \ {ErrorReport}) \subseteq Range(stored)'
                     /\ seen'[s] \cap sent'[s] = {}
  BY DEF NotifiedOnce
<1>. DEFINE Good == /\ seen'[s] \cup (sent'[s] \ {ErrorReport}) \subseteq Range(stored)'
                    /\ seen'[s] \cap sent'[s] = {}
<1>0. /\ seen[s] \cup (sent[s] \ {ErrorReport}) \subseteq Range(stored)
      /\ seen[s] \cap sent[s] = {}
      /\ seen[s] \subseteq Measured /\ ErrorReport \notin Measured
      /\ sent \in [Subscribers -> SUBSET Call]
      /\ seen \in [Subscribers -> SUBSET Measured]
  BY ManagerAssumption DEF NotifiedOnce, TypeOK, ManagerTypeOK
<1>1. CASE StoreAndNotify
  <2>1. Head(queue) \notin Range(stored) /\ queue # <<>>
    BY <1>1, QueueHead DEF StoreAndNotify
  <2>. QED
    BY <1>0, <1>1, <2>1, NotifyOne
<1>1a. CASE NotifyRaises
  <2>1. Head(queue) \notin Range(stored) /\ queue # <<>>
    BY <1>1a, QueueHead DEF NotifyRaises
  <2>. QED
    BY <1>0, <1>1a, <2>1, NotifyRaisesOne
<1>2. CASE StoreFails \/ ReportRaises
  <2>1. stored' = stored /\ seen' = seen
    BY <1>2, StoreStep DEF StoreFails, ReportRaises, SendRaises, environmentVars
  <2>2. sent'[s] \in {sent[s], sent[s] \cup {ErrorReport}}
    BY <1>2 DEF StoreFails, ReportRaises
  <2>. QED
    BY <1>0, <2>1, <2>2
<1>3. ASSUME NEW r \in Subscribers, NEW call \in sent[r], ExecuteCall(r, call)
      PROVE  Good
  <2>1. stored' = stored
    BY <1>3 DEF ExecuteCall, managerVars
  <2>2. CASE r # s
    BY <1>0, <1>3, <2>1, <2>2 DEF ExecuteCall
  <2>3. CASE r = s
    <3>1. sent'[s] = sent[s] \ {call}
      BY <1>0, <1>3, <2>3 DEF ExecuteCall
    <3>2. seen'[s] = IF call = ErrorReport THEN seen[s] ELSE seen[s] \cup {call}
      BY <1>0, <1>3, <2>3 DEF ExecuteCall
    <3>. QED
      BY <1>0, <1>3, <2>1, <2>3, <3>1, <3>2
  <2>. QED
    BY <2>2, <2>3
<1>4. ASSUME NEW r \in Subscribers, Crash(r) PROVE Good
  <2>1. stored' = stored /\ seen' = seen /\ sent'[s] \in {sent[s], {}}
    BY <1>0, <1>4 DEF Crash, SubscriberCrashes, environmentVars
  <2>. QED
    BY <1>0, <2>1
<1>5. CASE UNCHANGED <<stored, sent, seen>>
  BY <1>0, <1>5
<1>6. \/ StoreAndNotify \/ StoreFails \/ NotifyRaises \/ ReportRaises
      \/ UNCHANGED <<stored, sent, seen>>
      \/ \E r \in Subscribers : Crash(r) \/ \E call \in sent[r] : ExecuteCall(r, call)
  BY DEF Next, Answer, Unsubscribe, UnsubscribeFromUpdates, Start,
         StartMonitoring, AskToShutDown, Shutdown, Monitor, MonitorStep, SendRaises,
         TestIsAlive, GetTimesOut, MonitoringCompletes, GatherRaises,
         vars, managerVars, environmentVars
<1>. QED
  BY <1>1, <1>1a, <1>2, <1>3, <1>4, <1>5, <1>6

\* Whoever is subscribed knows, or will learn, of everything stored.
LEMMA InformedStep ==
  TypeOK /\ OnePlace /\ NotifiedOnce /\ Informed /\ [Next]_vars => Informed'
<1>. SUFFICES ASSUME TypeOK, OnePlace, NotifiedOnce, Informed, [Next]_vars,
                     monitoring' # "unsent", NEW s \in subscribed'
              PROVE  IF s \in crashed' THEN promiseBroken' \/ seen'[s] = Range(stored)'
                     ELSE Range(stored)' \subseteq seen'[s] \cup sent'[s]
  BY DEF Informed
<1>. DEFINE Good == IF s \in crashed' THEN promiseBroken' \/ seen'[s] = Range(stored)'
                    ELSE Range(stored)' \subseteq seen'[s] \cup sent'[s]
<1>0. /\ sent \in [Subscribers -> SUBSET Call]
      /\ seen \in [Subscribers -> SUBSET Measured]
      /\ stored \in Seq(Measured)
      /\ s \in Subscribers
      /\ promiseBroken \in BOOLEAN
  BY TypeStep DEF TypeOK, ManagerTypeOK
<1>1. ErrorReport \notin Range(stored)
  BY <1>0, ManagerAssumption DEF Range
<1>2. s \in subscribed =>
        IF s \in crashed THEN promiseBroken \/ seen[s] = Range(stored)
        ELSE Range(stored) \subseteq seen[s] \cup sent[s]
  <2>1. monitoring # "unsent"
    BY DEF Next, Answer, ExecuteCall, Unsubscribe, UnsubscribeFromUpdates, Crash,
           SubscriberCrashes, Start, StartMonitoring, AskToShutDown, Shutdown,
           Monitor, MonitorStep, SendRaises, NotifyRaises, ReportRaises, TestIsAlive,
           GetTimesOut, StoreAndNotify, StoreFails, MonitoringCompletes, GatherRaises,
           vars, managerVars
  <2>. QED
    BY <2>1 DEF Informed
<1>3. CASE StoreAndNotify
  BY <1>0, <1>2, <1>3, NotifyOne
<1>4. CASE StoreFails
  BY <1>4 DEF StoreFails
<1>5. ASSUME NEW r \in Subscribers, NEW call \in sent[r], ExecuteCall(r, call)
      PROVE  Good
  <2>1. UNCHANGED <<stored, crashed, subscribed, promiseBroken>>
    BY <1>5 DEF ExecuteCall, managerVars
  <2>2. CASE r # s
    <3>1. sent'[s] = sent[s] /\ seen'[s] = seen[s]
      BY <1>0, <1>5, <2>2 DEF ExecuteCall
    <3>. QED
      BY <1>2, <2>1, <3>1
  <2>3. CASE r = s
    <3>1. /\ sent'[s] = sent[s] \ {call}
          /\ seen'[s] = IF call = ErrorReport THEN seen[s] ELSE seen[s] \cup {call}
      BY <1>0, <1>5, <2>3 DEF ExecuteCall
    <3>2. call = ErrorReport \/ call \in Range(stored)
      BY <1>5, <2>3 DEF NotifiedOnce
    <3>. QED
      BY <1>1, <1>2, <2>1, <3>1, <3>2
  <2>. QED
    BY <2>2, <2>3
<1>6. ASSUME NEW r \in Subscribers, Crash(r) PROVE Good
  <2>. USE <1>6 DEF Crash, SubscriberCrashes, environmentVars
  <2>1. CASE r # s
    BY <1>0, <1>2, <2>1
  <2>2. CASE r = s
    <3>1. CASE sent[s] \subseteq {ErrorReport}
      <4>1. Range(stored) \subseteq seen[s] /\ seen[s] \subseteq Range(stored)
        BY <1>0, <1>1, <1>2, <2>2, <3>1 DEF NotifiedOnce
      <4>. QED
        BY <4>1
    <3>2. CASE ~(sent[s] \subseteq {ErrorReport})
      BY <2>2, <3>2
    <3>. QED
      BY <3>1, <3>2
  <2>. QED
    BY <2>1, <2>2
<1>7. CASE /\ UNCHANGED <<stored, sent, seen, crashed, promiseBroken>>
           /\ subscribed' \subseteq subscribed
  BY <1>2, <1>7
<1>8. \/ StoreAndNotify \/ StoreFails
      \/ \E r \in Subscribers : Crash(r) \/ \E call \in sent[r] : ExecuteCall(r, call)
      \/ /\ UNCHANGED <<stored, sent, seen, crashed, promiseBroken>>
         /\ subscribed' \subseteq subscribed
  BY DEF Next, Answer, Unsubscribe, UnsubscribeFromUpdates, Start,
         StartMonitoring, AskToShutDown, Shutdown, Monitor, MonitorStep,
         SendRaises, NotifyRaises, ReportRaises, TestIsAlive, GetTimesOut, MonitoringCompletes, GatherRaises,
         vars, managerVars, environmentVars
<1>. QED
  BY <1>3, <1>4, <1>5, <1>6, <1>7, <1>8

\* The manager completes once, with nothing left to be executed.
LEMMA CompletionStep == TypeOK /\ Completion /\ [Next]_vars => Completion'
<1>. SUFFICES ASSUME TypeOK, Completion, [Next]_vars PROVE Completion'
  OBVIOUS
<1>. USE DEF Completion, UpdatesExecuted, TypeOK, ManagerTypeOK
<1>1. ASSUME NEW request \in Measured, Answer(request) PROVE Completion'
  BY <1>1 DEF Answer, managerVars
<1>2. ASSUME NEW s \in Subscribers, NEW call \in sent[s], ExecuteCall(s, call)
      PROVE  Completion'
  BY <1>2 DEF ExecuteCall, managerVars
<1>3. ASSUME NEW s \in Subscribers, Unsubscribe(s) \/ Crash(s) PROVE Completion'
  BY <1>3 DEF Unsubscribe, UnsubscribeFromUpdates, Crash, SubscriberCrashes
<1>4. CASE Start
  BY <1>4 DEF Start, StartMonitoring
<1>5. CASE AskToShutDown
  BY <1>5 DEF AskToShutDown, Shutdown
<1>6. CASE Monitor
  BY <1>6 DEF Monitor, MonitorStep, TestIsAlive, GetTimesOut, StoreAndNotify,
              StoreFails, SendRaises, NotifyRaises, ReportRaises,
              MonitoringCompletes, GatherRaises
<1>7. CASE UNCHANGED vars
  BY <1>7 DEF vars, managerVars
<1>. QED
  BY <1>1, <1>2, <1>3, <1>4, <1>5, <1>6, <1>7 DEF Next

(***************************************************************************)
(* Inv holds in every reachable state of the manager and its neighbours    *)
(* (_monitor_updates_private with its subscribers).                        *)
(***************************************************************************)
THEOREM InvCorrect == Spec => []Inv
<1>1. Inv /\ [Next]_vars => Inv'
  BY TypeStep, OnePlaceStep, NotifiedOnceStep, InformedStep, CompletionStep
     DEF Inv
<1>. QED
  BY <1>1, InitInv, PTL DEF Spec

-----------------------------------------------------------------------------
(* What the invariant gives.                                               *)

(***************************************************************************)
(* Once iscompleted is set, which is what shutdown() waits for, every      *)
(* update has been executed and every subscriber has seen every stored     *)
(* request.                                                                *)
(***************************************************************************)
THEOREM CompletedCorrect == Spec => []CompletedMeansSeen
<1>1. Inv => CompletedMeansSeen
  <2>. SUFFICES ASSUME Inv, iscompleted PROVE
         /\ \A s \in Subscribers : sent[s] \subseteq {ErrorReport}
         /\ \A s \in subscribed : seen[s] = Range(stored)
    BY DEF CompletedMeansSeen
  <2>1. ~promiseBroken /\ \A s \in Subscribers : sent[s] \subseteq {ErrorReport}
    BY DEF Inv, Completion, UpdatesExecuted
  <2>2. ErrorReport \notin Range(stored)
    BY ManagerAssumption DEF Inv, TypeOK, ManagerTypeOK, Range
  <2>3. ASSUME NEW s \in subscribed PROVE seen[s] = Range(stored)
    <3>1. s \in Subscribers
      BY DEF Inv, TypeOK, ManagerTypeOK
    <3>2. seen[s] \subseteq Range(stored)
      BY <3>1 DEF Inv, NotifiedOnce
    <3>3. s \in crashed => seen[s] = Range(stored)
      BY <2>1 DEF Inv, Informed, Completion
    <3>4. s \notin crashed => Range(stored) \subseteq seen[s] \cup sent[s]
      BY DEF Inv, Informed, Completion
    <3>. QED
      BY <2>1, <2>2, <3>1, <3>2, <3>3, <3>4
  <2>. QED
    BY <2>1, <2>3
<1>. QED
  BY <1>1, InvCorrect, PTL

(***************************************************************************)
(* A failure to store is reported to each live subscriber, which by then   *)
(* has been sent everything that was stored.                               *)
(***************************************************************************)
THEOREM ErrorsCorrect == Spec => ErrorsReported
<1>. DEFINE Reported ==
       (monitoringError' /\ ~monitoringError /\ monitoring' # "unsent") =>
         \A s \in subscribed \ crashed :
           /\ ErrorReport \in sent'[s]
           /\ Range(stored) \subseteq seen[s] \cup sent'[s]
<1>1. Inv /\ [Next]_vars => [Reported]_vars
  <2>. SUFFICES ASSUME Inv, [Next]_vars, monitoringError', ~monitoringError,
                       monitoring' # "unsent", NEW s \in subscribed \ crashed
                PROVE  /\ ErrorReport \in sent'[s]
                       /\ Range(stored) \subseteq seen[s] \cup sent'[s]
    OBVIOUS
  <2>1. StoreFails
    BY DEF Next, Answer, ExecuteCall, Unsubscribe, UnsubscribeFromUpdates,
           Crash, SubscriberCrashes, Start, StartMonitoring, AskToShutDown,
           Shutdown, Monitor, MonitorStep, TestIsAlive, GetTimesOut,
           StoreAndNotify, SendRaises, NotifyRaises, ReportRaises,
           MonitoringCompletes, GatherRaises, vars, managerVars
  <2>2. s \in Subscribers /\ Range(stored) \subseteq seen[s] \cup sent[s]
    BY <2>1 DEF Inv, TypeOK, ManagerTypeOK, Informed, StoreFails
  <2>3. sent'[s] = sent[s] \cup {ErrorReport}
    BY <2>1, <2>2 DEF StoreFails
  <2>. QED
    BY <2>2, <2>3
<1>. QED
  BY <1>1, InvCorrect, PTL DEF Spec, ErrorsReported

-----------------------------------------------------------------------------
(* The manager implements StoreThenNotify.                                 *)

\* Every step of the manager and its neighbours is one of StoreThenNotify,
\* or leaves its variables alone.
LEMMA RefinementStep == Inv /\ [Next]_vars => [Abstract!Next]_(Abstract!vars)
<1>. SUFFICES ASSUME Inv, [Next]_vars PROVE Abstract!Next \/ UNCHANGED Abstract!vars
  OBVIOUS
<1>. USE DEF Abstract!vars, Closed
<1>0. TypeOK /\ OnePlace /\ NotifiedOnce /\ Completion
  BY DEF Inv
<1>1. ASSUME NEW request \in Measured, Answer(request) PROVE Abstract!Next
  BY <1>1 DEF Answer, managerVars, Abstract!Next, Abstract!Arrive
<1>2. ASSUME NEW s \in Subscribers, NEW call \in sent[s], ExecuteCall(s, call)
      PROVE  Abstract!Next \/ UNCHANGED Abstract!vars
  <2>1. UNCHANGED <<queue, stored, Closed>>
    BY <1>2 DEF ExecuteCall, managerVars
  <2>2. CASE call = ErrorReport
    <3>1. seen' = seen
      BY <1>0, <1>2, <2>2 DEF ExecuteCall, TypeOK
    <3>. QED
      BY <2>1, <3>1
  <2>3. CASE call # ErrorReport
    <3>1. call \in Range(stored) /\ call \notin seen[s]
      BY <1>0, <1>2, <2>3 DEF NotifiedOnce
    <3>2. call \in Measured /\ \E k \in DOMAIN stored : stored[k] = call
      BY <1>0, <3>1 DEF Range, TypeOK, ManagerTypeOK
    <3>3. seen' = [seen EXCEPT ![s] = @ \cup {call}]
      BY <1>2, <2>3 DEF ExecuteCall
    <3>4. Abstract!See(s, call)
      BY <2>1, <3>1, <3>2, <3>3 DEF Abstract!See
    <3>. QED
      BY <3>2, <3>4 DEF Abstract!Next
  <2>. QED
    BY <2>2, <2>3
<1>3. CASE StoreAndNotify \/ NotifyRaises
  <2>1. seen' = seen
    BY <1>0, <1>3, StoreStep DEF environmentVars, SendRaises
  <2>2. ~Closed /\ ~Closed'
    BY <1>0, <1>3 DEF StoreAndNotify, NotifyRaises, Completion, TypeOK, ManagerTypeOK
  <2>3. Abstract!Store
    BY <1>3, <2>1, <2>2 DEF StoreAndNotify, NotifyRaises, Abstract!Store
  <2>. QED
    BY <2>3 DEF Abstract!Next
<1>4. CASE StoreFails \/ ReportRaises
  <2>1. seen' = seen
    BY <1>0, <1>4, StoreStep DEF environmentVars, SendRaises
  <2>2. ~Closed /\ Closed' = TRUE
    BY <1>0, <1>4 DEF StoreFails, ReportRaises, Completion, TypeOK, ManagerTypeOK
  <2>3. Abstract!Fail
    BY <1>4, <2>1, <2>2 DEF StoreFails, ReportRaises, Abstract!Fail
  <2>. QED
    BY <2>3 DEF Abstract!Next
<1>5. CASE UNCHANGED <<queue, stored, seen>> /\ (Closed' = TRUE \/ Closed' = Closed)
  BY <1>5 DEF Abstract!Next, Abstract!Close
<1>6. \/ \E request \in Measured : Answer(request)
      \/ \E s \in Subscribers : \E call \in sent[s] : ExecuteCall(s, call)
      \/ StoreAndNotify \/ NotifyRaises \/ StoreFails \/ ReportRaises
      \/ UNCHANGED <<queue, stored, seen>> /\ (Closed' = TRUE \/ Closed' = Closed)
  BY <1>0 DEF TypeOK, ManagerTypeOK, Next, Unsubscribe, UnsubscribeFromUpdates,
     Crash, SubscriberCrashes, Start, StartMonitoring, AskToShutDown, Shutdown,
     Monitor, MonitorStep, SendRaises, TestIsAlive, GetTimesOut, MonitoringCompletes,
     GatherRaises, vars, managerVars, environmentVars
<1>. QED
  BY <1>1, <1>2, <1>3, <1>4, <1>5, <1>6

(***************************************************************************)
(* The manager implements StoreThenNotify: it stores in order of arrival,  *)
(* at most once, and notifies of nothing that is not stored, for any       *)
(* subscribers and any faults.                                             *)
(***************************************************************************)
THEOREM Refinement == Spec => ImplementsStoreThenNotify
<1>1. Init => Abstract!Init
  BY DEF Init, ManagerInit, Abstract!Init, Closed
<1>. QED
  BY <1>1, RefinementStep, InvCorrect, PTL
     DEF Spec, ImplementsStoreThenNotify, Abstract!Spec

-----------------------------------------------------------------------------
(* Sequences built by recursion.                                           *)

\* What holds of 0, and of every number up to n whose predecessor it holds of.
LEMMA UpTo ==
  ASSUME NEW n \in Nat, NEW P, 0 \in P,
         \A k \in 1 .. n : k - 1 \in P => k \in P
  PROVE  0 .. n \subseteq P
<1>. DEFINE Smaller == {pair \in Nat \X Nat : pair[1] < pair[2]}
            Wrong == (0 .. n) \ P
<1>1. IsWellFoundedOn(Smaller, Nat)
  BY NatLessThanWellFounded DEF OpToRel
<1>. SUFFICES ASSUME Wrong # {}
              PROVE  FALSE
  OBVIOUS
<1>2. Wrong \subseteq Nat
  OBVIOUS
<1>3. PICK i \in Wrong : \A j \in Wrong : <<j, i>> \notin Smaller
  <2>. HIDE DEF Smaller, Wrong
  <2>. QED
    BY <1>1, <1>2, WFMin
<1>4. i # 0 /\ i - 1 \in 0 .. n /\ i - 1 \in Nat /\ i \in Nat
  OBVIOUS
<1>5. <<i - 1, i>> \in Smaller
  BY <1>4
<1>6. i - 1 \notin Wrong
  <2>. HIDE DEF Smaller, Wrong
  <2>. QED
    BY <1>3, <1>5
<1>. QED
  BY <1>4, <1>6

\* f goes on from its first value, which is in X as all that follow, step by step.
Steps(step, n, X) == \A k \in 1 .. n : \A x \in X : step[k][x] \in X

IsIteration(f, first, step, n, X) ==
  /\ f \in [0 .. n -> X]
  /\ f[0] = first
  /\ \A k \in 1 .. n : f[k] = step[k][f[k - 1]]

\* There is such a function, though it is defined by recursion.
LEMMA Iterated ==
  ASSUME NEW n \in Nat, NEW X, NEW first \in X, NEW step, Steps(step, n, X)
  PROVE  \E f : IsIteration(f, first, step, n, X)
<1>. DEFINE IsOn(m, f) == f[0] = first /\ \A k \in 1 .. m : f[k] = step[k][f[k - 1]]
            P == {m \in 0 .. n : \E f \in [0 .. m -> X] : IsOn(m, f)}
<1>1. 0 \in P
  <2>1. [k \in 0 .. 0 |-> first] \in [0 .. 0 -> X] /\ IsOn(0, [k \in 0 .. 0 |-> first])
    OBVIOUS
  <2>. HIDE DEF IsOn
  <2>. QED
    BY <2>1
<1>2. ASSUME NEW m \in 1 .. n, m - 1 \in P
      PROVE  m \in P
  <2>1. PICK f \in [0 .. m - 1 -> X] : IsOn(m - 1, f)
    BY <1>2
  <2>. DEFINE g == [k \in 0 .. m |-> IF k = m THEN step[m][f[m - 1]] ELSE f[k]]
  <2>2. m \in Nat /\ m - 1 \in 0 .. m - 1 /\ \A k \in 0 .. m : k = m \/ k \in 0 .. m - 1
    OBVIOUS
  <2>3. step[m][f[m - 1]] \in X
    BY <2>2 DEF Steps
  <2>4. g \in [0 .. m -> X]
    BY <2>2, <2>3
  <2>5. g[0] = first
    BY <2>1, <2>2
  <2>6. \A k \in 1 .. m : g[k] = step[k][g[k - 1]]
    BY <2>1, <2>2
  <2>7. IsOn(m, g)
    BY <2>5, <2>6
  <2>. HIDE DEF IsOn, g
  <2>. QED
    BY <2>4, <2>7
<1>3. n \in P
  <2>. HIDE DEF P
  <2>1. 0 .. n \subseteq P
    BY <1>1, <1>2, UpTo
  <2>. QED
    BY <2>1
<1>4. PICK f \in [0 .. n -> X] : IsOn(n, f)
  BY <1>3
<1>5. IsIteration(f, first, step, n, X)
  BY <1>4 DEF IsIteration
<1>. QED
  BY <1>5

\* FlattenSeq joins sequences one by one.
IsFlattened(f, seqs, S) ==
  /\ f \in [0 .. Len(seqs) -> Seq(S)]
  /\ f[0] = <<>>
  /\ \A k \in 1 .. Len(seqs) : f[k] = f[k - 1] \o seqs[k]

\* FlattenSeq is what its recursion says.
LEMMA FlattenIs ==
  ASSUME NEW S, NEW seqs \in Seq(Seq(S))
  PROVE  \E f : IsFlattened(f, seqs, S) /\ FlattenSeq(seqs) = f[Len(seqs)]
<1>. DEFINE n == Len(seqs)
            X == Seq(S)
            Joined(x, k) == x \o seqs[k]
            Step(f) == [k \in 1 .. n |-> IF k = 1 THEN seqs[k] ELSE Joined(f[k - 1], k)]
            flatten == CHOOSE f : f = Step(f)
            step == [k \in 1 .. n |-> [x \in X |-> Joined(x, k)]]
            P(f) == {k \in 0 .. n : k = 0 \/ flatten[k] = f[k]}
<1>1. FlattenSeq(seqs) = IF n = 0 THEN seqs ELSE flatten[n]
  BY DEF FlattenSeq
<1>2. n \in Nat /\ (n = 0 => seqs = <<>>) /\ \A k \in 1 .. n : seqs[k] \in X
  OBVIOUS
<1>3. \A k \in 1 .. n : \A x \in X : Joined(x, k) \in X
  <2>1. \A x, y \in Seq(S) : x \o y \in Seq(S)
    OBVIOUS
  <2>. QED
    BY <1>2, <2>1
<1>4. <<>> \in X /\ (n # 0 => Joined(<<>>, 1) = seqs[1])
  <2>1. \A x \in Seq(S) : <<>> \o x = x
    OBVIOUS
  <2>. HIDE DEF n
  <2>. QED
    BY <1>2, <2>1
<1>5. PICK e : e = <<>>
  OBVIOUS
<1>. HIDE DEF n, X, Joined
<1>6. PICK f : IsIteration(f, e, step, n, X)
  <2>1. Steps(step, n, X)
    BY <1>3 DEF Steps
  <2>. HIDE DEF step
  <2>. QED
    BY <1>2, <1>4, <1>5, <2>1, Iterated
<1>7. \A k \in 1 .. n : f[k - 1] \in X /\ f[k] = Joined(f[k - 1], k)
  <2>1. \A k \in 1 .. n : k - 1 \in 0 .. n
    BY <1>2
  <2>. QED
    BY <1>6, <2>1 DEF IsIteration
<1>8. n # 0 => f[1] = seqs[1]
  <2>1. f[0] = <<>>
    BY <1>5, <1>6 DEF IsIteration
  <2>2. n # 0 => 1 \in 1 .. n /\ 1 - 1 = 0
    BY <1>2
  <2>. HIDE DEF step
  <2>. QED
    BY <1>4, <1>7, <2>1, <2>2
<1>. DEFINE g == [k \in 1 .. n |-> f[k]]
<1>9. \A k \in 1 .. n : g[k] = IF k = 1 THEN seqs[k] ELSE Joined(g[k - 1], k)
  <2>1. \A k \in 1 .. n : k = 1 \/ k - 1 \in 1 .. n
    BY <1>2
  <2>2. \A k \in 1 .. n : k = 1 => n # 0
    BY <1>2
  <2>. QED
    BY <1>7, <1>8, <2>1, <2>2
<1>10. g = Step(g)
  BY <1>9
<1>11. flatten = Step(flatten)
  <2>. HIDE DEF g, Step
  <2>. QED
    BY <1>10
<1>. HIDE DEF flatten
<1>12. \A k \in 1 .. n : flatten[k] = IF k = 1 THEN seqs[k] ELSE Joined(flatten[k - 1], k)
  BY <1>11
<1>13. 0 \in P(f)
  BY <1>2
<1>14. ASSUME NEW k \in 1 .. n, k - 1 \in P(f)
       PROVE  k \in P(f)
  <2>1. k \in 0 .. n /\ (k # 1 => k - 1 # 0)
    BY <1>2
  <2>2. k = 1 => flatten[k] = f[k]
    BY <1>2, <1>8, <1>12
  <2>3. k # 1 => flatten[k] = f[k]
    BY <1>7, <1>12, <1>14, <2>1
  <2>. QED
    BY <2>1, <2>2, <2>3
<1>15. 0 .. n \subseteq P(f)
  <2>. HIDE DEF P
  <2>. QED
    BY <1>2, <1>13, <1>14, UpTo
<1>16. n # 0 => flatten[n] = f[n]
  BY <1>2, <1>15
<1>17. FlattenSeq(seqs) = f[n]
  BY <1>1, <1>2, <1>5, <1>6, <1>16 DEF IsIteration
<1>18. IsFlattened(f, seqs, S)
  BY <1>5, <1>6, <1>7 DEF IsIteration, IsFlattened, Joined, n, X
<1>. QED
  BY <1>17, <1>18 DEF n

\* Sequences over S are put together to one over S.
LEMMA FlattenTyped ==
  ASSUME NEW S, NEW seqs \in Seq(Seq(S))
  PROVE  FlattenSeq(seqs) \in Seq(S)
<1>1. PICK f : IsFlattened(f, seqs, S) /\ FlattenSeq(seqs) = f[Len(seqs)]
  BY FlattenIs
<1>2. Len(seqs) \in 0 .. Len(seqs)
  OBVIOUS
<1>. QED
  BY <1>1, <1>2 DEF IsFlattened

\* Keep goes through a sequence member by member.
Taken(x, s, k, indexes) == IF k \in indexes THEN Append(x, s[k]) ELSE x

IsKept(f, s, indexes, S) ==
  /\ f \in [0 .. Len(s) -> Seq(S)]
  /\ f[0] = <<>>
  /\ \A k \in 1 .. Len(s) : f[k] = Taken(f[k - 1], s, k, indexes)

\* Keep is what its recursion says.
LEMMA KeepIs ==
  ASSUME NEW S, NEW s \in Seq(S), NEW indexes
  PROVE  \E f : IsKept(f, s, indexes, S) /\ Keep(s, indexes) = f[Len(s)]
<1>. DEFINE n == Len(s)
            X == Seq(S)
            Step(f) == [k \in 0 .. n |-> IF k = 0 THEN <<>> ELSE Taken(f[k - 1], s, k, indexes)]
            kept == CHOOSE f : f = Step(f)
            step == [k \in 1 .. n |-> [x \in X |-> Taken(x, s, k, indexes)]]
            P == {k \in 0 .. n : kept[k] \in X}
<1>1. Keep(s, indexes) = kept[n]
  BY DEF Keep, Taken
<1>2. n \in Nat /\ <<>> \in X
  OBVIOUS
<1>3. \A k \in 1 .. n : \A x \in X : Taken(x, s, k, indexes) \in X
  <2>1. \A x \in Seq(S), y \in S : Append(x, y) \in Seq(S)
    OBVIOUS
  <2>2. \A k \in 1 .. n : s[k] \in S
    OBVIOUS
  <2>. HIDE DEF n
  <2>. QED
    BY <2>1, <2>2 DEF Taken
<1>. HIDE DEF n, X
<1>4. PICK e : e = <<>>
  OBVIOUS
<1>5. PICK f : IsIteration(f, e, step, n, X)
  <2>1. Steps(step, n, X)
    BY <1>3 DEF Steps
  <2>. HIDE DEF step
  <2>. QED
    BY <1>2, <1>4, <2>1, Iterated
<1>6. \A k \in 0 .. n : f[k] = IF k = 0 THEN e ELSE Taken(f[k - 1], s, k, indexes)
  <2>1. \A k \in 1 .. n : f[k - 1] \in X
    <3>1. \A k \in 1 .. n : k - 1 \in 0 .. n
      BY <1>2
    <3>. QED
      BY <1>5, <3>1 DEF IsIteration
  <2>2. \A k \in 0 .. n : k = 0 \/ k \in 1 .. n
    BY <1>2
  <2>. QED
    BY <1>5, <2>1, <2>2 DEF IsIteration
<1>7. f = Step(f)
  <2>1. f = [k \in 0 .. n |-> f[k]]
    BY <1>5 DEF IsIteration
  <2>. QED
    BY <1>4, <1>6, <2>1
<1>8. kept = Step(kept)
  <2>. HIDE DEF Step
  <2>. QED
    BY <1>7
<1>. HIDE DEF kept
<1>9. kept = [k \in 0 .. n |-> IF k = 0 THEN e ELSE Taken(kept[k - 1], s, k, indexes)]
  BY <1>4, <1>8
<1>10. /\ DOMAIN kept = 0 .. n /\ kept[0] = e
       /\ \A k \in 1 .. n : kept[k] = Taken(kept[k - 1], s, k, indexes)
  BY <1>2, <1>9
<1>11. \A k \in 0 .. n : kept[k] \in X
  <2>1. 0 \in P
    BY <1>2, <1>4, <1>10
  <2>2. ASSUME NEW k \in 1 .. n, k - 1 \in P
        PROVE  k \in P
    BY <1>2, <1>3, <1>10, <2>2
  <2>3. 0 .. n \subseteq P
    <3>. HIDE DEF P
    <3>. QED
      BY <1>2, <2>1, <2>2, UpTo
  <2>. QED
    BY <2>3
<1>12. kept \in [0 .. n -> X]
  <2>1. kept = [k \in 0 .. n |-> kept[k]]
    BY <1>9
  <2>. QED
    BY <1>11, <2>1
<1>13. IsKept(kept, s, indexes, S)
  BY <1>4, <1>10, <1>12 DEF IsKept, n, X
<1>. QED
  BY <1>1, <1>13 DEF n

\* What is kept are members at the indexes given.
LEMMA KeepTyped ==
  ASSUME NEW S, NEW s \in Seq(S), NEW indexes, NEW T,
         \A k \in 1 .. Len(s) : k \in indexes => s[k] \in T
  PROVE  Keep(s, indexes) \in Seq(T)
<1>1. PICK kept : IsKept(kept, s, indexes, S) /\ Keep(s, indexes) = kept[Len(s)]
  BY KeepIs
<1>. DEFINE P == {k \in 0 .. Len(s) : kept[k] \in Seq(T)}
<1>2. /\ 0 \in P /\ Len(s) \in Nat
      /\ \A k \in 1 .. Len(s) : kept[k] = Taken(kept[k - 1], s, k, indexes)
  BY <1>1 DEF IsKept
<1>3. ASSUME NEW k \in 1 .. Len(s), NEW x \in Seq(T)
      PROVE  Taken(x, s, k, indexes) \in Seq(T)
  BY DEF Taken
<1>4. ASSUME NEW k \in 1 .. Len(s), k - 1 \in P
      PROVE  k \in P
  BY <1>2, <1>3, <1>4
<1>5. 0 .. Len(s) \subseteq P
  <2>. HIDE DEF P
  <2>. QED
    BY <1>2, <1>4, UpTo
<1>. QED
  BY <1>1, <1>2, <1>5

\* Of a longer sequence the same is kept, and its new member or not.
LEMMA KeepLonger ==
  ASSUME NEW S, NEW s \in Seq(S), NEW x \in S, NEW before, NEW after,
         \A k \in 1 .. Len(s) : k \in before <=> k \in after
  PROVE  Keep(Append(s, x), after) =
           IF Len(s) + 1 \in after THEN Append(Keep(s, before), x) ELSE Keep(s, before)
<1>. DEFINE n == Len(s)
            longer == Append(s, x)
<1>1. /\ longer \in Seq(S) /\ Len(longer) = n + 1 /\ longer[n + 1] = x
      /\ n \in Nat
      /\ \A k \in 1 .. n : longer[k] = s[k]
  OBVIOUS
<1>. HIDE DEF longer, n
<1>2. PICK f : IsKept(f, s, before, S) /\ Keep(s, before) = f[n]
  BY KeepIs DEF n
<1>3. PICK g : IsKept(g, longer, after, S) /\ Keep(longer, after) = g[n + 1]
  BY <1>1, KeepIs
<1>. DEFINE P == {k \in 0 .. n : g[k] = f[k]}
<1>4. /\ 0 \in P
      /\ \A k \in 1 .. n : f[k] = Taken(f[k - 1], s, k, before)
      /\ \A k \in 1 .. n + 1 : g[k] = Taken(g[k - 1], longer, k, after)
  BY <1>1, <1>2, <1>3 DEF IsKept, n
<1>5. \A k \in 1 .. n : \A y : Taken(y, longer, k, after) = Taken(y, s, k, before)
  BY <1>1 DEF Taken, n
<1>6. ASSUME NEW k \in 1 .. n, k - 1 \in P
      PROVE  k \in P
  <2>1. k \in 1 .. n + 1 /\ k \in 0 .. n
    BY <1>1
  <2>. QED
    BY <1>4, <1>5, <1>6, <2>1
<1>7. 0 .. n \subseteq P
  <2>. HIDE DEF P
  <2>. QED
    BY <1>1, <1>4, <1>6, UpTo
<1>8. g[n] = f[n]
  BY <1>1, <1>7
<1>9. g[n + 1] = Taken(g[n], longer, n + 1, after)
  <2>1. PICK m \in 1 .. n + 1 : m = n + 1 /\ m - 1 = n
    BY <1>1
  <2>2. g[m] = Taken(g[m - 1], longer, m, after)
    BY <1>4
  <2>. QED
    BY <2>1, <2>2
<1>. QED
  BY <1>1, <1>2, <1>3, <1>8, <1>9 DEF n, longer, Taken

-----------------------------------------------------------------------------
(* Domains.                                                                *)

\* The values of a subdomain are values of the domain.
LEMMA SubDomainSound ==
  ASSUME NEW test \in Domains, NEW d \in Domains, IsSubDomain(test, d),
         d.interval # 0 => d.values = None,
         NEW value \in Int, ValueInDomain(test, value)
  PROVE  ValueInDomain(d, value)
<1>1. /\ d.type \in DomainTypes /\ test.type \in DomainTypes
      /\ d.range = None \/ (d.range[1] \in Int /\ d.range[2] \in Int)
      /\ test.range = None \/ (test.range[1] \in Int /\ test.range[2] \in Int)
  BY DEF Domains
<1>2. \A x : x.type = "binary" => ValueSet(x) = {0, 1}
  BY DEF ValueSet, DomainValues, ToSet
<1>3. ASSUME ValuesWithin(d, test), test.type \in {"discrete", "categorical", "binary"}
      PROVE  value \in ValueSet(d)
  BY <1>2, <1>3 DEF ValuesWithin, ValueInDomain
<1>4. CASE test = d
  BY <1>4
<1>5. CASE d.type \in {"unknown", "open"}
  BY <1>5 DEF ValueInDomain
<1>6. CASE d.type = "continuous" /\ SubdomainOfContinuous(d, test)
  <2>1. d.range = None \/ (d.range[1] <= value /\ value < d.range[2])
    <3>1. CASE test.type = "continuous"
      BY <1>1, <1>6, <3>1 DEF SubdomainOfContinuous, ValueInDomain
    <3>2. CASE test.type = "discrete"
      BY <1>1, <1>6, <3>2 DEF SubdomainOfContinuous, ValueInDomain
    <3>3. CASE test.type = "binary"
      BY <1>1, <1>6, <3>3 DEF SubdomainOfContinuous, ValueInDomain
    <3>. QED
      BY <1>6, <3>1, <3>2, <3>3 DEF SubdomainOfContinuous
  <2>. QED
    BY <1>6, <2>1 DEF ValueInDomain
<1>7. CASE d.type = "discrete" /\ SubdomainOfDiscrete(d, test)
  <2>1. HasValues(d) => value \in ValueSet(d)
    BY <1>3, <1>7 DEF SubdomainOfDiscrete, HasValues
  <2>. QED
    BY <1>7, <2>1 DEF ValueInDomain
<1>8. CASE d.type = "categorical" /\ SubdomainOfCategorical(d, test)
  BY <1>3, <1>8 DEF SubdomainOfCategorical, ValueInDomain
<1>9. CASE d.type = "binary" /\ SubdomainOfBinary(d, test)
  BY <1>2, <1>3, <1>9 DEF SubdomainOfBinary, ValueInDomain
<1>. QED
  BY <1>4, <1>5, <1>6, <1>7, <1>8, <1>9 DEF IsSubDomain

\* The values that a dimension of a grid takes are in its domain.
LEMMA ValuesTyped ==
  ASSUME NEW d \in Domains, IsValidDomain(d), HasValues(d)
  PROVE  /\ DomainValues(d) \in Seq(Int)
         /\ \A k \in 1 .. Len(DomainValues(d)) : ValueInDomain(d, DomainValues(d)[k])
<1>1. DomainValues(d) \in Seq(Int)
  <2>1. CASE d.type = "binary"
    <3>1. <<0, 1>> \in Seq(Int)
      OBVIOUS
    <3>. QED
      BY <2>1, <3>1 DEF DomainValues
  <2>2. CASE d.type # "binary" /\ d.values # None
    BY <2>2 DEF DomainValues, Domains
  <2>3. CASE d.type # "binary" /\ d.values = None
    <3>. DEFINE lower == d.range[1]
                num == (d.range[2] - lower + d.interval - 1) \div d.interval
    <3>1. /\ d.range[1] \in Int /\ d.range[2] \in Int
          /\ d.interval \in Nat \ {0}
      <4>1. d.type \in {"discrete", "categorical"} /\ d.range # None
        BY <2>3 DEF HasValues
      <4>2. d.interval # 0
        BY <2>3, <4>1 DEF IsValidDomain
      <4>. QED
        BY <4>1, <4>2 DEF Domains
    <3>2. num \in Int
      BY <3>1
    <3>3. InternalRangeValues(d) = [k \in 1 .. num |-> lower + (k - 1) * d.interval]
      BY DEF InternalRangeValues
    <3>4. PICK m \in Int : m = num
      BY <3>2
    <3>5. \A k \in 1 .. m : lower + (k - 1) * d.interval \in Int
      BY <3>1
    <3>6. PICK l \in Nat : 1 .. l = 1 .. m
      <4>1. m \in Nat \/ (1 .. m = 1 .. 0 /\ 0 \in Nat)
        OBVIOUS
      <4>. QED
        BY <4>1
    <3>7. InternalRangeValues(d) \in [1 .. l -> Int]
      <4>. HIDE DEF num
      <4>. QED
        BY <3>3, <3>4, <3>5, <3>6
    <3>8. InternalRangeValues(d) \in Seq(Int)
      BY <3>7
    <3>. QED
      BY <2>3, <3>8 DEF DomainValues
  <2>. QED
    BY <2>1, <2>2, <2>3
<1>2. d.type \in {"binary", "discrete", "categorical"}
  BY DEF HasValues
<1>3. \A k \in 1 .. Len(DomainValues(d)) : DomainValues(d)[k] \in ValueSet(d)
  BY <1>1 DEF ValueSet, ToSet
<1>4. d.type = "binary" => ValueSet(d) = {0, 1}
  BY DEF ValueSet, DomainValues, ToSet
<1>. QED
  BY <1>1, <1>2, <1>3, <1>4 DEF ValueInDomain

\* A normalised domain differs from the given one in its type only.
LEMMA NormalisedTyped ==
  ASSUME NEW d \in Domains
  PROVE  /\ Normalised(d) \in Domains /\ EntitySpaceDomain(d) \in Domains
         /\ Normalised(d).interval = d.interval /\ Normalised(d).values = d.values
<1>1. GivenType(d) \in DomainTypes
  BY DEF GivenType, DomainTypes, Domains
<1>2. \A x \in Domains : \A t \in DomainTypes : [x EXCEPT !.type = t] \in Domains
  BY DEF Domains
<1>3. Normalised(d) \in Domains
  BY <1>1 DEF Normalised, Domains
<1>4. EntitySpaceDomain(d) \in Domains
  BY <1>2, <1>3 DEF EntitySpaceDomain, DomainTypes
<1>. QED
  BY <1>3, <1>4 DEF Normalised, Domains

-----------------------------------------------------------------------------
(* The points of a discrete space.                                         *)

SpaceTyped == space \in Seq([name : Names, domain : Domains]) /\ HasEntitySpace

InSpace == {p \in [Names -> Int] : \A n \in Names : ValueInDomain(DomainOf(n), p[n])}

\* The dimensions have names and domains.
LEMMA SpaceFields ==
  ASSUME SpaceTyped
  PROVE  /\ Len(space) \in Nat /\ DOMAIN space = 1 .. Len(space)
         /\ \A i \in 1 .. Len(space) : space[i].name \in Names /\ space[i].domain \in Domains
<1>1. PICK S : S = [name : Names, domain : Domains]
  OBVIOUS
<1>2. space \in Seq(S)
  BY <1>1 DEF SpaceTyped
<1>3. Len(space) \in Nat /\ DOMAIN space = 1 .. Len(space)
      /\ \A i \in 1 .. Len(space) : space[i] \in S
  BY <1>2
<1>. QED
  BY <1>1, <1>3

\* The domains of a checked space are valid.
LEMMA DomainOfTyped ==
  ASSUME SpaceTyped, NEW n \in Names
  PROVE  DomainOf(n) \in Domains /\ IsValidDomain(DomainOf(n))
<1>1. PICK i \in DOMAIN space : i = CHOOSE j \in DOMAIN space : space[j].name = n
  <2>1. \E i \in DOMAIN space : space[i].name = n
    BY DEF Names
  <2>. QED
    BY <2>1
<1>2. space[i].domain \in Domains
  BY SpaceFields
<1>3. DomainOf(n) \in Domains
  BY <1>1, <1>2, NormalisedTyped DEF DomainOf
<1>. QED
  BY <1>3 DEF SpaceTyped, HasEntitySpace

\* Dimensions of the space, in some order, and the points of the first of them.
Dimensions == Seq([name : Names, domain : Domains])

FirstNames(dims, k) == {dims[i].name : i \in 1 .. k}

FirstPoints(dims, k) ==
  {p \in [FirstNames(dims, k) -> Int] :
     \A n \in FirstNames(dims, k) : ValueInDomain(DomainOf(n), p[n])}

\* They have names.
LEMMA DimensionFields ==
  ASSUME NEW dims \in Dimensions
  PROVE  /\ Len(dims) \in Nat /\ DOMAIN dims = 1 .. Len(dims)
         /\ \A i \in 1 .. Len(dims) : dims[i].name \in Names
<1>1. PICK S : S = [name : Names, domain : Domains]
  OBVIOUS
<1>2. dims \in Seq(S)
  BY <1>1 DEF Dimensions
<1>3. Len(dims) \in Nat /\ DOMAIN dims = 1 .. Len(dims)
      /\ \A i \in 1 .. Len(dims) : dims[i] \in S
  BY <1>2
<1>. QED
  BY <1>1, <1>3

\* Points that are given values are given them one by one.
LEMMA WithValuesTyped ==
  ASSUME NEW X, NEW Y, NEW name, NEW points \in Seq(X), NEW values \in Seq(Int),
         \A p \in X : \A k \in 1 .. Len(values) : WithValue(p, name, values[k]) \in Y
  PROVE  WithValues(points, name, values) \in Seq(Y)
<1>. DEFINE Row(i) == [j \in DOMAIN values |-> WithValue(points[i], name, values[j])]
            rows == [i \in DOMAIN points |-> Row(i)]
<1>1. DOMAIN values = 1 .. Len(values) /\ Len(values) \in Nat
  OBVIOUS
<1>2. \A i \in 1 .. Len(points) : points[i] \in X
  OBVIOUS
<1>3. ASSUME NEW i \in 1 .. Len(points)
      PROVE  Row(i) \in Seq(Y)
  <2>1. Row(i) \in [1 .. Len(values) -> Y]
    BY <1>1, <1>2
  <2>. HIDE DEF Row
  <2>2. PICK l \in Nat : l = Len(values)
    BY <1>1
  <2>. QED
    BY <2>1, <2>2
<1>4. rows \in Seq(Seq(Y))
  <2>1. DOMAIN points = 1 .. Len(points) /\ Len(points) \in Nat
    OBVIOUS
  <2>. HIDE DEF Row
  <2>2. rows \in [1 .. Len(points) -> Seq(Y)]
    BY <1>3, <2>1
  <2>. HIDE DEF rows
  <2>. QED
    BY <2>1, <2>2
<1>5. FlattenSeq(rows) \in Seq(Y)
  <2>. HIDE DEF rows
  <2>. QED
    BY <1>4, FlattenTyped
<1>. QED
  BY <1>5 DEF WithValues

\* A point of the first dimensions, given a value of the next one, is in its domain.
LEMMA WithValueTyped ==
  ASSUME NEW dims \in Dimensions, NEW k \in 1 .. Len(dims), NEW p \in FirstPoints(dims, k - 1),
         NEW value \in Int, ValueInDomain(DomainOf(dims[k].name), value)
  PROVE  WithValue(p, dims[k].name, value) \in FirstPoints(dims, k)
<1>. DEFINE name == dims[k].name
            q == [n \in FirstNames(dims, k - 1) \cup {name} |-> IF n = name THEN value ELSE p[n]]
<1>1. Len(dims) \in Nat
  BY DEF Dimensions
<1>2. FirstNames(dims, k) = FirstNames(dims, k - 1) \cup {name}
  <2>1. 1 .. k = (1 .. k - 1) \cup {k}
    BY <1>1
  <2>. QED
    BY <2>1 DEF FirstNames
<1>3. WithValue(p, name, value) = q
  BY DEF WithValue, FirstPoints
<1>. HIDE DEF name
<1>4. q \in [FirstNames(dims, k) -> Int]
  BY <1>2 DEF FirstPoints
<1>5. \A n \in FirstNames(dims, k) : ValueInDomain(DomainOf(n), q[n])
  BY <1>2 DEF FirstPoints, name
<1>. HIDE DEF q
<1>6. q \in FirstPoints(dims, k)
  BY <1>4, <1>5 DEF FirstPoints
<1>. QED
  BY <1>3, <1>6 DEF name

\* A grid is built dimension by dimension.
IsGrid(f, dims) ==
  /\ f[0] = <<<<>>>>
  /\ \A k \in 0 .. Len(dims) : f[k] \in Seq(FirstPoints(dims, k))
  /\ \A k \in 1 .. Len(dims) :
       f[k] = WithValues(f[k - 1], dims[k].name, DomainValues(DomainOf(dims[k].name)))

\* The points are built dimension by dimension.
LEMMA GridIs ==
  ASSUME SpaceTyped, \A n \in Names : HasValues(DomainOf(n)), NEW dims \in Dimensions
  PROVE  \E f : IsGrid(f, dims) /\ PointsOf(dims) = f[Len(dims)]
<1>. DEFINE n == Len(dims)
            Partial == UNION {[M -> Int] : M \in SUBSET Names}
            X == Seq(Partial)
            Next1(points, k) ==
              WithValues(points, dims[k].name, DomainValues(DomainOf(dims[k].name)))
            Step(f) == [k \in 0 .. n |-> IF k = 0 THEN <<<<>>>> ELSE Next1(f[k - 1], k)]
            all == CHOOSE f : f = Step(f)
            step == [k \in 1 .. n |-> [x \in X |-> Next1(x, k)]]
            P == {k \in 0 .. n : all[k] \in Seq(FirstPoints(dims, k))}
<1>1. PointsOf(dims) = all[n]
  BY DEF PointsOf
<1>2. n \in Nat /\ \A k \in 1 .. n : dims[k].name \in Names
  BY DimensionFields
<1>3. \A k \in 1 .. n :
        LET d == DomainOf(dims[k].name)
        IN  /\ DomainValues(d) \in Seq(Int)
            /\ \A j \in 1 .. Len(DomainValues(d)) : ValueInDomain(d, DomainValues(d)[j])
  BY <1>2, DomainOfTyped, ValuesTyped
<1>4. \A k \in 1 .. n : \A x \in X : Next1(x, k) \in X
  <2>. SUFFICES ASSUME NEW k \in 1 .. n, NEW x \in X
                PROVE  Next1(x, k) \in X
    OBVIOUS
  <2>1. PICK values \in Seq(Int) : values = DomainValues(DomainOf(dims[k].name))
    BY <1>3
  <2>2. PICK name \in Names : name = dims[k].name
    BY <1>2
  <2>3. ASSUME NEW p \in Partial, NEW j \in 1 .. Len(values)
        PROVE  WithValue(p, name, values[j]) \in Partial
    <3>1. PICK M \in SUBSET Names : p \in [M -> Int]
      BY <2>3
    <3>2. values[j] \in Int
      OBVIOUS
    <3>3. WithValue(p, name, values[j]) \in [M \cup {name} -> Int]
      BY <3>1, <3>2 DEF WithValue
    <3>. QED
      BY <3>3
  <2>4. WithValues(x, name, values) \in Seq(Partial)
    <3>. HIDE DEF Partial
    <3>. QED
      BY <2>3, WithValuesTyped
  <2>. QED
    BY <2>1, <2>2, <2>4
<1>5. <<<<>>>> \in X /\ <<<<>>>> \in Seq(FirstPoints(dims, 0))
  <2>1. <<>> \in [{} -> Int]
    OBVIOUS
  <2>2. <<>> \in Partial
    BY <2>1
  <2>3. FirstNames(dims, 0) = {}
    BY DEF FirstNames
  <2>4. <<>> \in FirstPoints(dims, 0)
    BY <2>1, <2>3 DEF FirstPoints
  <2>. HIDE DEF Partial
  <2>. QED
    BY <2>2, <2>4
<1>. HIDE DEF n, X, Next1
<1>6. PICK e : e = <<<<>>>> /\ e \in X /\ e \in Seq(FirstPoints(dims, 0))
  BY <1>5
<1>7. PICK f : IsIteration(f, e, step, n, X)
  <2>1. Steps(step, n, X)
    BY <1>4 DEF Steps
  <2>. HIDE DEF step
  <2>. QED
    BY <1>2, <1>5, <1>6, <2>1, Iterated
<1>8. \A k \in 0 .. n : f[k] = IF k = 0 THEN e ELSE Next1(f[k - 1], k)
  <2>1. \A k \in 1 .. n : f[k - 1] \in X
    <3>1. \A k \in 1 .. n : k - 1 \in 0 .. n
      BY <1>2
    <3>. QED
      BY <1>7, <3>1 DEF IsIteration
  <2>2. \A k \in 0 .. n : k = 0 \/ k \in 1 .. n
    BY <1>2
  <2>. QED
    BY <1>7, <2>1, <2>2 DEF IsIteration
<1>9. f = Step(f)
  <2>1. f = [k \in 0 .. n |-> f[k]]
    BY <1>7 DEF IsIteration
  <2>. QED
    BY <1>6, <1>8, <2>1
<1>10. all = Step(all)
  <2>. HIDE DEF Step
  <2>. QED
    BY <1>9
<1>. HIDE DEF all
<1>11. all = [k \in 0 .. n |-> IF k = 0 THEN e ELSE Next1(all[k - 1], k)]
  BY <1>6, <1>10
<1>12. all[0] = e /\ \A k \in 1 .. n : all[k] = Next1(all[k - 1], k)
  BY <1>2, <1>11
<1>13. 0 \in P
  <2>1. e \in Seq(FirstPoints(dims, 0))
    BY <1>6
  <2>2. all[0] = e
    BY <1>12
  <2>3. 0 \in 0 .. n /\ all[0] \in Seq(FirstPoints(dims, 0))
    BY <1>2, <2>1, <2>2
  <2>. QED
    BY <2>3
<1>14. ASSUME NEW k \in 1 .. n, k - 1 \in P
       PROVE  k \in P
  <2>1. PICK points \in Seq(FirstPoints(dims, k - 1)) : points = all[k - 1]
    BY <1>14
  <2>2. PICK values \in Seq(Int) :
              /\ values = DomainValues(DomainOf(dims[k].name))
              /\ \A j \in 1 .. Len(values) : ValueInDomain(DomainOf(dims[k].name), values[j])
    BY <1>3
  <2>3. \A p \in FirstPoints(dims, k - 1) : \A j \in 1 .. Len(values) :
          WithValue(p, dims[k].name, values[j]) \in FirstPoints(dims, k)
    BY <2>2, WithValueTyped DEF n
  <2>4. WithValues(points, dims[k].name, values) \in Seq(FirstPoints(dims, k))
    BY <2>3, WithValuesTyped
  <2>5. all[k] \in Seq(FirstPoints(dims, k))
    BY <1>12, <2>1, <2>2, <2>4 DEF Next1
  <2>. QED
    BY <1>2, <2>5
<1>15. 0 .. n \subseteq P
  <2>. HIDE DEF P
  <2>. QED
    BY <1>2, <1>13, <1>14, UpTo
<1>16. IsGrid(all, dims)
  <2>1. \A k \in 0 .. n : all[k] \in Seq(FirstPoints(dims, k))
    BY <1>15
  <2>. QED
    BY <1>6, <1>12, <2>1 DEF IsGrid, n, Next1
<1>. QED
  BY <1>1, <1>16 DEF n

\* The dimensions of the space in an order.
IsOrder(dims) ==
  /\ dims \in Dimensions
  /\ FirstNames(dims, Len(dims)) = Names
  /\ \A i, j \in 1 .. Len(dims) : dims[i].name = dims[j].name => i = j

\* All the points of a grid are in its space.
LEMMA PointsTyped ==
  ASSUME SpaceTyped, \A n \in Names : HasValues(DomainOf(n)),
         NEW dims \in Dimensions, FirstNames(dims, Len(dims)) = Names
  PROVE  PointsOf(dims) \in Seq(InSpace)
<1>1. PICK f : IsGrid(f, dims) /\ PointsOf(dims) = f[Len(dims)]
  BY GridIs
<1>2. PICK n \in Nat : n = Len(dims)
  BY DEF Dimensions
<1>3. f[n] \in Seq(FirstPoints(dims, n))
  BY <1>1, <1>2 DEF IsGrid
<1>4. FirstPoints(dims, n) = InSpace
  BY <1>2 DEF FirstPoints, InSpace
<1>. QED
  BY <1>1, <1>2, <1>3, <1>4

\* The order in which the dimensions are given is one.
LEMMA SpaceOrder ==
  ASSUME SpaceTyped
  PROVE  /\ space \in Dimensions /\ FirstNames(space, Len(space)) = Names
         /\ SequentialPoints = PointsOf(space)
<1>1. DOMAIN space = 1 .. Len(space)
  BY SpaceFields
<1>. QED
  BY <1>1 DEF SpaceTyped, Dimensions, FirstNames, Names, SequentialPoints

-----------------------------------------------------------------------------
(* What is sampled.                                                        *)

\* An entity that matches the space is in it.
LEMMA MatchingTyped ==
  ASSUME NEW entities \in Seq(Storable)
  PROVE  MatchingEntities(entities) \in Seq(InSpace)
<1>. DEFINE indexes == {k \in DOMAIN entities : IsEntityInSpace(entities[k])}
<1>1. \A k \in 1 .. Len(entities) : k \in indexes => entities[k] \in InSpace
  <2>1. \A k \in 1 .. Len(entities) : entities[k] \in Storable
    OBVIOUS
  <2>. QED
    BY <2>1, SpacesAssumption DEF IsEntityInSpace, InSpace
<1>. HIDE DEF indexes
<1>2. Keep(entities, indexes) \in Seq(InSpace)
  BY <1>1, KeepTyped
<1>. QED
  BY <1>2 DEF MatchingEntities, indexes

\* An entity that is added does not take the place of another.
LEMMA MatchingLonger ==
  ASSUME NEW entities \in Seq(Storable), NEW entity \in Storable
  PROVE  \/ MatchingEntities(Append(entities, entity)) = MatchingEntities(entities)
         \/ MatchingEntities(Append(entities, entity)) =
              Append(MatchingEntities(entities), entity)
<1>. DEFINE longer == Append(entities, entity)
            before == {k \in DOMAIN entities : IsEntityInSpace(entities[k])}
            after == {k \in DOMAIN longer : IsEntityInSpace(longer[k])}
<1>1. \A k \in 1 .. Len(entities) : longer[k] = entities[k] /\ k \in DOMAIN longer
  OBVIOUS
<1>2. \A k \in 1 .. Len(entities) : k \in before <=> k \in after
  <2>. HIDE DEF longer
  <2>. QED
    BY <1>1
<1>3. MatchingEntities(longer) = Keep(longer, after)
      /\ MatchingEntities(entities) = Keep(entities, before)
  BY DEF MatchingEntities
<1>. HIDE DEF before, after
<1>4. Keep(longer, after) = IF Len(entities) + 1 \in after
                              THEN Append(Keep(entities, before), entity)
                              ELSE Keep(entities, before)
  BY <1>2, KeepLonger
<1>. HIDE DEF longer
<1>5. Keep(longer, after) \in {Append(Keep(entities, before), entity), Keep(entities, before)}
  BY <1>4
<1>. QED
  BY <1>3, <1>5 DEF longer

\* Grouping makes no points.
LEMMA GroupsTyped ==
  ASSUME NEW S, NEW points \in Seq(S)
  PROVE  BuildGroupsList(points) \in Seq(Seq(S))
<1>. DEFINE places == [i \in DOMAIN points |-> i]
            first == {i \in DOMAIN points :
                        \A j \in 1 .. i - 1 : ~SameGroup(points[i], points[j])}
            firsts == Keep(places, first)
            Members(k) == {i \in DOMAIN points : SameGroup(points[i], points[firsts[k]])}
            groups == [k \in DOMAIN firsts |-> Keep(points, Members(k))]
<1>1. BuildGroupsList(points) = groups
  BY DEF BuildGroupsList
<1>2. places \in Seq(Nat)
  <2>1. DOMAIN points = 1 .. Len(points) /\ Len(points) \in Nat
    OBVIOUS
  <2>2. places \in [1 .. Len(points) -> Nat]
    BY <2>1
  <2>. HIDE DEF places
  <2>3. PICK l \in Nat : l = Len(points)
    BY <2>1
  <2>. QED
    BY <2>2, <2>3
<1>3. firsts \in Seq(Nat)
  <2>. HIDE DEF places, first
  <2>1. \A k \in 1 .. Len(places) : k \in first => places[k] \in Nat
    BY <1>2
  <2>. QED
    BY <1>2, <2>1, KeepTyped
<1>. HIDE DEF firsts
<1>4. PICK l \in Nat : DOMAIN firsts = 1 .. l
  BY <1>3
<1>5. \A k \in 1 .. l : Keep(points, Members(k)) \in Seq(S)
  <2>1. \A indexes : Keep(points, indexes) \in Seq(S)
    <3>1. \A k \in 1 .. Len(points) : points[k] \in S
      OBVIOUS
    <3>. QED
      BY <3>1, KeepTyped
  <2>. QED
    BY <2>1
<1>6. groups \in [1 .. l -> Seq(S)]
  <2>. HIDE DEF Members
  <2>. QED
    BY <1>4, <1>5
<1>. HIDE DEF groups
<1>7. groups \in Seq(Seq(S))
  BY <1>6
<1>. QED
  BY <1>1, <1>7

-----------------------------------------------------------------------------
(* The invariant.                                                          *)

\* Whatever is on its way to a batch is in the space, which was checked.
SpaceInv ==
  /\ space \in Seq([name : Names, domain : Domains])
  /\ experiments \in MeasurementSpaces
  /\ store \in Seq(Storable)
  /\ phase \in {"created", "sampling", "failed", "done"} =>
       HasEntitySpace /\ CheckEntitySpaceCompatible
  /\ phase \in {"configured", "created", "refused", "failed", "sampling", "done"}
  /\ phase \in {"configured", "created", "refused", "failed"} => yielded = <<>>
  /\ batch \in Seq(InSpace) /\ sample \in Seq(InSpace)
  /\ yielded \in Seq(Seq(InSpace))
  /\ BySlices => walk \in Seq(1 .. Len(MatchingEntities(store)))
  /\ ByGroups => walk \in Seq(Seq(InSpace))

\* The invariant holds at first.
LEMMA SpaceInvInit == SpaceInit => SpaceInv
<1>. SUFFICES ASSUME SpaceInit
              PROVE  SpaceInv
  OBVIOUS
<1>1. space \in Seq([name : Names, domain : Domains])
  BY SpacesAssumption DEF SpaceInit, Names
<1>2. /\ phase = "configured" /\ yielded = <<>> /\ batch = <<>> /\ sample = <<>>
      /\ store = <<>> /\ experiments \in MeasurementSpaces
  BY DEF SpaceInit
<1>3. ~BySlices /\ ~ByGroups
  BY <1>2 DEF BySlices, ByGroups
<1>4. /\ batch \in Seq(InSpace) /\ sample \in Seq(InSpace)
      /\ yielded \in Seq(Seq(InSpace)) /\ store \in Seq(Storable)
  BY <1>2
<1>. QED
  BY <1>1, <1>2, <1>3, <1>4 DEF SpaceInv

\* Taking a part of a sequence, or one of its members away.
LEMMA PartTyped ==
  ASSUME NEW S, NEW s \in Seq(S), NEW m \in Nat \ {0}, NEW n \in Int, n <= Len(s)
  PROVE  SubSeq(s, m, n) \in Seq(S)
<1>1. \A i \in m .. n : s[i] \in S
  <2>1. \A i \in m .. n : i \in 1 .. Len(s)
    OBVIOUS
  <2>. QED
    BY <2>1
<1>. QED
  BY <1>1, SubSeqProperties

\* One member is taken away.
LEMMA RemovedTyped ==
  ASSUME NEW S, NEW s \in Seq(S), NEW i \in 1 .. Len(s)
  PROVE  RemoveAt(s, i) \in Seq(S)
<1>1. Len(s) \in Nat
  OBVIOUS
<1>2. SubSeq(s, 1, i - 1) \in Seq(S) /\ SubSeq(s, i + 1, Len(s)) \in Seq(S)
  BY <1>1, PartTyped
<1>3. \A x, y \in Seq(S) : x \o y \in Seq(S)
  OBVIOUS
<1>. QED
  BY <1>2, <1>3 DEF RemoveAt

\* What the space is does not change, nor what it was checked against.
LEMMA SpaceStays ==
  ASSUME UNCHANGED <<space, experiments>>
  PROVE  /\ Names' = Names
         /\ \A n \in Names : DomainOf(n)' = DomainOf(n)
         /\ InSpace' = InSpace
         /\ HasEntitySpace' <=> HasEntitySpace
         /\ CheckEntitySpaceCompatible' <=> CheckEntitySpaceCompatible
         /\ \A entities : MatchingEntities(entities)' = MatchingEntities(entities)
         /\ SequentialPoints' = SequentialPoints
<1>1. /\ Names' = Names
      /\ \A n : DomainOf(n)' = DomainOf(n)
  BY DEF Names, DomainOf
<1>2. InSpace' = InSpace /\ (HasEntitySpace' <=> HasEntitySpace)
  BY <1>1 DEF InSpace, HasEntitySpace
<1>3. CheckEntitySpaceCompatible' <=> CheckEntitySpaceCompatible
  BY <1>1 DEF CheckEntitySpaceCompatible
<1>4. \A entities : MatchingEntities(entities)' = MatchingEntities(entities)
  <2>1. \A entity : IsEntityInSpace(entity)' <=> IsEntityInSpace(entity)
    BY <1>1 DEF IsEntityInSpace
  <2>. QED
    BY <2>1 DEF MatchingEntities
<1>5. SequentialPoints' = SequentialPoints
  BY <1>1 DEF SequentialPoints, PointsOf
<1>. QED
  BY <1>1, <1>2, <1>3, <1>4, <1>5

\* Every step preserves the invariant.
LEMMA SpaceInvNext == SpaceInv /\ [SpaceNext]_spaceVars => SpaceInv'
<1>. SUFFICES ASSUME SpaceInv, [SpaceNext]_spaceVars
              PROVE  SpaceInv'
  OBVIOUS
<1>. DEFINE Matches == MatchingEntities(store)
<1>1. UNCHANGED <<space, experiments>>
  BY DEF SpaceNext, spaceVars, Create, AddEntity, StartSampling, NextSlice, NextSelection,
         FetchGroup, Draw, Yield, LastBatch
<1>2. /\ Names' = Names /\ InSpace' = InSpace
      /\ HasEntitySpace' <=> HasEntitySpace
      /\ CheckEntitySpaceCompatible' <=> CheckEntitySpaceCompatible
      /\ \A entities : MatchingEntities(entities)' = MatchingEntities(entities)
  BY <1>1, SpaceStays
<1>3. space' \in Seq([name : Names', domain : Domains]) /\ experiments' \in MeasurementSpaces
  BY <1>1, <1>2 DEF SpaceInv
<1>4. Matches \in Seq(InSpace)
  BY MatchingTyped DEF SpaceInv
<1>5. CASE Create
  <2>1. phase' \in {"created", "refused"} /\ ~BySlices' /\ ~ByGroups'
    BY <1>5 DEF Create, BySlices, ByGroups
  <2>. QED
    BY <1>2, <1>3, <1>5, <2>1 DEF Create, SpaceInv
<1>6. ASSUME NEW entity \in Storable, AddEntity(entity)
      PROVE  SpaceInv'
  <2>1. store' \in Seq(Storable)
    BY <1>6 DEF AddEntity, SpaceInv
  <2>2. UNCHANGED <<phase, sampler, walk, sample, batch, yielded>>
    BY <1>6 DEF AddEntity
  <2>3. (BySlices' <=> BySlices) /\ (ByGroups' <=> ByGroups)
    BY <2>2 DEF BySlices, ByGroups
  <2>4. 1 .. Len(Matches) \subseteq 1 .. Len(Matches')
    <3>1. Matches' = MatchingEntities(Append(store, entity))
      BY <1>2, <1>6 DEF AddEntity
    <3>2. Matches' = Matches \/ Matches' = Append(Matches, entity)
      BY <3>1, MatchingLonger DEF SpaceInv
    <3>3. PICK m : m = Matches
      OBVIOUS
    <3>4. Len(Append(m, entity)) = Len(m) + 1 /\ Len(m) \in Nat
      BY <1>4, <3>3
    <3>. HIDE DEF Matches
    <3>. QED
      BY <3>2, <3>3, <3>4
  <2>5. BySlices' => walk' \in Seq(1 .. Len(Matches'))
    <3>. SUFFICES ASSUME BySlices
                  PROVE  walk \in Seq(1 .. Len(Matches'))
      BY <2>2, <2>3
    <3>1. PICK w \in Seq(1 .. Len(Matches)) : w = walk
      BY DEF SpaceInv
    <3>2. PICK now : now = 1 .. Len(Matches)
      OBVIOUS
    <3>3. PICK later : later = 1 .. Len(Matches')
      OBVIOUS
    <3>4. w \in Seq(now) /\ now \subseteq later
      BY <2>4, <3>1, <3>2, <3>3
    <3>5. Len(w) \in Nat /\ w \in [1 .. Len(w) -> later]
      BY <3>4
    <3>6. w \in Seq(later)
      BY <3>5
    <3>. QED
      BY <3>1, <3>3, <3>6
  <2>. QED
    BY <1>2, <1>3, <2>1, <2>2, <2>3, <2>5 DEF SpaceInv
<1>7. ASSUME NEW s \in Samplers, StartSampling(s)
      PROVE  SpaceInv'
  <2>1. /\ phase = "created" /\ phase' \in {"sampling", "failed"}
        /\ UNCHANGED <<store, sample, batch, yielded>> /\ sampler' = s
    BY <1>7 DEF StartSampling
  <2>2. yielded = <<>> /\ HasEntitySpace /\ CheckEntitySpaceCompatible
    BY <2>1 DEF SpaceInv
  <2>3. phase' = "sampling" => walk' = Walk(s)
    BY <1>7 DEF StartSampling
  <2>4. Matches' = Matches
    BY <1>2, <2>1
  <2>5. BySlices' => walk' \in Seq(1 .. Len(Matches'))
    <3>. SUFFICES ASSUME BySlices'
                  PROVE  walk' \in Seq(1 .. Len(Matches))
      BY <2>4
    <3>1. s.source # "grid" /\ ~s.grouped /\ phase' = "sampling"
      BY <2>1 DEF BySlices
    <3>2. Walk(s) = [i \in DOMAIN Matches |-> i]
      BY <3>1 DEF Walk
    <3>3. PICK m \in Nat : m = Len(Matches) /\ DOMAIN Matches = 1 .. m
      BY <1>4
    <3>. HIDE DEF Matches
    <3>4. walk' \in [1 .. m -> 1 .. m]
      BY <2>3, <3>1, <3>2, <3>3
    <3>. QED
      BY <3>3, <3>4
  <2>6. ByGroups' => walk' \in Seq(Seq(InSpace))
    <3>. SUFFICES ASSUME ByGroups'
                  PROVE  Walk(s) \in Seq(Seq(InSpace))
      BY <2>3 DEF ByGroups
    <3>1. phase' = "sampling" /\ (s.source = "grid" \/ s.grouped)
      <4>1. s.source \in {"stored", "grid"}
        BY SamplingAssumption
      <4>2. phase' = "sampling" /\ ~(s.source = "stored" /\ ~s.grouped)
        BY <2>1 DEF ByGroups
      <4>. QED
        BY <4>1, <4>2
    <3>2. s.source = "grid" => SequentialPoints \in Seq(InSpace)
      <4>1. s.source = "grid" => \A n \in Names : HasValues(DomainOf(n))
        BY <1>7, <3>1 DEF StartSampling
      <4>2. SpaceTyped
        BY <2>2 DEF SpaceTyped, SpaceInv
      <4>. QED
        BY <4>1, <4>2, PointsTyped, SpaceOrder
    <3>3. CASE s.grouped
      <4>1. PICK points \in Seq(InSpace) : Walk(s) = BuildGroupsList(points)
        BY <1>4, <3>2, <3>3 DEF Walk
      <4>. QED
        BY <4>1, GroupsTyped
    <3>4. CASE ~s.grouped
      <4>1. s.source = "grid"
        BY <3>1, <3>4
      <4>2. PICK points \in Seq(InSpace) : points = SequentialPoints
        BY <3>2, <4>1
      <4>3. Walk(s) = [i \in DOMAIN points |-> <<points[i]>>]
        BY <3>4, <4>1, <4>2 DEF Walk
      <4>4. PICK l \in Nat : DOMAIN points = 1 .. l
        OBVIOUS
      <4>5. \A i \in 1 .. l : <<points[i]>> \in Seq(InSpace)
        BY <4>4
      <4>6. PICK w : w = Walk(s)
        OBVIOUS
      <4>7. w \in [1 .. l -> Seq(InSpace)]
        BY <4>3, <4>4, <4>5, <4>6
      <4>. QED
        BY <4>6, <4>7
    <3>. QED
      BY <3>3, <3>4
  <2>. QED
    BY <1>2, <1>3, <2>1, <2>2, <2>5, <2>6 DEF SpaceInv
<1>8. ASSUME NextSlice \/ NextSelection
      PROVE  SpaceInv'
  <2>1. /\ BySlices /\ walk # <<>> /\ phase = "sampling"
        /\ UNCHANGED <<phase, store, sampler, sample, batch>>
    BY <1>8 DEF NextSlice, NextSelection, BySlices
  <2>2. (BySlices' <=> BySlices) /\ (ByGroups' <=> ByGroups) /\ ~ByGroups
    BY <2>1 DEF BySlices, ByGroups
  <2>3. PICK m \in Seq(InSpace) : m = Matches
    BY <1>4
  <2>4. Matches' = m
    BY <1>2, <2>1, <2>3
  <2>5. PICK w \in Seq(1 .. Len(m)) : w = walk
    BY <2>1, <2>3 DEF SpaceInv
  <2>6. Len(w) \in Nat \ {0} /\ \A i \in 1 .. Len(w) : w[i] \in 1 .. Len(m)
    BY <2>1, <2>5
  <2>7. /\ \E b \in Seq(InSpace) : yielded' = Append(yielded, b)
        /\ walk' \in Seq(1 .. Len(m))
    <3>1. CASE NextSlice
      <4>. DEFINE last == w[1] + BatchSize - 1
                  end == IF last < Len(m) THEN last ELSE Len(m)
      <4>1. /\ yielded' = Append(yielded, SubSeq(m, w[1], end))
            /\ walk' = SubSeq(w, BatchSize + 1, Len(w))
        BY <2>3, <2>5, <3>1 DEF NextSlice
      <4>2. w[1] \in Nat \ {0} /\ end \in Int /\ end <= Len(m)
        BY <2>6, SamplingAssumption
      <4>. HIDE DEF end
      <4>3. SubSeq(m, w[1], end) \in Seq(InSpace)
        BY <4>2, PartTyped
      <4>4. SubSeq(w, BatchSize + 1, Len(w)) \in Seq(1 .. Len(m))
        BY <2>6, PartTyped, SamplingAssumption
      <4>. QED
        BY <4>1, <4>3, <4>4
    <3>2. CASE NextSelection
      <4>. DEFINE size == IF BatchSize < Len(w) THEN BatchSize ELSE Len(w)
      <4>1. PICK selection \in [1 .. size -> ToSet(w)] :
                   /\ yielded' = Append(yielded, [i \in 1 .. size |-> m[selection[i]]])
                   /\ walk' = Keep(w, {i \in DOMAIN w : w[i] \notin ToSet(selection)})
        BY <2>3, <2>5, <3>2 DEF NextSelection
      <4>2. size \in Nat
        BY <2>6, SamplingAssumption
      <4>. HIDE DEF size
      <4>3. \A i \in 1 .. size : m[selection[i]] \in InSpace
        <5>1. ToSet(w) \subseteq 1 .. Len(m)
          BY <2>6 DEF ToSet
        <5>2. \A i \in 1 .. Len(m) : m[i] \in InSpace
          OBVIOUS
        <5>. QED
          BY <5>1, <5>2
      <4>4. PICK b : b = [i \in 1 .. size |-> m[selection[i]]]
        OBVIOUS
      <4>5. b \in [1 .. size -> InSpace]
        BY <4>3, <4>4
      <4>6. b \in Seq(InSpace)
        BY <4>2, <4>5
      <4>7. walk' \in Seq(1 .. Len(m))
        BY <2>6, <4>1, KeepTyped
      <4>. QED
        BY <4>1, <4>4, <4>6, <4>7
    <3>. QED
      BY <1>8, <3>1, <3>2
  <2>8. yielded' \in Seq(Seq(InSpace))
    <3>1. PICK b \in Seq(InSpace) : yielded' = Append(yielded, b)
      BY <2>7
    <3>2. PICK y \in Seq(Seq(InSpace)) : y = yielded
      BY DEF SpaceInv
    <3>3. PICK S : S = Seq(InSpace)
      OBVIOUS
    <3>. QED
      BY <3>1, <3>2, <3>3
  <2>. HIDE DEF Matches
  <2>9. BySlices' => walk' \in Seq(1 .. Len(Matches'))
    BY <2>4, <2>7
  <2>. QED
    BY <1>2, <1>3, <2>1, <2>2, <2>8, <2>9 DEF SpaceInv, Matches
<1>9. CASE FetchGroup
  <2>1. ByGroups /\ UNCHANGED <<phase, store, sampler, batch, yielded>>
    BY <1>9 DEF FetchGroup
  <2>2. ByGroups' /\ ~BySlices'
    BY <2>1 DEF ByGroups, BySlices
  <2>3. PICK S : S = Seq(InSpace)
    OBVIOUS
  <2>4. PICK w \in Seq(S) : w = walk
    BY <2>1, <2>3 DEF SpaceInv
  <2>5. PICK i \in 1 .. Len(w) : sample' = w[i] /\ walk' = RemoveAt(w, i)
    <3>1. DOMAIN w = 1 .. Len(w)
      OBVIOUS
    <3>. QED
      BY <1>9, <2>4, <3>1 DEF FetchGroup
  <2>6. sample' \in S /\ walk' \in Seq(S)
    BY <2>5, RemovedTyped
  <2>. QED
    BY <1>2, <1>3, <2>1, <2>2, <2>3, <2>6 DEF SpaceInv
<1>10. CASE Draw
  <2>1. ByGroups /\ sample # <<>> /\ UNCHANGED <<phase, store, sampler, walk, yielded>>
    BY <1>10 DEF Draw
  <2>2. ByGroups' /\ ~BySlices'
    BY <2>1 DEF ByGroups, BySlices
  <2>3. PICK S : S = InSpace
    OBVIOUS
  <2>4. batch \in Seq(S) /\ sample \in Seq(S) /\ sample # <<>>
    BY <2>1, <2>3 DEF SpaceInv
  <2>5. Append(batch, Head(sample)) \in Seq(S) /\ Tail(sample) \in Seq(S)
    BY <2>4
  <2>6. batch' \in Seq(S) /\ sample' \in Seq(S)
    BY <1>10, <2>5 DEF Draw
  <2>. QED
    BY <1>2, <1>3, <2>1, <2>2, <2>3, <2>6 DEF SpaceInv
<1>11. ASSUME Yield \/ LastBatch
       PROVE  SpaceInv'
  <2>1. /\ phase = "sampling" /\ phase' \in {"sampling", "done"}
        /\ phase' = phase \/ phase' = "done"
        /\ UNCHANGED <<store, sampler, walk, sample>> /\ batch' = <<>>
        /\ yielded' = yielded \/ yielded' = Append(yielded, batch)
    BY <1>11 DEF Yield, LastBatch, ByGroups
  <2>2. PICK S : S = Seq(InSpace)
    OBVIOUS
  <2>3. batch \in S /\ yielded \in Seq(S)
    BY <2>2 DEF SpaceInv
  <2>4. yielded' \in Seq(S)
    BY <2>1, <2>3
  <2>5. batch' \in Seq(InSpace)
    BY <2>1
  <2>6. (BySlices' => BySlices) /\ (ByGroups' => ByGroups)
    BY <2>1 DEF BySlices, ByGroups
  <2>. QED
    BY <1>2, <1>3, <2>1, <2>2, <2>4, <2>5, <2>6 DEF SpaceInv
<1>12. CASE UNCHANGED spaceVars
  <2>1. UNCHANGED <<store, phase, sampler, walk, sample, batch, yielded>>
    BY <1>12 DEF spaceVars
  <2>2. (BySlices' <=> BySlices) /\ (ByGroups' <=> ByGroups)
    BY <2>1 DEF BySlices, ByGroups
  <2>. QED
    BY <1>2, <1>3, <2>1, <2>2 DEF SpaceInv
<1>. QED
  BY <1>5, <1>6, <1>7, <1>8, <1>9, <1>10, <1>11, <1>12 DEF SpaceNext

\* All that is sampled is in the space.
LEMMA SampledInSpace ==
  ASSUME SpaceInv
  PROVE  Sampled \in Seq(InSpace)
<1>1. PICK y \in Seq(Seq(InSpace)) : y = yielded
  BY DEF SpaceInv
<1>. QED
  BY <1>1, FlattenTyped DEF Sampled

\* Being in the space that was checked is what an experiment needs.
LEMMA SampledMeasurable == SpaceInv => SamplesAreMeasurable
<1>. SUFFICES ASSUME SpaceInv, NEW k \in DOMAIN Sampled, NEW e \in experiments
              PROVE  /\ DOMAIN e.required \subseteq DOMAIN Sampled[k]
                     /\ e.parameterized \cap DOMAIN Sampled[k] = {}
                     /\ \A n \in DOMAIN e.required :
                          ValueInDomain(Normalised(e.required[n]), Sampled[k][n])
                     /\ \A n \in DOMAIN e.optional \cap DOMAIN Sampled[k] :
                          ValueInDomain(Normalised(e.optional[n]), Sampled[k][n])
  BY DEF SamplesAreMeasurable
<1>1. PICK entity \in InSpace : entity = Sampled[k]
  <2>1. PICK s \in Seq(InSpace) : s = Sampled
    BY SampledInSpace
  <2>2. k \in 1 .. Len(s)
    BY <2>1
  <2>3. s[k] \in InSpace
    BY <2>2
  <2>. QED
    BY <2>1, <2>3
<1>2. HasEntitySpace /\ CheckEntitySpaceCompatible
  <2>1. yielded # <<>>
    <3>1. FlattenSeq(<<>>) = <<>>
      BY DEF FlattenSeq
    <3>2. DOMAIN FlattenSeq(<<>>) = {}
      BY <3>1
    <3>. QED
      BY <3>2 DEF Sampled
  <2>. QED
    BY <2>1 DEF SpaceInv
<1>3. /\ \A n \in DOMAIN e.required :
           n \in Names /\ IsSubDomain(DomainOf(n), Normalised(e.required[n]))
      /\ \A n \in DOMAIN e.optional \cap Names :
           /\ IsSubDomain(DomainOf(n), Normalised(e.optional[n]))
           /\ n \notin e.parameterized
  BY <1>2 DEF CheckEntitySpaceCompatible
<1>4. /\ DOMAIN entity = Names
      /\ \A n \in Names : entity[n] \in Int /\ ValueInDomain(DomainOf(n), entity[n])
  BY DEF InSpace
<1>5. /\ \A n \in DOMAIN e.required :
           e.required[n] \in Domains /\ IsValidDomain(e.required[n])
      /\ \A n \in DOMAIN e.optional :
           e.optional[n] \in Domains /\ IsValidDomain(e.optional[n])
      /\ e.parameterized \subseteq DOMAIN e.optional
  BY SpacesAssumption DEF SpaceInv
<1>6. ASSUME NEW n \in Names, NEW d \in Domains, IsValidDomain(d),
             IsSubDomain(DomainOf(n), Normalised(d))
      PROVE  ValueInDomain(Normalised(d), entity[n])
  <2>1. DomainOf(n) \in Domains
    BY <1>2, DomainOfTyped DEF SpaceTyped, SpaceInv
  <2>2. /\ Normalised(d) \in Domains
        /\ Normalised(d).interval = d.interval /\ Normalised(d).values = d.values
    BY NormalisedTyped
  <2>3. d.interval # 0 => d.values = None
    BY <1>6 DEF IsValidDomain
  <2>. QED
    BY <1>4, <1>6, <2>1, <2>2, <2>3, SubDomainSound
<1>7. \A n \in DOMAIN e.required : ValueInDomain(Normalised(e.required[n]), entity[n])
  BY <1>3, <1>5, <1>6
<1>8. \A n \in DOMAIN e.optional \cap Names :
        ValueInDomain(Normalised(e.optional[n]), entity[n])
  BY <1>3, <1>5, <1>6
<1>. QED
  BY <1>1, <1>3, <1>4, <1>5, <1>7, <1>8

(***************************************************************************)
(* For any entity spaces, experiments, shared stores, samplers and sizes   *)
(* of a batch: what is sampled from a space has a value for all that its   *)
(* experiments require, and only values they accept.                       *)
(***************************************************************************)
THEOREM MeasurableCorrect == SpaceSpec => []SamplesAreMeasurable
BY SpaceInvInit, SpaceInvNext, SampledMeasurable, PTL DEF SpaceSpec

-----------------------------------------------------------------------------
(* Joined sequences.                                                       *)

\* One more is put at the end.
LEMMA FlattenAppend ==
  ASSUME NEW S, NEW seqs \in Seq(Seq(S)), NEW s \in Seq(S)
  PROVE  FlattenSeq(Append(seqs, s)) = FlattenSeq(seqs) \o s
<1>. DEFINE X == Seq(S)
<1>1. PICK longer \in Seq(X) : longer = Append(seqs, s)
  <2>1. seqs \in Seq(X) /\ s \in X
    OBVIOUS
  <2>. HIDE DEF X
  <2>2. Append(seqs, s) \in Seq(X)
    BY <2>1
  <2>. QED
    BY <2>2
<1>2. PICK n \in Nat : n = Len(seqs) /\ Len(longer) = n + 1 /\ longer[n + 1] = s
  BY <1>1
<1>3. \A k \in 1 .. n : longer[k] = seqs[k]
  BY <1>1, <1>2
<1>4. PICK f : IsFlattened(f, seqs, S) /\ FlattenSeq(seqs) = f[n]
  BY <1>2, FlattenIs
<1>5. PICK g : IsFlattened(g, longer, S) /\ FlattenSeq(longer) = g[n + 1]
  BY <1>2, FlattenIs
<1>. DEFINE P == {k \in 0 .. n : f[k] = g[k]}
<1>6. 0 \in P
  BY <1>4, <1>5 DEF IsFlattened
<1>7. ASSUME NEW k \in 1 .. n, k - 1 \in P
      PROVE  k \in P
  <2>1. k \in 0 .. n /\ k \in 1 .. n + 1
    OBVIOUS
  <2>2. f[k] = f[k - 1] \o seqs[k]
    BY <1>2, <1>4 DEF IsFlattened
  <2>3. g[k] = g[k - 1] \o longer[k]
    BY <1>2, <1>5, <2>1 DEF IsFlattened
  <2>. QED
    BY <1>3, <1>7, <2>1, <2>2, <2>3
<1>8. 0 .. n \subseteq P
  <2>. HIDE DEF P
  <2>. QED
    BY <1>6, <1>7, UpTo
<1>9. f[n] = g[n]
  BY <1>8
<1>10. g[n + 1] = g[n] \o s
  <2>1. PICK m \in 1 .. n + 1 : m = n + 1 /\ m - 1 = n
    OBVIOUS
  <2>2. g[m] = g[m - 1] \o longer[m]
    BY <1>2, <1>5 DEF IsFlattened
  <2>. QED
    BY <1>2, <2>1, <2>2
<1>. QED
  BY <1>1, <1>4, <1>5, <1>9, <1>10

\* Where the members of two sequences are when they are joined.
IsJoin(x, s, t, m, n) ==
  /\ DOMAIN s = 1 .. m /\ DOMAIN t = 1 .. n /\ DOMAIN x = 1 .. m + n
  /\ \A i \in 1 .. m : i \in 1 .. m + n /\ x[i] = s[i]
  /\ \A i \in 1 .. n : i + m \in 1 .. m + n /\ x[i + m] = t[i]
  /\ \A i \in 1 .. m + n : \/ i \in 1 .. m
                           \/ i > m /\ i - m \in 1 .. n /\ x[i] = t[i - m]

\* Every member of the two is at its place in both together.
LEMMA JoinIs ==
  ASSUME NEW S, NEW s \in Seq(S), NEW t \in Seq(S)
  PROVE  \E m, n \in Nat : /\ m = Len(s) /\ n = Len(t) /\ m + n = Len(s \o t)
                           /\ IsJoin(s \o t, s, t, m, n)
<1>1. PICK m \in Nat : m = Len(s)
  OBVIOUS
<1>2. PICK n \in Nat : n = Len(t)
  OBVIOUS
<1>3. PICK x : x = s \o t
  OBVIOUS
<1>4. DOMAIN s = 1 .. m /\ DOMAIN t = 1 .. n /\ DOMAIN x = 1 .. m + n /\ Len(x) = m + n
  BY <1>1, <1>2, <1>3
<1>5. \A i \in 1 .. m + n : x[i] = IF i <= m THEN s[i] ELSE t[i - m]
  BY <1>1, <1>2, <1>3
<1>6. \A i \in 1 .. m : i \in 1 .. m + n /\ x[i] = s[i]
  BY <1>5
<1>7. \A i \in 1 .. n : i + m \in 1 .. m + n /\ x[i + m] = t[i]
  <2>. SUFFICES ASSUME NEW i \in 1 .. n
                PROVE  i + m \in 1 .. m + n /\ x[i + m] = t[i]
    OBVIOUS
  <2>1. i + m \in 1 .. m + n /\ ~(i + m <= m) /\ (i + m) - m = i
    OBVIOUS
  <2>. QED
    BY <1>5, <2>1
<1>8. \A i \in 1 .. m + n : i \in 1 .. m \/ (i > m /\ i - m \in 1 .. n /\ x[i] = t[i - m])
  BY <1>5
<1>9. IsJoin(x, s, t, m, n)
  BY <1>4, <1>6, <1>7, <1>8 DEF IsJoin
<1>. QED
  BY <1>1, <1>2, <1>3, <1>4, <1>9

\* What is in one of two is in both together.
LEMMA JoinedRange ==
  ASSUME NEW S, NEW s \in Seq(S), NEW t \in Seq(S)
  PROVE  ToSet(s \o t) = ToSet(s) \cup ToSet(t)
<1>1. PICK x : x = s \o t
  OBVIOUS
<1>2. PICK m, n \in Nat : IsJoin(x, s, t, m, n)
  BY <1>1, JoinIs
<1>3. ToSet(x) \subseteq ToSet(s) \cup ToSet(t)
  BY <1>2 DEF ToSet, IsJoin
<1>4. ToSet(s) \subseteq ToSet(x)
  BY <1>2 DEF ToSet, IsJoin
<1>5. ASSUME NEW v \in ToSet(t)
      PROVE  v \in ToSet(x)
  <2>1. PICK i \in 1 .. n : v = t[i]
    BY <1>2 DEF ToSet, IsJoin
  <2>2. i + m \in DOMAIN x /\ x[i + m] = v
    BY <1>2, <2>1 DEF IsJoin
  <2>. QED
    BY <2>2 DEF ToSet
<1>. QED
  BY <1>1, <1>3, <1>4, <1>5

\* And nothing is in them twice if it is not in both.
LEMMA JoinedInjective ==
  ASSUME NEW S, NEW s \in Seq(S), NEW t \in Seq(S)
  PROVE  IsInjective(s \o t) <=>
           IsInjective(s) /\ IsInjective(t) /\ ToSet(s) \cap ToSet(t) = {}
<1>1. PICK x : x = s \o t
  OBVIOUS
<1>2. PICK m, n \in Nat : IsJoin(x, s, t, m, n)
  BY <1>1, JoinIs
<1>3. ASSUME IsInjective(x)
      PROVE  IsInjective(s) /\ IsInjective(t) /\ ToSet(s) \cap ToSet(t) = {}
  <2>1. IsInjective(s)
    BY <1>2, <1>3 DEF IsInjective, IsJoin
  <2>2. ASSUME NEW i \in 1 .. n, NEW j \in 1 .. n, t[i] = t[j]
        PROVE  i = j
    <3>1. i + m \in DOMAIN x /\ j + m \in DOMAIN x /\ x[i + m] = x[j + m]
      BY <1>2, <2>2 DEF IsJoin
    <3>2. i + m = j + m
      BY <1>3, <3>1 DEF IsInjective
    <3>. QED
      BY <3>2
  <2>3. ASSUME NEW i \in 1 .. m, NEW j \in 1 .. n, s[i] = t[j]
        PROVE  FALSE
    <3>1. i \in DOMAIN x /\ j + m \in DOMAIN x /\ x[i] = x[j + m]
      BY <1>2, <2>3 DEF IsJoin
    <3>2. i = j + m
      BY <1>3, <3>1 DEF IsInjective
    <3>. QED
      BY <3>2
  <2>4. ToSet(s) \cap ToSet(t) = {}
    BY <1>2, <2>3 DEF ToSet, IsJoin
  <2>5. IsInjective(t)
    BY <1>2, <2>2 DEF IsInjective, IsJoin
  <2>. QED
    BY <2>1, <2>4, <2>5
<1>4. ASSUME IsInjective(s), IsInjective(t), ToSet(s) \cap ToSet(t) = {}
      PROVE  IsInjective(x)
  <2>. SUFFICES ASSUME NEW i \in 1 .. m + n, NEW j \in 1 .. m + n, x[i] = x[j]
                PROVE  i = j
    BY <1>2 DEF IsInjective, IsJoin
  <2>1. CASE i \in 1 .. m /\ j \in 1 .. m
    BY <1>2, <1>4, <2>1 DEF IsInjective, IsJoin
  <2>2. CASE i \notin 1 .. m /\ j \notin 1 .. m
    <3>1. i - m \in 1 .. n /\ j - m \in 1 .. n /\ t[i - m] = t[j - m]
      BY <1>2, <2>2 DEF IsJoin
    <3>2. i - m = j - m
      BY <1>2, <1>4, <3>1 DEF IsInjective, IsJoin
    <3>. QED
      BY <3>2
  <2>3. CASE i \in 1 .. m /\ j \notin 1 .. m
    <3>1. x[i] \in ToSet(s) /\ x[j] \in ToSet(t)
      BY <1>2, <2>3 DEF ToSet, IsJoin
    <3>. QED
      BY <1>4, <3>1
  <2>4. CASE i \notin 1 .. m /\ j \in 1 .. m
    <3>1. x[j] \in ToSet(s) /\ x[i] \in ToSet(t)
      BY <1>2, <2>4 DEF ToSet, IsJoin
    <3>. QED
      BY <1>4, <3>1
  <2>. QED
    BY <2>1, <2>2, <2>3, <2>4
<1>. QED
  BY <1>1, <1>3, <1>4

\* If no two of them share a member, all are put together without repetition.
LEMMA FlattenInjective ==
  ASSUME NEW S, NEW seqs \in Seq(Seq(S)),
         \A i \in 1 .. Len(seqs) : IsInjective(seqs[i]),
         \A i, j \in 1 .. Len(seqs) : i # j => ToSet(seqs[i]) \cap ToSet(seqs[j]) = {}
  PROVE  IsInjective(FlattenSeq(seqs))
<1>1. PICK n \in Nat : n = Len(seqs)
  OBVIOUS
<1>2. PICK f : IsFlattened(f, seqs, S) /\ FlattenSeq(seqs) = f[n]
  BY <1>1, FlattenIs
<1>. DEFINE P == {k \in 0 .. n : /\ IsInjective(f[k])
                                 /\ ToSet(f[k]) \subseteq UNION {ToSet(seqs[i]) : i \in 1 .. k}}
<1>3. 0 \in P
  <2>1. f[0] = <<>> /\ DOMAIN <<>> = {}
    BY <1>2 DEF IsFlattened
  <2>. QED
    BY <2>1 DEF IsInjective, ToSet
<1>4. ASSUME NEW k \in 1 .. n, k - 1 \in P
      PROVE  k \in P
  <2>1. k - 1 \in 0 .. n /\ k \in 0 .. n /\ (1 .. k - 1) \cup {k} = 1 .. k /\ k \notin 1 .. k - 1
        /\ 1 .. k - 1 \subseteq 1 .. n
    OBVIOUS
  <2>2. f[k] = f[k - 1] \o seqs[k] /\ f[k - 1] \in Seq(S)
    BY <1>1, <1>2, <2>1 DEF IsFlattened
  <2>3. seqs[k] \in Seq(S)
    BY <1>1
  <2>4. ToSet(f[k]) = ToSet(f[k - 1]) \cup ToSet(seqs[k])
    BY <2>2, <2>3, JoinedRange
  <2>5. ToSet(f[k]) \subseteq UNION {ToSet(seqs[i]) : i \in 1 .. k}
    BY <1>4, <2>1, <2>4
  <2>6. ToSet(f[k - 1]) \cap ToSet(seqs[k]) = {}
    <3>1. \A i \in 1 .. k - 1 : ToSet(seqs[i]) \cap ToSet(seqs[k]) = {}
      BY <1>1, <2>1
    <3>2. ToSet(f[k - 1]) \subseteq UNION {ToSet(seqs[i]) : i \in 1 .. k - 1}
      BY <1>4
    <3>. QED
      BY <3>1, <3>2
  <2>7. IsInjective(f[k])
    BY <1>1, <1>4, <2>2, <2>3, <2>6, JoinedInjective
  <2>. QED
    BY <2>1, <2>5, <2>7
<1>5. 0 .. n \subseteq P
  <2>. HIDE DEF P
  <2>. QED
    BY <1>3, <1>4, UpTo
<1>. QED
  BY <1>2, <1>5

-----------------------------------------------------------------------------
(* What is kept of a sequence, or taken from it.                           *)

\* The members that are kept are those at the indexes given.
LEMMA KeepRange ==
  ASSUME NEW S, NEW s \in Seq(S), NEW indexes
  PROVE  ToSet(Keep(s, indexes)) = {s[i] : i \in indexes \cap 1 .. Len(s)}
<1>1. PICK n \in Nat : n = Len(s)
  OBVIOUS
<1>2. PICK kept : IsKept(kept, s, indexes, S) /\ Keep(s, indexes) = kept[n]
  BY <1>1, KeepIs
<1>. DEFINE P == {k \in 0 .. n : ToSet(kept[k]) = {s[i] : i \in indexes \cap 1 .. k}}
<1>3. 0 \in P
  <2>1. kept[0] = <<>> /\ DOMAIN <<>> = {} /\ 1 .. 0 = {}
    BY <1>2 DEF IsKept
  <2>. QED
    BY <2>1 DEF ToSet
<1>4. ASSUME NEW k \in 1 .. n, k - 1 \in P
      PROVE  k \in P
  <2>1. k - 1 \in 0 .. n /\ k \in 0 .. n /\ 1 .. k = (1 .. k - 1) \cup {k}
    OBVIOUS
  <2>2. /\ kept[k - 1] \in Seq(S) /\ s[k] \in S
        /\ kept[k] = IF k \in indexes THEN Append(kept[k - 1], s[k]) ELSE kept[k - 1]
    <3>1. kept[k - 1] \in Seq(S) /\ s[k] \in S
      BY <1>1, <1>2, <2>1 DEF IsKept
    <3>2. kept[k] = Taken(kept[k - 1], s, k, indexes)
      BY <1>1, <1>2 DEF IsKept
    <3>. QED
      BY <3>1, <3>2 DEF Taken
  <2>3. ASSUME NEW x \in Seq(S), NEW v \in S
        PROVE  ToSet(Append(x, v)) = ToSet(x) \cup {v}
    <3>1. PICK l \in Nat : l = Len(x)
      OBVIOUS
    <3>2. PICK y : y = Append(x, v)
      OBVIOUS
    <3>3. /\ DOMAIN x = 1 .. l /\ DOMAIN y = (1 .. l) \cup {l + 1}
          /\ (\A i \in 1 .. l : y[i] = x[i]) /\ y[l + 1] = v
      BY <3>1, <3>2
    <3>4. ToSet(y) = ToSet(x) \cup {v}
      BY <3>3 DEF ToSet
    <3>. QED
      BY <3>2, <3>4
  <2>4. CASE k \in indexes
    <3>1. ToSet(kept[k]) = ToSet(kept[k - 1]) \cup {s[k]}
      BY <2>2, <2>3, <2>4
    <3>. QED
      BY <1>4, <2>1, <2>4, <3>1
  <2>5. CASE k \notin indexes
    BY <1>4, <2>1, <2>2, <2>5
  <2>. QED
    BY <2>4, <2>5
<1>5. 0 .. n \subseteq P
  <2>. HIDE DEF P
  <2>. QED
    BY <1>3, <1>4, UpTo
<1>6. n \in P
  <2>. HIDE DEF P
  <2>. QED
    BY <1>5
<1>. QED
  BY <1>1, <1>2, <1>6

\* Nothing is kept twice.
LEMMA KeepInjective ==
  ASSUME NEW S, NEW s \in Seq(S), NEW indexes, IsInjective(s)
  PROVE  IsInjective(Keep(s, indexes))
<1>1. PICK n \in Nat : n = Len(s)
  OBVIOUS
<1>2. PICK kept : IsKept(kept, s, indexes, S) /\ Keep(s, indexes) = kept[n]
  BY <1>1, KeepIs
<1>. DEFINE P == {k \in 0 .. n : /\ IsInjective(kept[k])
                                 /\ ToSet(kept[k]) \subseteq {s[i] : i \in 1 .. k}}
<1>3. 0 \in P
  <2>1. kept[0] = <<>> /\ DOMAIN <<>> = {}
    BY <1>2 DEF IsKept
  <2>. QED
    BY <2>1 DEF ToSet, IsInjective
<1>4. ASSUME NEW k \in 1 .. n, k - 1 \in P
      PROVE  k \in P
  <2>1. k - 1 \in 0 .. n /\ k \in 0 .. n /\ 1 .. k = (1 .. k - 1) \cup {k} /\ k \notin 1 .. k - 1
    OBVIOUS
  <2>2. /\ kept[k - 1] \in Seq(S) /\ s[k] \in S
        /\ kept[k] = IF k \in indexes THEN Append(kept[k - 1], s[k]) ELSE kept[k - 1]
    <3>1. kept[k - 1] \in Seq(S) /\ s[k] \in S
      BY <1>1, <1>2, <2>1 DEF IsKept
    <3>2. kept[k] = Taken(kept[k - 1], s, k, indexes)
      BY <1>1, <1>2 DEF IsKept
    <3>. QED
      BY <3>1, <3>2 DEF Taken
  <2>3. s[k] \notin ToSet(kept[k - 1])
    <3>1. \A i \in 1 .. k - 1 : s[i] # s[k]
      BY <1>1, <2>1 DEF IsInjective
    <3>. QED
      BY <1>4, <3>1
  <2>4. PICK x \in Seq(S) : x = kept[k - 1] /\ IsInjective(x) /\ s[k] \notin ToSet(x)
    BY <1>4, <2>2, <2>3
  <2>5. PICK l \in Nat : l = Len(x)
    OBVIOUS
  <2>6. PICK y : y = Append(x, s[k])
    OBVIOUS
  <2>7. /\ DOMAIN x = 1 .. l /\ DOMAIN y = (1 .. l) \cup {l + 1}
        /\ (\A i \in 1 .. l : y[i] = x[i]) /\ y[l + 1] = s[k]
    BY <2>2, <2>5, <2>6
  <2>8. IsInjective(y) /\ ToSet(y) = ToSet(x) \cup {s[k]}
    <3>1. \A i \in 1 .. l : x[i] # s[k]
      BY <2>4, <2>7 DEF ToSet
    <3>2. \A i, j \in 1 .. l : x[i] = x[j] => i = j
      BY <2>4, <2>7 DEF IsInjective
    <3>3. IsInjective(y)
      BY <2>7, <3>1, <3>2 DEF IsInjective
    <3>4. ToSet(x) = {x[i] : i \in 1 .. l}
          /\ ToSet(y) = {y[i] : i \in (1 .. l) \cup {l + 1}}
      BY <2>7 DEF ToSet
    <3>5. ToSet(y) = {y[i] : i \in 1 .. l} \cup {y[l + 1]}
      BY <3>4
    <3>6. {y[i] : i \in 1 .. l} = {x[i] : i \in 1 .. l}
      BY <2>7
    <3>. QED
      BY <2>7, <3>3, <3>4, <3>5, <3>6
  <2>9. ToSet(x) \subseteq {s[i] : i \in 1 .. k - 1}
    BY <1>4, <2>4
  <2>10. kept[k] \in {x, y}
    BY <2>2, <2>4, <2>6
  <2>. QED
    BY <2>1, <2>4, <2>8, <2>9, <2>10
<1>5. 0 .. n \subseteq P
  <2>. HIDE DEF P
  <2>. QED
    BY <1>3, <1>4, UpTo
<1>. QED
  BY <1>1, <1>2, <1>5

\* A sequence that repeats nothing is no longer than another with all its members.
LEMMA NoLonger ==
  ASSUME NEW S, NEW s \in Seq(S), NEW t \in Seq(S), IsInjective(s), ToSet(s) \subseteq ToSet(t)
  PROVE  Len(s) <= Len(t)
<1>1. PICK m \in Nat : m = Len(s) /\ DOMAIN s = 1 .. m
  OBVIOUS
<1>2. PICK n \in Nat : n = Len(t) /\ DOMAIN t = 1 .. n
  OBVIOUS
<1>3. /\ IsFiniteSet(1 .. m) /\ Cardinality(1 .. m) = m
      /\ IsFiniteSet(1 .. n) /\ Cardinality(1 .. n) = n
  BY FS_Interval
<1>. DEFINE place == [i \in 1 .. m |-> CHOOSE j \in 1 .. n : t[j] = s[i]]
<1>4. \A i \in 1 .. m : place[i] \in 1 .. n /\ t[place[i]] = s[i]
  <2>1. \A i \in 1 .. m : \E j \in 1 .. n : t[j] = s[i]
    BY <1>1, <1>2 DEF ToSet
  <2>. QED
    BY <2>1
<1>5. place \in Injection(1 .. m, 1 .. n)
  <2>1. place \in [1 .. m -> 1 .. n]
    BY <1>4
  <2>2. ASSUME NEW i \in 1 .. m, NEW j \in 1 .. m, place[i] = place[j]
        PROVE  i = j
    <3>1. s[i] = s[j]
      BY <1>4, <2>2
    <3>. QED
      BY <1>1, <3>1 DEF IsInjective
  <2>. HIDE DEF place
  <2>. QED
    BY <2>1, <2>2 DEF Injection, IsInjective
<1>6. Cardinality(1 .. m) <= Cardinality(1 .. n)
  <2>. HIDE DEF place
  <2>. QED
    BY <1>3, <1>5, FS_Injection
<1>. QED
  BY <1>1, <1>2, <1>3, <1>6

\* Where the members of a sequence are when one is taken away.
LEMMA RemovedIs ==
  ASSUME NEW S, NEW s \in Seq(S), NEW i \in 1 .. Len(s)
  PROVE  /\ Len(RemoveAt(s, i)) = Len(s) - 1
         /\ \A j \in 1 .. Len(s) - 1 : RemoveAt(s, i)[j] = s[IF j < i THEN j ELSE j + 1]
<1>1. PICK n \in Nat : n = Len(s)
  OBVIOUS
<1>2. PICK l : l = SubSeq(s, 1, i - 1)
  OBVIOUS
<1>3. PICK r : r = SubSeq(s, i + 1, n)
  OBVIOUS
<1>4. l \in Seq(S) /\ Len(l) = i - 1 /\ \A j \in 1 .. i - 1 : l[j] = s[j]
  BY <1>1, <1>2, SubSeqProperties, PartTyped
<1>5. r \in Seq(S) /\ Len(r) = n - i /\ \A j \in 1 .. n - i : r[j] = s[i + j]
  BY <1>1, <1>3, SubSeqProperties, PartTyped
<1>6. PICK x : x = l \o r
  OBVIOUS
<1>7. PICK a, b \in Nat : a = Len(l) /\ b = Len(r) /\ a + b = Len(x) /\ IsJoin(x, l, r, a, b)
  BY <1>4, <1>5, <1>6, JoinIs
<1>8. a = i - 1 /\ b = n - i /\ Len(x) = n - 1
  BY <1>1, <1>4, <1>5, <1>7
<1>9. ASSUME NEW j \in 1 .. n - 1
      PROVE  x[j] = s[IF j < i THEN j ELSE j + 1]
  <2>1. j \in 1 .. a + b
    BY <1>8
  <2>2. CASE j \in 1 .. a
    BY <1>4, <1>7, <1>8, <2>2 DEF IsJoin
  <2>3. CASE j \notin 1 .. a
    <3>1. j - a \in 1 .. b /\ x[j] = r[j - a]
      BY <1>7, <2>1, <2>3 DEF IsJoin
    <3>2. r[j - a] = s[i + (j - a)] /\ i + (j - a) = j + 1 /\ ~(j < i)
      BY <1>1, <1>5, <1>8, <2>3, <3>1
    <3>. QED
      BY <3>1, <3>2
  <2>. QED
    BY <2>2, <2>3
<1>. QED
  BY <1>1, <1>2, <1>3, <1>6, <1>8, <1>9 DEF RemoveAt

-----------------------------------------------------------------------------
(* Groups.                                                                 *)

Alike(s) == \A i, j \in DOMAIN s : SameGroup(s[i], s[j])
Unlike(s, t) == \A x \in ToSet(s), y \in ToSet(t) : ~SameGroup(x, y)
Together(s) ==
  \A i, j, k \in DOMAIN s :
    i < j /\ j < k /\ SameGroup(s[i], s[k]) => SameGroup(s[i], s[j])

\* Being of one group is an equivalence.
LEMMA SameGroupIs ==
  /\ \A x : SameGroup(x, x)
  /\ \A x, y : SameGroup(x, y) => SameGroup(y, x)
  /\ \A x, y, z : SameGroup(x, y) /\ SameGroup(y, z) => SameGroup(x, z)
BY DEF SameGroup

\* A part before which nothing is of the group of what follows.
LEMMA JoinedTogether ==
  ASSUME NEW S, NEW s \in Seq(S), NEW t \in Seq(S)
  PROVE  /\ Together(s) /\ Alike(t) /\ Unlike(t, s) => Together(s \o t)
         /\ Together(s \o t) => Together(s)
<1>1. PICK x : x = s \o t
  OBVIOUS
<1>2. PICK m, n \in Nat : IsJoin(x, s, t, m, n)
  BY <1>1, JoinIs
<1>3. ASSUME Together(x)
      PROVE  Together(s)
  BY <1>2, <1>3 DEF Together, IsJoin
<1>4. ASSUME Together(s), Alike(t), Unlike(t, s)
      PROVE  Together(x)
  <2>. SUFFICES ASSUME NEW i \in 1 .. m + n, NEW j \in 1 .. m + n, NEW k \in 1 .. m + n,
                       i < j, j < k, SameGroup(x[i], x[k])
                PROVE  SameGroup(x[i], x[j])
    BY <1>2 DEF Together, IsJoin
  <2>1. CASE k \in 1 .. m
    <3>1. i \in 1 .. m /\ j \in 1 .. m
      BY <2>1
    <3>2. SameGroup(s[i], s[k]) /\ x[i] = s[i] /\ x[j] = s[j]
      BY <1>2, <2>1, <3>1 DEF IsJoin
    <3>. QED
      BY <1>2, <1>4, <2>1, <3>1, <3>2 DEF Together, IsJoin
  <2>2. CASE i \notin 1 .. m
    <3>1. j \notin 1 .. m
      BY <2>2
    <3>2. /\ i - m \in DOMAIN t /\ x[i] = t[i - m]
          /\ j - m \in DOMAIN t /\ x[j] = t[j - m]
      BY <1>2, <2>2, <3>1 DEF IsJoin
    <3>. QED
      BY <1>4, <3>2 DEF Alike
  <2>3. CASE i \in 1 .. m /\ k \notin 1 .. m
    <3>1. x[i] \in ToSet(s) /\ x[k] \in ToSet(t)
      BY <1>2, <2>3 DEF IsJoin, ToSet
    <3>. QED
      BY <1>4, <3>1, SameGroupIs DEF Unlike
  <2>. QED
    BY <2>1, <2>2, <2>3
<1>. QED
  BY <1>1, <1>3, <1>4

\* The groups: each point is in one, with those that are like it.
LEMMA GroupsAre ==
  ASSUME NEW S, NEW points \in Seq(S), IsInjective(points)
  PROVE  LET groups == BuildGroupsList(points)
         IN  /\ groups \in Seq(Seq(S))
             /\ \A i \in DOMAIN groups : IsInjective(groups[i]) /\ Alike(groups[i])
             /\ \A i, j \in DOMAIN groups : i # j => Unlike(groups[i], groups[j])
             /\ UNION {ToSet(groups[i]) : i \in DOMAIN groups} = ToSet(points)
<1>. DEFINE places == [i \in DOMAIN points |-> i]
            first == {i \in DOMAIN points :
                        \A j \in 1 .. i - 1 : ~SameGroup(points[i], points[j])}
            firsts == Keep(places, first)
            Like(i) == {j \in DOMAIN points : SameGroup(points[j], points[i])}
            groups == [k \in DOMAIN firsts |-> Keep(points, Like(firsts[k]))]
<1>1. BuildGroupsList(points) = groups
  BY DEF BuildGroupsList
<1>2. PICK n \in Nat : n = Len(points) /\ DOMAIN points = 1 .. n
  OBVIOUS
<1>3. places \in Seq(1 .. n) /\ Len(places) = n /\ DOMAIN places = 1 .. n
      /\ \A i \in 1 .. n : places[i] = i
  <2>1. places \in [1 .. n -> 1 .. n]
    BY <1>2
  <2>. QED
    BY <1>2, <2>1
<1>4. IsInjective(places)
  BY <1>3 DEF IsInjective
<1>5. firsts \in Seq(1 .. n)
  <2>. HIDE DEF places, first
  <2>. QED
    BY <1>3, KeepTyped
<1>6. IsInjective(firsts)
  <2>. HIDE DEF places, first
  <2>. QED
    BY <1>3, <1>4, KeepInjective
<1>7. ToSet(firsts) = first
  <2>1. ToSet(firsts) = {places[i] : i \in first \cap 1 .. n}
    <3>. HIDE DEF places, first
    <3>. QED
      BY <1>3, KeepRange
  <2>. QED
    BY <1>2, <1>3, <2>1
<1>8. PICK m \in Nat : m = Len(firsts) /\ DOMAIN firsts = 1 .. m
                       /\ \A k \in 1 .. m : firsts[k] \in 1 .. n
  <2>. HIDE DEF firsts
  <2>. QED
    BY <1>5
<1>9. \A k \in 1 .. m : firsts[k] \in first
  <2>. HIDE DEF firsts, first
  <2>. QED
    BY <1>7, <1>8 DEF ToSet
<1>10. \A k, l \in 1 .. m : SameGroup(points[firsts[k]], points[firsts[l]]) => k = l
  <2>. SUFFICES ASSUME NEW k \in 1 .. m, NEW l \in 1 .. m,
                       SameGroup(points[firsts[k]], points[firsts[l]])
                PROVE  k = l
    OBVIOUS
  <2>1. PICK a \in 1 .. n : a = firsts[k]
    BY <1>8
  <2>2. PICK b \in 1 .. n : b = firsts[l]
    BY <1>8
  <2>3. a \in first /\ b \in first
    BY <1>9, <2>1, <2>2
  <2>4. SameGroup(points[a], points[b]) /\ SameGroup(points[b], points[a])
    BY <2>1, <2>2, SameGroupIs
  <2>5. a = b
    BY <2>3, <2>4
  <2>. HIDE DEF firsts
  <2>. QED
    BY <1>6, <1>8, <2>1, <2>2, <2>5 DEF IsInjective
<1>11. \A i \in 1 .. n : \E k \in 1 .. m : SameGroup(points[i], points[firsts[k]])
  <2>. DEFINE P == {i \in 0 .. n : \A j \in 1 .. i : \E k \in 1 .. m :
                      SameGroup(points[j], points[firsts[k]])}
  <2>1. 0 \in P
    OBVIOUS
  <2>2. ASSUME NEW i \in 1 .. n, i - 1 \in P
        PROVE  i \in P
    <3>1. i \in 0 .. n /\ 1 .. i = (1 .. i - 1) \cup {i}
      OBVIOUS
    <3>2. \E k \in 1 .. m : SameGroup(points[i], points[firsts[k]])
      <4>1. CASE i \in first
        <5>1. PICK k \in 1 .. m : firsts[k] = i
          <6>. HIDE DEF firsts, first
          <6>. QED
            BY <1>7, <1>8, <4>1 DEF ToSet
        <5>. QED
          BY <5>1, SameGroupIs
      <4>2. CASE i \notin first
        <5>1. PICK j \in 1 .. i - 1 : SameGroup(points[i], points[j])
          BY <1>2, <4>2
        <5>2. PICK k \in 1 .. m : SameGroup(points[j], points[firsts[k]])
          BY <2>2, <5>1
        <5>. HIDE DEF firsts
        <5>. QED
          BY <5>1, <5>2, SameGroupIs
      <4>. QED
        BY <4>1, <4>2
    <3>. HIDE DEF firsts
    <3>. QED
      BY <2>2, <3>1, <3>2
  <2>3. 0 .. n \subseteq P
    <3>. HIDE DEF P
    <3>. QED
      BY <2>1, <2>2, UpTo
  <2>4. n \in P
    <3>. HIDE DEF P
    <3>. QED
      BY <2>3
  <2>. HIDE DEF firsts
  <2>. QED
    BY <2>4
<1>. HIDE DEF firsts
<1>12. \A k \in 1 .. m :
         /\ groups[k] \in Seq(S)
         /\ IsInjective(groups[k])
         /\ ToSet(groups[k]) = {points[i] : i \in Like(firsts[k])}
  <2>. SUFFICES ASSUME NEW k \in 1 .. m
                PROVE  /\ groups[k] \in Seq(S)
                       /\ IsInjective(groups[k])
                       /\ ToSet(groups[k]) = {points[i] : i \in Like(firsts[k])}
    OBVIOUS
  <2>1. groups[k] = Keep(points, Like(firsts[k]))
    BY <1>8
  <2>2. Like(firsts[k]) \cap 1 .. n = Like(firsts[k])
    BY <1>2
  <2>3. \A i \in 1 .. n : points[i] \in S
    BY <1>2
  <2>. HIDE DEF Like, groups
  <2>4. Keep(points, Like(firsts[k])) \in Seq(S)
    BY <1>2, <2>3, KeepTyped
  <2>5. IsInjective(Keep(points, Like(firsts[k])))
    BY KeepInjective
  <2>6. ToSet(Keep(points, Like(firsts[k]))) = {points[i] : i \in Like(firsts[k])}
    BY <1>2, <2>2, KeepRange
  <2>. QED
    BY <2>1, <2>4, <2>5, <2>6
<1>13. DOMAIN groups = 1 .. m
  BY <1>8
<1>14. groups \in Seq(Seq(S))
  <2>1. groups = [k \in 1 .. m |-> groups[k]]
    BY <1>8
  <2>2. groups \in [1 .. m -> Seq(S)]
    <3>. HIDE DEF groups
    <3>. QED
      BY <1>12, <2>1
  <2>. HIDE DEF groups
  <2>. QED
    BY <2>2
<1>15. \A k \in 1 .. m : \A x \in ToSet(groups[k]) : SameGroup(x, points[firsts[k]])
  <2>. HIDE DEF groups
  <2>. QED
    BY <1>12
<1>. HIDE DEF groups
<1>16. \A k \in 1 .. m : Alike(groups[k])
  BY <1>15, SameGroupIs DEF Alike, ToSet
<1>17. \A k, l \in 1 .. m : k # l => Unlike(groups[k], groups[l])
  <2>. SUFFICES ASSUME NEW k \in 1 .. m, NEW l \in 1 .. m, k # l,
                       NEW x \in ToSet(groups[k]), NEW y \in ToSet(groups[l]), SameGroup(x, y)
                PROVE  FALSE
    BY DEF Unlike
  <2>1. SameGroup(x, points[firsts[k]]) /\ SameGroup(y, points[firsts[l]])
    BY <1>15
  <2>2. SameGroup(points[firsts[k]], points[firsts[l]])
    BY <2>1, SameGroupIs
  <2>. QED
    BY <1>10, <2>2
<1>18. UNION {ToSet(groups[k]) : k \in 1 .. m} = ToSet(points)
  <2>1. ASSUME NEW k \in 1 .. m, NEW x \in ToSet(groups[k])
        PROVE  x \in ToSet(points)
    <3>1. PICK i \in Like(firsts[k]) : x = points[i]
      <4>. HIDE DEF Like
      <4>. QED
        BY <1>12
    <3>. QED
      BY <3>1 DEF ToSet
  <2>2. ASSUME NEW i \in 1 .. n
        PROVE  \E k \in 1 .. m : points[i] \in ToSet(groups[k])
    <3>1. PICK k \in 1 .. m : SameGroup(points[i], points[firsts[k]])
      BY <1>11
    <3>2. i \in Like(firsts[k])
      BY <1>2, <3>1
    <3>. HIDE DEF Like
    <3>. QED
      BY <1>12, <3>2
  <2>3. ToSet(points) = {points[i] : i \in 1 .. n}
    BY <1>2 DEF ToSet
  <2>4. UNION {ToSet(groups[k]) : k \in 1 .. m} \subseteq ToSet(points)
    BY <2>1
  <2>5. ToSet(points) \subseteq UNION {ToSet(groups[k]) : k \in 1 .. m}
    BY <2>2, <2>3
  <2>. QED
    BY <2>4, <2>5
<1>. QED
  BY <1>1, <1>12, <1>13, <1>14, <1>16, <1>17, <1>18

-----------------------------------------------------------------------------
(* A grid visits no point twice.                                           *)

\* A dimension whose values are given once takes each of them once.
LEMMA ValuesInjective ==
  ASSUME NEW d \in Domains, IsValidDomain(d), HasValues(d), IsInjective(d.values)
  PROVE  IsInjective(DomainValues(d))
<1>1. CASE d.type = "binary"
  <2>1. DomainValues(d) = <<0, 1>>
    BY <1>1 DEF DomainValues
  <2>2. IsInjective(<<0, 1>>)
    BY DEF IsInjective
  <2>. QED
    BY <2>1, <2>2
<1>2. CASE d.type # "binary" /\ d.values # None
  BY <1>2 DEF DomainValues
<1>3. CASE d.type # "binary" /\ d.values = None
  <2>1. d.interval # 0 /\ d.range # None /\ DomainValues(d) = InternalRangeValues(d)
    BY <1>3 DEF DomainValues, HasValues, IsValidDomain
  <2>2. PICK lower \in Int, upper \in Int : d.range = <<lower, upper>>
    BY <2>1 DEF Domains
  <2>3. PICK step \in Nat \ {0} : step = d.interval
    BY <2>1 DEF Domains
  <2>4. PICK num : DomainValues(d) = [k \in 1 .. num |-> lower + (k - 1) * step]
    BY <2>1, <2>2, <2>3 DEF InternalRangeValues
  <2>5. ASSUME NEW k \in 1 .. num, NEW l \in 1 .. num,
               lower + (k - 1) * step = lower + (l - 1) * step
        PROVE  k = l
    <3>1. k \in Int /\ l \in Int
      OBVIOUS
    <3>2. PICK a \in Int, b \in Int : a = k - 1 /\ b = l - 1
      BY <3>1
    <3>3. a * step \in Int /\ b * step \in Int
      OBVIOUS
    <3>4. a * step = b * step
      BY <2>5, <3>2, <3>3
    <3>5. a = b
      BY <3>4
    <3>. QED
      BY <3>1, <3>2, <3>5
  <2>. QED
    BY <2>4, <2>5 DEF IsInjective
<1>. QED
  BY <1>1, <1>2, <1>3

\* Different points, or different values of a new name, make different points.
LEMMA WithValuesInjective ==
  ASSUME NEW M, NEW name, name \notin M, NEW points \in Seq([M -> Int]),
         NEW values \in Seq(Int), IsInjective(points), IsInjective(values)
  PROVE  IsInjective(WithValues(points, name, values))
<1>. DEFINE X == [M -> Int]
            Y == [M \cup {name} -> Int]
            Row(i) == [j \in DOMAIN values |-> WithValue(points[i], name, values[j])]
            rows == [i \in DOMAIN points |-> Row(i)]
<1>1. PICK m \in Nat : m = Len(points) /\ DOMAIN points = 1 .. m
  OBVIOUS
<1>2. PICK n \in Nat : n = Len(values) /\ DOMAIN values = 1 .. n
  OBVIOUS
<1>3. (\A i \in 1 .. m : points[i] \in X) /\ \A j \in 1 .. n : values[j] \in Int
  BY <1>1, <1>2
<1>4. ASSUME NEW p \in X, NEW q \in X, NEW v \in Int, NEW w \in Int
      PROVE  /\ WithValue(p, name, v) \in Y
             /\ WithValue(p, name, v) = WithValue(q, name, w) => p = q /\ v = w
  <2>1. WithValue(p, name, v) = [k \in M \cup {name} |-> IF k = name THEN v ELSE p[k]]
    BY DEF WithValue
  <2>2. WithValue(q, name, w) = [k \in M \cup {name} |-> IF k = name THEN w ELSE q[k]]
    BY DEF WithValue
  <2>3. WithValue(p, name, v) \in Y
    BY <2>1
  <2>4. ASSUME WithValue(p, name, v) = WithValue(q, name, w)
        PROVE  p = q /\ v = w
    <3>1. WithValue(p, name, v)[name] = v /\ WithValue(q, name, w)[name] = w
      BY <2>1, <2>2
    <3>2. \A k \in M : WithValue(p, name, v)[k] = p[k] /\ WithValue(q, name, w)[k] = q[k]
      BY <2>1, <2>2
    <3>3. \A k \in M : p[k] = q[k]
      BY <2>4, <3>2
    <3>. QED
      BY <2>4, <3>1, <3>3
  <2>. QED
    BY <2>3, <2>4
<1>5. \A i \in 1 .. m : \A j \in 1 .. n : rows[i][j] = WithValue(points[i], name, values[j])
  BY <1>1, <1>2
<1>6. \A i \in 1 .. m : DOMAIN rows[i] = 1 .. n
  BY <1>1, <1>2
<1>7. ASSUME NEW i \in 1 .. m
      PROVE  rows[i] \in Seq(Y)
  <2>1. rows[i] = [j \in 1 .. n |-> WithValue(points[i], name, values[j])]
    BY <1>1, <1>2
  <2>2. rows[i] \in [1 .. n -> Y]
    <3>. HIDE DEF X, Y, rows
    <3>. QED
      BY <1>3, <1>4, <2>1
  <2>. HIDE DEF Y, rows
  <2>3. PICK r \in [1 .. n -> Y] : r = rows[i]
    BY <2>2
  <2>4. r \in Seq(Y)
    OBVIOUS
  <2>. QED
    BY <2>3, <2>4
<1>8. rows \in Seq(Seq(Y)) /\ Len(rows) = m
  <2>1. rows = [i \in 1 .. m |-> rows[i]]
    BY <1>1
  <2>2. rows \in [1 .. m -> Seq(Y)]
    <3>. HIDE DEF rows, Y
    <3>. QED
      BY <1>7, <2>1
  <2>. HIDE DEF rows, Y
  <2>. QED
    BY <2>2
<1>. HIDE DEF rows, X, Y
<1>9. ASSUME NEW i \in 1 .. m, NEW k \in 1 .. m, NEW j \in 1 .. n, NEW l \in 1 .. n,
             rows[i][j] = rows[k][l]
      PROVE  i = k /\ j = l
  <2>1. points[i] = points[k] /\ values[j] = values[l]
    BY <1>3, <1>4, <1>5, <1>9
  <2>. QED
    BY <1>1, <1>2, <2>1 DEF IsInjective
<1>10. \A i \in 1 .. m : IsInjective(rows[i])
  BY <1>6, <1>9 DEF IsInjective
<1>11. ASSUME NEW i \in 1 .. m, NEW k \in 1 .. m, i # k
       PROVE  ToSet(rows[i]) \cap ToSet(rows[k]) = {}
  <2>. SUFFICES ASSUME NEW x \in ToSet(rows[i]), x \in ToSet(rows[k])
                PROVE  FALSE
    OBVIOUS
  <2>1. PICK j \in 1 .. n : x = rows[i][j]
    BY <1>6 DEF ToSet
  <2>2. PICK l \in 1 .. n : x = rows[k][l]
    BY <1>6 DEF ToSet
  <2>. QED
    BY <1>9, <1>11, <2>1, <2>2
<1>12. IsInjective(FlattenSeq(rows))
  BY <1>8, <1>10, <1>11, FlattenInjective
<1>. QED
  BY <1>12 DEF WithValues, rows

\* The values of a domain are those that were given.
LEMMA ValuesOnce ==
  ASSUME NEW spaces, WithoutRepetition(spaces), space \in spaces, SpaceTyped
  PROVE  \A n \in Names : IsInjective(DomainOf(n).values)
<1>. SUFFICES ASSUME NEW name \in Names
              PROVE  IsInjective(DomainOf(name).values)
  OBVIOUS
<1>1. PICK i \in DOMAIN space : i = CHOOSE j \in DOMAIN space : space[j].name = name
  BY DEF Names
<1>2. DomainOf(name) = EntitySpaceDomain(space[i].domain)
  BY <1>1 DEF DomainOf
<1>3. PICK given \in Domains : given = space[i].domain
  BY SpaceFields
<1>4. DomainOf(name).values = given.values
  BY <1>2, <1>3, NormalisedTyped DEF EntitySpaceDomain, Normalised, Domains
<1>. QED
  BY <1>3, <1>4 DEF WithoutRepetition

\* The points of a grid are all different.
LEMMA PointsInjective ==
  ASSUME SpaceTyped, \A n \in Names : HasValues(DomainOf(n)),
         \A n \in Names : IsInjective(DomainOf(n).values),
         NEW dims, IsOrder(dims)
  PROVE  IsInjective(PointsOf(dims))
<1>1. PICK f : IsGrid(f, dims) /\ PointsOf(dims) = f[Len(dims)]
  BY GridIs DEF IsOrder
<1>2. PICK n \in Nat : n = Len(dims) /\ \A k \in 1 .. n : dims[k].name \in Names
  BY DimensionFields DEF IsOrder
<1>. DEFINE P == {k \in 0 .. n : IsInjective(f[k])}
<1>3. 0 \in P
  <2>1. IsInjective(<<<<>>>>)
    BY DEF IsInjective
  <2>. QED
    BY <1>1, <2>1 DEF IsGrid
<1>4. ASSUME NEW k \in 1 .. n, k - 1 \in P
      PROVE  k \in P
  <2>1. k - 1 \in 0 .. n /\ k \in 0 .. n
    OBVIOUS
  <2>2. PICK name \in Names : name = dims[k].name
    BY <1>2
  <2>3. name \notin FirstNames(dims, k - 1)
    <3>1. \A i \in 1 .. k - 1 : i \in 1 .. n /\ i # k
      BY <1>2
    <3>. QED
      BY <1>2, <2>2, <3>1 DEF FirstNames, IsOrder
  <2>4. PICK d \in Domains : d = DomainOf(name) /\ IsValidDomain(d) /\ HasValues(d)
    BY DomainOfTyped
  <2>5. IsInjective(d.values)
    BY <2>4
  <2>6. PICK values \in Seq(Int) : values = DomainValues(d) /\ IsInjective(values)
    BY <2>4, <2>5, ValuesInjective, ValuesTyped
  <2>7. f[k - 1] \in Seq([FirstNames(dims, k - 1) -> Int])
    <3>1. PICK A : A = FirstPoints(dims, k - 1)
      OBVIOUS
    <3>2. PICK B : B = [FirstNames(dims, k - 1) -> Int]
      OBVIOUS
    <3>3. A \subseteq B
      BY <3>1, <3>2 DEF FirstPoints
    <3>4. f[k - 1] \in Seq(A)
      BY <1>1, <1>2, <2>1, <3>1 DEF IsGrid
    <3>5. f[k - 1] \in Seq(B)
      <4>1. PICK x \in Seq(A) : x = f[k - 1]
        BY <3>4
      <4>2. Len(x) \in Nat /\ x \in [1 .. Len(x) -> B]
        BY <3>3
      <4>3. x \in Seq(B)
        BY <4>2
      <4>. QED
        BY <4>1, <4>3
    <3>. QED
      BY <3>2, <3>5
  <2>8. IsInjective(WithValues(f[k - 1], name, values))
    BY <1>4, <2>3, <2>6, <2>7, WithValuesInjective
  <2>9. f[k] = WithValues(f[k - 1], name, values)
    BY <1>1, <1>2, <2>2, <2>4, <2>6 DEF IsGrid
  <2>. QED
    BY <2>1, <2>8, <2>9
<1>5. 0 .. n \subseteq P
  <2>. HIDE DEF P
  <2>. QED
    BY <1>3, <1>4, UpTo
<1>6. n \in P
  <2>. HIDE DEF P
  <2>. QED
    BY <1>5
<1>. QED
  BY <1>1, <1>2, <1>6

-----------------------------------------------------------------------------
(* Drawing from groups, slices and selections.                             *)

\* A sequence over a part is one over the whole.
LEMMA SeqWider ==
  ASSUME NEW S, NEW T, S \subseteq T, NEW x \in Seq(S)
  PROVE  x \in Seq(T)
<1>1. Len(x) \in Nat /\ x \in [1 .. Len(x) -> T]
  OBVIOUS
<1>. QED
  BY <1>1

\* One more that is not yet there.
LEMMA AppendedInjective ==
  ASSUME NEW S, NEW s \in Seq(S), NEW v \in S, IsInjective(s), v \notin ToSet(s)
  PROVE  IsInjective(Append(s, v))
<1>1. PICK n \in Nat : n = Len(s)
  OBVIOUS
<1>2. PICK x : x = Append(s, v)
  OBVIOUS
<1>3. /\ DOMAIN s = 1 .. n /\ DOMAIN x = (1 .. n) \cup {n + 1}
      /\ (\A i \in 1 .. n : x[i] = s[i]) /\ x[n + 1] = v
  BY <1>1, <1>2
<1>. QED
  BY <1>2, <1>3 DEF IsInjective, ToSet

\* Nothing is drawn twice, and what is due has been drawn or is in one group that is left.
Covers(drawn, groups, due) ==
  /\ IsInjective(drawn)
  /\ \A i \in DOMAIN groups : IsInjective(groups[i]) /\ ToSet(groups[i]) \cap ToSet(drawn) = {}
  /\ \A i, j \in DOMAIN groups : i # j => ToSet(groups[i]) \cap ToSet(groups[j]) = {}
  /\ ToSet(drawn) \cup UNION {ToSet(groups[i]) : i \in DOMAIN groups} = due

\* What is left is in groups none of which was begun.
Separate(drawn, groups) ==
  /\ Together(drawn)
  /\ \A i \in DOMAIN groups : Alike(groups[i]) /\ Unlike(groups[i], drawn)
  /\ \A i, j \in DOMAIN groups : i # j => Unlike(groups[i], groups[j])

\* Drawing one of the groups that are left.
LEMMA GroupDrawn ==
  ASSUME NEW S, NEW drawn \in Seq(S), NEW groups \in Seq(Seq(S)), NEW k \in 1 .. Len(groups),
         NEW due, Covers(drawn, groups, due)
  PROVE  /\ Covers(drawn \o groups[k], RemoveAt(groups, k), due)
         /\ Separate(drawn, groups) => Separate(drawn \o groups[k], RemoveAt(groups, k))
<1>. DEFINE X == Seq(S)
<1>1. PICK n \in Nat : /\ n = Len(groups) /\ DOMAIN groups = 1 .. n
                       /\ \A i \in 1 .. n : groups[i] \in X
  OBVIOUS
<1>2. PICK rest : rest = RemoveAt(groups, k)
  OBVIOUS
<1>3. rest \in Seq(X) /\ Len(rest) = n - 1
      /\ \A i \in 1 .. n - 1 : rest[i] = groups[IF i < k THEN i ELSE i + 1]
  <2>1. groups \in Seq(X)
    OBVIOUS
  <2>. HIDE DEF X
  <2>. QED
    BY <1>1, <1>2, <2>1, RemovedIs, RemovedTyped
<1>4. DOMAIN rest = 1 .. n - 1
  <2>. HIDE DEF X
  <2>. QED
    BY <1>1, <1>3
<1>. HIDE DEF X
<1>. DEFINE At(i) == IF i < k THEN i ELSE i + 1
<1>5. \A i \in 1 .. n - 1 : At(i) \in 1 .. n /\ At(i) # k /\ rest[i] = groups[At(i)]
  BY <1>1, <1>3
<1>6. \A i, j \in 1 .. n - 1 : i # j => At(i) # At(j)
  BY <1>1
<1>7. \A l \in 1 .. n : l # k => \E i \in 1 .. n - 1 : At(i) = l
  <2>. SUFFICES ASSUME NEW l \in 1 .. n, l # k
                PROVE  \E i \in 1 .. n - 1 : At(i) = l
    OBVIOUS
  <2>1. CASE l < k
    <3>1. l \in 1 .. n - 1 /\ At(l) = l
      BY <1>1, <2>1
    <3>. QED
      BY <3>1
  <2>2. CASE l > k
    <3>1. l - 1 \in 1 .. n - 1 /\ At(l - 1) = l
      BY <1>1, <2>2
    <3>. QED
      BY <3>1
  <2>. QED
    BY <1>1, <2>1, <2>2
<1>. HIDE DEF At
<1>8. PICK more \in Seq(S) : more = groups[k]
  BY <1>1 DEF X
<1>9. ToSet(drawn \o more) = ToSet(drawn) \cup ToSet(more)
  BY JoinedRange
<1>10. Covers(drawn \o more, rest, due)
  <2>1. IsInjective(drawn \o more)
    BY <1>1, <1>8, JoinedInjective DEF Covers
  <2>2. ASSUME NEW i \in 1 .. n - 1
        PROVE  IsInjective(rest[i]) /\ ToSet(rest[i]) \cap ToSet(drawn \o more) = {}
    BY <1>1, <1>5, <1>8, <1>9 DEF Covers
  <2>3. \A i, j \in 1 .. n - 1 : i # j => ToSet(rest[i]) \cap ToSet(rest[j]) = {}
    BY <1>1, <1>5, <1>6 DEF Covers
  <2>4. ToSet(drawn \o more) \cup UNION {ToSet(rest[i]) : i \in 1 .. n - 1} = due
    <3>1. UNION {ToSet(groups[i]) : i \in 1 .. n} =
            ToSet(more) \cup UNION {ToSet(rest[i]) : i \in 1 .. n - 1}
      <4>1. ASSUME NEW i \in 1 .. n, NEW x \in ToSet(groups[i])
            PROVE  x \in ToSet(more) \/ \E j \in 1 .. n - 1 : x \in ToSet(rest[j])
        BY <1>5, <1>7, <1>8
      <4>2. ASSUME NEW i \in 1 .. n - 1, NEW x \in ToSet(rest[i])
            PROVE  \E j \in 1 .. n : x \in ToSet(groups[j])
        BY <1>5
      <4>3. k \in 1 .. n
        BY <1>1
      <4>4. UNION {ToSet(groups[i]) : i \in 1 .. n} \subseteq
              ToSet(more) \cup UNION {ToSet(rest[i]) : i \in 1 .. n - 1}
        BY <4>1
      <4>5. UNION {ToSet(rest[i]) : i \in 1 .. n - 1} \subseteq
              UNION {ToSet(groups[i]) : i \in 1 .. n}
        BY <4>2
      <4>6. ToSet(more) \subseteq UNION {ToSet(groups[i]) : i \in 1 .. n}
        BY <1>8, <4>3
      <4>. QED
        BY <4>4, <4>5, <4>6
    <3>2. ToSet(drawn) \cup UNION {ToSet(groups[i]) : i \in 1 .. n} = due
      BY <1>1 DEF Covers
    <3>. QED
      BY <1>9, <3>1, <3>2
  <2>. QED
    BY <1>4, <2>1, <2>2, <2>3, <2>4 DEF Covers
<1>11. ASSUME Separate(drawn, groups)
       PROVE  Separate(drawn \o more, rest)
  <2>1. Together(drawn \o more)
    BY <1>1, <1>8, <1>11, JoinedTogether DEF Separate
  <2>2. ASSUME NEW i \in 1 .. n - 1
        PROVE  Alike(rest[i]) /\ Unlike(rest[i], drawn \o more)
    <3>1. PICK l \in 1 .. n : l # k /\ rest[i] = groups[l]
      BY <1>5
    <3>2. k \in 1 .. n
      BY <1>1
    <3>3. Unlike(groups[l], drawn) /\ Unlike(groups[l], more) /\ Alike(groups[l])
      BY <1>1, <1>8, <1>11, <3>1, <3>2 DEF Separate
    <3>. QED
      BY <1>9, <3>1, <3>3 DEF Unlike
  <2>3. \A i, j \in 1 .. n - 1 : i # j => Unlike(rest[i], rest[j])
    BY <1>1, <1>5, <1>6, <1>11 DEF Separate
  <2>. QED
    BY <1>4, <2>1, <2>2, <2>3 DEF Separate
<1>. QED
  BY <1>2, <1>8, <1>10, <1>11

\* A part of a sequence: its members after the a-th, as far as the b-th.
IsPart(x, s, a, b) ==
  IF a <= b THEN Len(x) = b - a /\ \A i \in 1 .. b - a : x[i] = s[a + i]
            ELSE x = <<>>

\* SubSeq gives such a part.
LEMMA PartIs ==
  ASSUME NEW S, NEW s \in Seq(S), NEW a \in Nat, NEW b \in Nat, b <= Len(s)
  PROVE  SubSeq(s, a + 1, b) \in Seq(S) /\ IsPart(SubSeq(s, a + 1, b), s, a, b)
<1>1. PICK c \in Nat \ {0} : c = a + 1
  OBVIOUS
<1>2. PICK x : x = SubSeq(s, c, b)
  OBVIOUS
<1>3. x \in Seq(S)
  BY <1>2, PartTyped
<1>4. CASE a <= b
  <2>1. Len(x) = b - a
    BY <1>1, <1>2, <1>4
  <2>2. \A i \in 1 .. b - a : x[i] = s[c + i - 1] /\ c + i - 1 = a + i
    BY <1>1, <1>2, <1>4
  <2>. QED
    BY <1>1, <1>2, <1>3, <1>4, <2>1, <2>2 DEF IsPart
<1>5. CASE ~(a <= b)
  <2>1. x = <<>>
    BY <1>1, <1>2, <1>5
  <2>. QED
    BY <1>1, <1>2, <1>3, <1>5, <2>1 DEF IsPart
<1>. QED
  BY <1>4, <1>5

\* Slices of a pool that grows: what was sampled is its beginning.
Sliced(taken, indexes, pool, n) ==
  /\ Len(taken) <= Len(pool) /\ \A i \in 1 .. Len(taken) : taken[i] = pool[i]
  /\ IF indexes = <<>>
       THEN n <= Len(taken) /\ Len(taken) < n + BatchSize
       ELSE /\ Len(taken) + Len(indexes) = n
            /\ \A i \in DOMAIN indexes : indexes[i] = Len(taken) + i

SliceMembers(taken, indexes, pool, d, w) ==
  /\ \A i \in 1 .. w : indexes[i] = d + i
  /\ \A i \in 1 .. d : taken[i] = pool[i]

\* What is left to slice.
LEMMA SlicedIs ==
  ASSUME NEW S, NEW taken \in Seq(S), NEW pool \in Seq(S), NEW n \in Nat,
         NEW indexes \in Seq(Nat), indexes # <<>>, Sliced(taken, indexes, pool, n)
  PROVE  \E d \in Nat, w \in Nat \ {0} :
           /\ d = Len(taken) /\ w = Len(indexes) /\ d + w = n
           /\ SliceMembers(taken, indexes, pool, d, w)
<1>1. PICK d \in Nat : d = Len(taken)
  OBVIOUS
<1>2. PICK w \in Nat \ {0} : w = Len(indexes) /\ DOMAIN indexes = 1 .. w
  OBVIOUS
<1>3. SliceMembers(taken, indexes, pool, d, w)
  BY <1>1, <1>2 DEF Sliced, SliceMembers
<1>4. d + w = n
  BY <1>1, <1>2 DEF Sliced
<1>. QED
  BY <1>1, <1>2, <1>3, <1>4

\* Where the next slice ends.
IsEnd(end, done, all) ==
  end <= all /\ end <= done + BatchSize /\ (end = all \/ end = done + BatchSize)

\* Taking the next slice.
LEMMA SliceTaken ==
  ASSUME NEW S, NEW taken \in Seq(S), NEW pool \in Seq(S), NEW n \in Nat, n <= Len(pool),
         NEW indexes \in Seq(Nat), indexes # <<>>, Sliced(taken, indexes, pool, n),
         NEW end \in Nat,
         IsEnd(end, Len(taken), Len(pool)),
         NEW slice \in Seq(S), IsPart(slice, pool, Len(taken), end),
         NEW rest \in Seq(Nat), IsPart(rest, indexes, BatchSize, Len(indexes))
  PROVE  /\ Len(slice) \in 1 .. BatchSize
         /\ rest # <<>> => Len(slice) = BatchSize
         /\ Sliced(taken \o slice, rest, pool, n)
<1>1. PICK d \in Nat, w \in Nat \ {0} :
        /\ d = Len(taken) /\ w = Len(indexes) /\ d + w = n
        /\ SliceMembers(taken, indexes, pool, d, w)
  BY SlicedIs
<1>2. PICK l \in Nat : l = Len(pool)
  OBVIOUS
<1>3. PICK b \in Nat \ {0} : b = BatchSize
  BY SamplingAssumption
<1>4. d < l /\ d + 1 <= end /\ end <= l /\ end <= d + b /\ (end = l \/ end = d + b)
  <2>1. n <= l
    BY <1>2
  <2>2. d < l
    BY <1>1, <2>1
  <2>3. end <= l /\ end <= d + b /\ (end = l \/ end = d + b)
    BY <1>1, <1>2, <1>3 DEF IsEnd
  <2>. QED
    BY <2>2, <2>3
<1>5. Len(slice) = end - d /\ \A i \in 1 .. end - d : slice[i] = pool[d + i]
  BY <1>1, <1>4 DEF IsPart
<1>6. PICK x : x = taken \o slice
  OBVIOUS
<1>7. Len(x) = end /\ \A i \in 1 .. end : x[i] = pool[i]
  <2>1. PICK m, k \in Nat : m = Len(taken) /\ k = Len(slice) /\ m + k = Len(x)
                            /\ IsJoin(x, taken, slice, m, k)
    BY <1>6, JoinIs
  <2>2. m = d /\ k = end - d /\ Len(x) = end
    BY <1>1, <1>4, <1>5, <2>1
  <2>3. ASSUME NEW i \in 1 .. end
        PROVE  x[i] = pool[i]
    <3>1. CASE i \in 1 .. d
      BY <1>1, <2>1, <2>2, <3>1 DEF IsJoin, SliceMembers
    <3>2. CASE i \notin 1 .. d
      <4>1. i \in 1 .. m + k
        BY <2>2
      <4>2. i - m \in 1 .. k /\ x[i] = slice[i - m]
        BY <2>1, <2>2, <3>2, <4>1 DEF IsJoin
      <4>3. PICK j \in 1 .. end - d : j = i - d
        BY <2>2, <4>2
      <4>4. x[i] = slice[j] /\ slice[j] = pool[d + j]
        BY <1>5, <2>2, <4>2, <4>3
      <4>5. d + j = i
        BY <4>3
      <4>. QED
        BY <4>4, <4>5
    <3>. QED
      BY <3>1, <3>2
  <2>. QED
    BY <2>2, <2>3
<1>8. Len(slice) \in 1 .. BatchSize
  BY <1>3, <1>4, <1>5
<1>9. CASE w <= b
  <2>1. rest = <<>>
    BY <1>1, <1>3, <1>9 DEF IsPart
  <2>2. n <= end /\ end < n + b
    BY <1>1, <1>2, <1>3, <1>4, <1>9
  <2>3. Sliced(x, rest, pool, n)
    BY <1>2, <1>3, <1>4, <1>7, <2>1, <2>2 DEF Sliced
  <2>. QED
    BY <1>6, <1>8, <2>1, <2>3
<1>10. CASE b < w
  <2>1. end = d + b
    BY <1>1, <1>2, <1>4, <1>10
  <2>2. Len(rest) = w - b /\ \A i \in 1 .. w - b : rest[i] = indexes[b + i]
    BY <1>1, <1>3, <1>10 DEF IsPart
  <2>3. PICK r \in Nat \ {0} : r = w - b
    BY <1>10
  <2>4. DOMAIN rest = 1 .. r /\ rest # <<>> /\ Len(rest) = r
    BY <2>2, <2>3
  <2>5. \A i \in 1 .. r : rest[i] = end + i
    <3>. SUFFICES ASSUME NEW i \in 1 .. r
                  PROVE  rest[i] = end + i
      OBVIOUS
    <3>1. b + i \in 1 .. w
      BY <2>3
    <3>2. indexes[b + i] = d + (b + i)
      BY <1>1, <3>1 DEF SliceMembers
    <3>3. rest[i] = indexes[b + i]
      BY <2>2, <2>3
    <3>. QED
      BY <2>1, <3>2, <3>3
  <2>6. end + r = n
    <3>1. b + r = w
      BY <2>3
    <3>2. d + w = n
      BY <1>1
    <3>. QED
      BY <2>1, <3>1, <3>2
  <2>7. Sliced(x, rest, pool, n)
    BY <1>2, <1>4, <1>7, <2>4, <2>5, <2>6 DEF Sliced
  <2>8. Len(slice) = BatchSize
    BY <1>3, <1>5, <2>1
  <2>. QED
    BY <1>6, <1>8, <2>7, <2>8
<1>. QED
  BY <1>1, <1>3, <1>9, <1>10

\* Selections from a pool: nothing is sampled twice, and the rest of it is left.
Selected(taken, indexes, pool, n) ==
  /\ IsInjective(taken) /\ IsInjective(indexes)
  /\ \A i \in DOMAIN indexes : indexes[i] \in 1 .. n /\ pool[indexes[i]] \notin ToSet(taken)
  /\ ToSet(taken) \cup {pool[indexes[i]] : i \in DOMAIN indexes} = {pool[i] : i \in 1 .. n}

IsSelection(slice, rest, pool, indexes, selection) ==
  /\ slice = [i \in DOMAIN selection |-> pool[selection[i]]]
  /\ rest = Keep(indexes, {i \in DOMAIN indexes : indexes[i] \notin ToSet(selection)})

\* Taking the next selection.
LEMMA SelectionTaken ==
  ASSUME NEW S, NEW taken \in Seq(S), NEW pool \in Seq(S), IsInjective(pool),
         NEW n \in Nat, n <= Len(pool), NEW indexes \in Seq(Nat),
         Selected(taken, indexes, pool, n),
         NEW size \in 1 .. Len(indexes), NEW selection \in [1 .. size -> ToSet(indexes)],
         IsInjective(selection),
         NEW slice, NEW rest, IsSelection(slice, rest, pool, indexes, selection)
  PROVE  /\ slice \in Seq(S) /\ Len(slice) = size /\ rest \in Seq(Nat)
         /\ size = Len(indexes) => rest = <<>>
         /\ Selected(taken \o slice, rest, pool, n)
<1>1. PICK l \in Nat : l = Len(pool) /\ DOMAIN pool = 1 .. l
  OBVIOUS
<1>2. PICK w \in Nat : w = Len(indexes) /\ DOMAIN indexes = 1 .. w
  OBVIOUS
<1>. DEFINE chosen == ToSet(selection)
            left == {i \in DOMAIN indexes : indexes[i] \notin chosen}
<1>3. DOMAIN selection = 1 .. size /\ chosen = {selection[i] : i \in 1 .. size}
  BY DEF ToSet
<1>4. chosen \subseteq ToSet(indexes)
  BY <1>3
<1>5. ToSet(indexes) \subseteq 1 .. n /\ 1 .. n \subseteq 1 .. l
  BY <1>1, <1>2 DEF Selected, ToSet
<1>6. rest \in Seq(Nat) /\ IsInjective(rest) /\ ToSet(rest) = ToSet(indexes) \ chosen
  <2>1. rest = Keep(indexes, left)
    BY DEF IsSelection
  <2>2. \A i \in 1 .. Len(indexes) : indexes[i] \in Nat
    OBVIOUS
  <2>3. rest \in Seq(Nat)
    BY <2>1, <2>2, KeepTyped
  <2>4. IsInjective(rest)
    BY <2>1, KeepInjective DEF Selected
  <2>5. ToSet(rest) = {indexes[i] : i \in left \cap 1 .. w}
    <3>. HIDE DEF left
    <3>. QED
      BY <1>2, <2>1, KeepRange
  <2>6. {indexes[i] : i \in left \cap 1 .. w} = ToSet(indexes) \ chosen
    <3>. HIDE DEF chosen
    <3>. QED
      BY <1>2 DEF ToSet
  <2>. QED
    BY <2>3, <2>4, <2>5, <2>6
<1>. HIDE DEF chosen, left
<1>7. \A i \in 1 .. size : selection[i] \in chosen /\ selection[i] \in 1 .. l
  BY <1>3, <1>4, <1>5
<1>8. \A x, y \in 1 .. l : pool[x] = pool[y] => x = y
  BY <1>1 DEF IsInjective
<1>9. /\ slice \in Seq(S) /\ Len(slice) = size /\ DOMAIN slice = 1 .. size
      /\ \A i \in 1 .. size : slice[i] = pool[selection[i]]
  <2>1. slice = [i \in 1 .. size |-> pool[selection[i]]]
    BY <1>3 DEF IsSelection
  <2>2. slice \in [1 .. size -> S]
    BY <1>1, <1>7, <2>1
  <2>3. size \in Nat
    BY <1>2
  <2>4. slice \in Seq(S) /\ Len(slice) = size /\ DOMAIN slice = 1 .. size
    BY <2>2, <2>3
  <2>5. \A i \in 1 .. size : slice[i] = pool[selection[i]]
    BY <2>1
  <2>. QED
    BY <2>4, <2>5
<1>10. IsInjective(slice)
  <2>1. ASSUME NEW i \in 1 .. size, NEW j \in 1 .. size, slice[i] = slice[j]
        PROVE  i = j
    <3>1. pool[selection[i]] = pool[selection[j]]
      BY <1>9, <2>1
    <3>2. selection[i] = selection[j]
      BY <1>7, <1>8, <3>1
    <3>. QED
      BY <1>3, <3>2 DEF IsInjective
  <2>. QED
    BY <1>9, <2>1 DEF IsInjective
<1>11. ToSet(slice) = {pool[x] : x \in chosen}
  <2>1. ToSet(slice) = {slice[i] : i \in 1 .. size}
    BY <1>9 DEF ToSet
  <2>2. {slice[i] : i \in 1 .. size} = {pool[selection[i]] : i \in 1 .. size}
    BY <1>9
  <2>3. {pool[selection[i]] : i \in 1 .. size} = {pool[x] : x \in chosen}
    BY <1>3
  <2>. QED
    BY <2>1, <2>2, <2>3
<1>12. {pool[indexes[i]] : i \in DOMAIN indexes} = {pool[x] : x \in ToSet(indexes)}
  BY DEF ToSet
<1>13. \A x \in ToSet(indexes) : pool[x] \notin ToSet(taken)
  BY DEF Selected, ToSet
<1>14. ToSet(taken) \cap ToSet(slice) = {}
  BY <1>4, <1>11, <1>13
<1>15. IsInjective(taken \o slice)
  BY <1>9, <1>10, <1>14, JoinedInjective DEF Selected
<1>16. ToSet(taken \o slice) = ToSet(taken) \cup ToSet(slice)
  <2>1. PICK t \in Seq(S) : t = slice
    BY <1>9
  <2>2. ToSet(taken \o t) = ToSet(taken) \cup ToSet(t)
    BY JoinedRange
  <2>. QED
    BY <2>1, <2>2
<1>17. \A i \in DOMAIN rest : rest[i] \in ToSet(rest)
  BY DEF ToSet
<1>18. \A x \in ToSet(rest) : x \in 1 .. n /\ pool[x] \notin ToSet(taken \o slice)
  <2>. SUFFICES ASSUME NEW x \in ToSet(rest)
                PROVE  x \in 1 .. n /\ pool[x] \notin ToSet(taken \o slice)
    OBVIOUS
  <2>1. x \in ToSet(indexes) /\ x \notin chosen
    BY <1>6
  <2>2. pool[x] \notin ToSet(slice)
    BY <1>4, <1>5, <1>8, <1>11, <2>1
  <2>. QED
    BY <1>5, <1>13, <1>16, <2>1, <2>2
<1>19. {pool[rest[i]] : i \in DOMAIN rest} = {pool[x] : x \in ToSet(rest)}
  BY DEF ToSet
<1>20. ToSet(taken \o slice) \cup {pool[x] : x \in ToSet(rest)} = {pool[i] : i \in 1 .. n}
  <2>1. ToSet(taken) \cup {pool[x] : x \in ToSet(indexes)} = {pool[i] : i \in 1 .. n}
    BY <1>12 DEF Selected
  <2>2. {pool[x] : x \in ToSet(indexes)} =
          {pool[x] : x \in chosen} \cup {pool[x] : x \in ToSet(rest)}
    BY <1>4, <1>6
  <2>. QED
    BY <1>11, <1>16, <2>1, <2>2
<1>21. Selected(taken \o slice, rest, pool, n)
  BY <1>6, <1>15, <1>17, <1>18, <1>19, <1>20 DEF Selected
<1>22. ASSUME size = Len(indexes)
       PROVE  rest = <<>>
  <2>1. PICK s \in Seq(ToSet(indexes)) : s = selection /\ Len(s) = size
    <3>1. size \in Nat
      BY <1>2
    <3>. HIDE DEF chosen
    <3>. QED
      BY <3>1
  <2>2. ASSUME NEW x \in ToSet(indexes), x \notin chosen
        PROVE  FALSE
    <3>1. IsInjective(Append(s, x))
      BY <2>1, <2>2, AppendedInjective DEF chosen
    <3>2. ToSet(Append(s, x)) \subseteq ToSet(indexes)
      <4>1. PICK A : A = ToSet(indexes)
        OBVIOUS
      <4>2. PICK t \in Seq(A) : t = Append(s, x)
        <5>1. Append(s, x) \in Seq(A)
          BY <2>2, <4>1
        <5>. QED
          BY <5>1
      <4>3. \A i \in DOMAIN t : t[i] \in A
        OBVIOUS
      <4>4. ToSet(t) \subseteq A
        BY <4>3 DEF ToSet
      <4>. QED
        BY <4>1, <4>2, <4>4
    <3>3. indexes \in Seq(ToSet(indexes))
      <4>1. PICK A : A = ToSet(indexes)
        OBVIOUS
      <4>2. indexes \in [1 .. w -> A]
        BY <1>2, <4>1 DEF ToSet
      <4>. QED
        BY <4>1, <4>2
    <3>4. Append(s, x) \in Seq(ToSet(indexes)) /\ Len(Append(s, x)) = size + 1
      BY <2>1
    <3>5. size + 1 <= Len(indexes)
      BY <3>1, <3>2, <3>3, <3>4, NoLonger
    <3>. QED
      BY <1>2, <1>22, <3>5
  <2>3. ToSet(rest) = {}
    BY <1>6, <2>2
  <2>4. PICK t \in Seq(Nat) : t = rest
    BY <1>6
  <2>5. PICK r \in Nat : r = Len(t) /\ DOMAIN t = 1 .. r
    OBVIOUS
  <2>6. 1 \notin 1 .. r
    BY <2>3, <2>4, <2>5 DEF ToSet
  <2>7. r = 0
    BY <2>6
  <2>8. t = <<>>
    BY <2>5, <2>7
  <2>. QED
    BY <2>4, <2>8
<1>. QED
  BY <1>6, <1>9, <1>21, <1>22

-----------------------------------------------------------------------------
(* Batches, and the ends of a walk.                                        *)

Full(batches) == \A k \in DOMAIN batches : Len(batches[k]) = BatchSize

Cut(batches) ==
  \A k \in DOMAIN batches :
    /\ Len(batches[k]) \in 1 .. BatchSize
    /\ k < Len(batches) => Len(batches[k]) = BatchSize

\* A batch may follow full ones.
LEMMA BatchAppended ==
  ASSUME NEW S, NEW batches \in Seq(Seq(S)), NEW b \in Seq(S), Full(batches)
  PROVE  /\ Cut(batches)
         /\ Len(b) \in 1 .. BatchSize => Cut(Append(batches, b))
         /\ Len(b) = BatchSize => Full(Append(batches, b))
<1>. DEFINE X == Seq(S)
<1>1. PICK n \in Nat : n = Len(batches) /\ DOMAIN batches = 1 .. n
  OBVIOUS
<1>2. PICK more : more = Append(batches, b)
  OBVIOUS
<1>3. /\ Len(more) = n + 1 /\ DOMAIN more = (1 .. n) \cup {n + 1}
      /\ (\A k \in 1 .. n : more[k] = batches[k]) /\ more[n + 1] = b
  <2>1. batches \in Seq(X) /\ b \in X
    OBVIOUS
  <2>. HIDE DEF X
  <2>. QED
    BY <1>1, <1>2, <2>1
<1>4. PICK size \in Nat \ {0} : size = BatchSize
  BY SamplingAssumption
<1>5. size \in 1 .. size
  OBVIOUS
<1>. QED
  BY <1>1, <1>2, <1>3, <1>4, <1>5 DEF Full, Cut

\* What covers the first members of a pool, without repetition, is no longer than they.
LEMMA CoveredOnce ==
  ASSUME NEW S, NEW taken \in Seq(S), NEW pool \in Seq(S), NEW n \in Nat, n <= Len(pool),
         IsInjective(taken), ToSet(taken) = {pool[i] : i \in 1 .. n}
  PROVE  /\ ToSet(SubSeq(pool, 1, n)) \subseteq ToSet(taken)
         /\ Len(taken) < n + BatchSize
<1>1. PICK part : part = SubSeq(pool, 1, n)
  OBVIOUS
<1>2. part \in Seq(S) /\ Len(part) = n /\ DOMAIN part = 1 .. n
      /\ \A i \in 1 .. n : part[i] = pool[i]
  <2>1. part \in Seq(S)
    BY <1>1, PartTyped
  <2>2. Len(part) = n
    BY <1>1
  <2>3. \A i \in 1 .. n : part[i] = pool[1 + i - 1] /\ 1 + i - 1 = i
    BY <1>1
  <2>4. DOMAIN part = 1 .. n
    BY <2>1, <2>2
  <2>. QED
    BY <2>1, <2>2, <2>3, <2>4
<1>3. ToSet(part) = ToSet(taken)
  BY <1>2 DEF ToSet
<1>4. Len(taken) <= Len(part)
  BY <1>2, <1>3, NoLonger
<1>5. Len(taken) < n + BatchSize
  <2>1. PICK d \in Nat : d = Len(taken)
    OBVIOUS
  <2>. QED
    BY <1>2, <1>4, <2>1, SamplingAssumption
<1>. QED
  BY <1>1, <1>3, <1>5

\* What was sliced is the beginning of the pool.
LEMMA SlicedOnce ==
  ASSUME NEW S, NEW taken \in Seq(S), NEW pool \in Seq(S), IsInjective(pool),
         NEW n \in Nat, n <= Len(pool), NEW indexes, Sliced(taken, indexes, pool, n)
  PROVE  /\ IsInjective(taken)
         /\ indexes = <<>> => /\ ToSet(SubSeq(pool, 1, n)) \subseteq ToSet(taken)
                              /\ Len(taken) < n + BatchSize
<1>1. PICK d \in Nat : d = Len(taken) /\ DOMAIN taken = 1 .. d
  OBVIOUS
<1>2. PICK l \in Nat : l = Len(pool) /\ DOMAIN pool = 1 .. l
  OBVIOUS
<1>3. d <= l /\ \A i \in 1 .. d : i \in 1 .. l /\ taken[i] = pool[i]
  BY <1>1, <1>2 DEF Sliced
<1>4. IsInjective(taken)
  BY <1>1, <1>2, <1>3 DEF IsInjective
<1>5. ASSUME indexes = <<>>
      PROVE  /\ ToSet(SubSeq(pool, 1, n)) \subseteq ToSet(taken)
             /\ Len(taken) < n + BatchSize
  <2>1. n <= d /\ Len(taken) < n + BatchSize
    BY <1>1, <1>5 DEF Sliced
  <2>2. PICK part : part = SubSeq(pool, 1, n)
    OBVIOUS
  <2>3. DOMAIN part = 1 .. n /\ \A i \in 1 .. n : part[i] = pool[i]
    <3>1. part \in Seq(S)
      BY <2>2, PartTyped
    <3>2. Len(part) = n
      BY <2>2
    <3>3. \A i \in 1 .. n : part[i] = pool[1 + i - 1] /\ 1 + i - 1 = i
      BY <2>2
    <3>4. DOMAIN part = 1 .. n
      BY <3>1, <3>2
    <3>. QED
      BY <3>3, <3>4
  <2>4. \A i \in 1 .. n : i \in 1 .. d
    BY <2>1
  <2>5. ToSet(part) \subseteq ToSet(taken)
    BY <1>1, <1>3, <2>3, <2>4 DEF ToSet
  <2>. QED
    BY <2>1, <2>2, <2>5
<1>. QED
  BY <1>4, <1>5

\* The pool may become longer meanwhile.
IsLonger(pool, longer) ==
  Len(pool) <= Len(longer) /\ \A i \in 1 .. Len(pool) : longer[i] = pool[i]

\* What was taken from the pool so far is right for the longer one as well.
LEMMA PoolLonger ==
  ASSUME NEW S, NEW pool \in Seq(S), NEW longer \in Seq(S), IsLonger(pool, longer),
         NEW n \in Nat, n <= Len(pool), NEW taken \in Seq(S), NEW indexes
  PROVE  /\ n <= Len(longer) /\ \A i \in 1 .. n : longer[i] = pool[i]
         /\ Sliced(taken, indexes, pool, n) => Sliced(taken, indexes, longer, n)
         /\ Selected(taken, indexes, pool, n) => Selected(taken, indexes, longer, n)
<1>1. PICK k \in Nat : k = Len(pool)
  OBVIOUS
<1>2. PICK l \in Nat : l = Len(longer)
  OBVIOUS
<1>3. k <= l /\ n <= k /\ \A i \in 1 .. k : longer[i] = pool[i]
  BY <1>1, <1>2 DEF IsLonger
<1>4. \A i \in 1 .. n : longer[i] = pool[i]
  BY <1>3
<1>5. {longer[i] : i \in 1 .. n} = {pool[i] : i \in 1 .. n}
  BY <1>4
<1>6. ASSUME Sliced(taken, indexes, pool, n)
      PROVE  Sliced(taken, indexes, longer, n)
  <2>1. PICK d \in Nat : d = Len(taken)
    OBVIOUS
  <2>2. d <= k /\ \A i \in 1 .. d : taken[i] = pool[i]
    BY <1>1, <1>6, <2>1 DEF Sliced
  <2>3. d <= l /\ \A i \in 1 .. d : taken[i] = longer[i]
    BY <1>3, <2>2
  <2>. QED
    BY <1>2, <1>6, <2>1, <2>3 DEF Sliced
<1>7. ASSUME Selected(taken, indexes, pool, n)
      PROVE  Selected(taken, indexes, longer, n)
  <2>1. \A i \in DOMAIN indexes : indexes[i] \in 1 .. n /\ longer[indexes[i]] = pool[indexes[i]]
    BY <1>4, <1>7 DEF Selected
  <2>2. {longer[indexes[i]] : i \in DOMAIN indexes} = {pool[indexes[i]] : i \in DOMAIN indexes}
    BY <2>1
  <2>. QED
    BY <1>5, <1>7, <2>1, <2>2 DEF Selected
<1>. QED
  BY <1>2, <1>3, <1>4, <1>6, <1>7

\* All groups are left to begin with.
LEMMA StartedGroups ==
  ASSUME NEW S, NEW points \in Seq(S), IsInjective(points)
  PROVE  /\ Covers(<<>>, BuildGroupsList(points), ToSet(points))
         /\ Separate(<<>>, BuildGroupsList(points))
<1>1. PICK groups \in Seq(Seq(S)) : groups = BuildGroupsList(points)
  BY GroupsAre
<1>2. /\ \A i \in DOMAIN groups : IsInjective(groups[i]) /\ Alike(groups[i])
      /\ \A i, j \in DOMAIN groups : i # j => Unlike(groups[i], groups[j])
      /\ UNION {ToSet(groups[i]) : i \in DOMAIN groups} = ToSet(points)
  BY <1>1, GroupsAre
<1>3. PICK none : none = <<>>
  OBVIOUS
<1>4. DOMAIN none = {} /\ ToSet(none) = {} /\ IsInjective(none)
  BY <1>3 DEF ToSet, IsInjective
<1>5. ASSUME NEW i \in DOMAIN groups, NEW j \in DOMAIN groups, i # j
      PROVE  ToSet(groups[i]) \cap ToSet(groups[j]) = {}
  BY <1>2, <1>5, SameGroupIs DEF Unlike
<1>6. Covers(none, groups, ToSet(points))
  BY <1>2, <1>4, <1>5 DEF Covers
<1>7. Separate(none, groups)
  BY <1>2, <1>4 DEF Separate, Together, Unlike
<1>. QED
  BY <1>1, <1>3, <1>6, <1>7

\* The points of a grid, one by one.
LEMMA StartedPoints ==
  ASSUME NEW S, NEW points \in Seq(S), IsInjective(points)
  PROVE  Covers(<<>>, [i \in DOMAIN points |-> <<points[i]>>], ToSet(points))
<1>1. PICK groups : groups = [i \in DOMAIN points |-> <<points[i]>>]
  OBVIOUS
<1>2. \A v : IsInjective(<<v>>) /\ ToSet(<<v>>) = {v}
  BY DEF IsInjective, ToSet
<1>3. DOMAIN groups = DOMAIN points
      /\ \A i \in DOMAIN points : IsInjective(groups[i]) /\ ToSet(groups[i]) = {points[i]}
  BY <1>1, <1>2
<1>4. PICK none : none = <<>>
  OBVIOUS
<1>5. ToSet(none) = {} /\ IsInjective(none)
  BY <1>4 DEF ToSet, IsInjective
<1>6. UNION {ToSet(groups[i]) : i \in DOMAIN groups} = ToSet(points)
  <2>1. ToSet(points) = {points[i] : i \in DOMAIN points}
    BY DEF ToSet
  <2>2. UNION {ToSet(groups[i]) : i \in DOMAIN groups} = {points[i] : i \in DOMAIN points}
    BY <1>3
  <2>. QED
    BY <2>1, <2>2
<1>7. \A i, j \in DOMAIN groups : i # j => ToSet(groups[i]) \cap ToSet(groups[j]) = {}
  BY <1>3 DEF IsInjective
<1>8. Covers(none, groups, ToSet(points))
  BY <1>3, <1>5, <1>6, <1>7 DEF Covers
<1>. QED
  BY <1>1, <1>4, <1>8

\* The indexes of all that matches.
LEMMA StartedIndexes ==
  ASSUME NEW S, NEW pool \in Seq(S), NEW indexes, indexes = [i \in DOMAIN pool |-> i]
  PROVE  Sliced(<<>>, indexes, pool, Len(pool)) /\ Selected(<<>>, indexes, pool, Len(pool))
<1>1. PICK l \in Nat : l = Len(pool) /\ DOMAIN pool = 1 .. l
  OBVIOUS
<1>2. PICK x : x = indexes
  OBVIOUS
<1>3. DOMAIN x = 1 .. l /\ (\A i \in 1 .. l : x[i] = i) /\ Len(x) = l
  <2>1. x \in [1 .. l -> Nat]
    BY <1>1, <1>2
  <2>2. x \in Seq(Nat) /\ Len(x) = l
    BY <2>1
  <2>. QED
    BY <1>1, <1>2, <2>2
<1>4. PICK none : none = <<>>
  OBVIOUS
<1>5. ToSet(none) = {} /\ IsInjective(none) /\ Len(none) = 0
  BY <1>4 DEF ToSet, IsInjective
<1>6. x = <<>> => l = 0
  BY <1>3
<1>7. Sliced(none, x, pool, l)
  BY <1>1, <1>3, <1>5, <1>6, SamplingAssumption DEF Sliced
<1>8. Selected(none, x, pool, l)
  BY <1>3, <1>5 DEF Selected, IsInjective
<1>. QED
  BY <1>1, <1>2, <1>4, <1>7, <1>8

-----------------------------------------------------------------------------
(* Each entity once.                                                       *)

Pool == MatchingEntities(store)
Drawn == Sampled \o batch \o sample
Due == IF sampler.source = "grid" THEN ToSet(SequentialPoints) ELSE {Pool[i] : i \in 1 .. number}

GroupsInv ==
  /\ Full(yielded) /\ Len(batch) <= BatchSize
  /\ Covers(Drawn, walk, Due)
  /\ sampler.grouped => Separate(Drawn, walk)

SlicesInv ==
  /\ batch = <<>> /\ sample = <<>>
  /\ Cut(yielded) /\ (walk # <<>> => Full(yielded))
  /\ IF sampler.random THEN Selected(Sampled, walk, Pool, number)
                       ELSE Sliced(Sampled, walk, Pool, number)

\* What was drawn and what is left of a walk are all that is due, without repetition.
OnceInv ==
  /\ space \in EntitySpaces
  /\ IsInjective(store)
  /\ phase \notin {"sampling", "done"} => yielded = <<>> /\ batch = <<>> /\ sample = <<>>
  /\ phase = "sampling" => sampler \in Samplers /\ number \in Nat /\ number <= Len(Pool)
  /\ ByGroups => GroupsInv
  /\ BySlices => SlicesInv
  /\ phase = "done" => SampledOnceInGroups

\* The pool is without repetition as the store is.
LEMMA PoolIs ==
  ASSUME SpaceInv, OnceInv
  PROVE  Pool \in Seq(InSpace) /\ IsInjective(Pool) /\ Len(Pool) \in Nat
<1>1. Pool \in Seq(InSpace)
  BY MatchingTyped DEF Pool, SpaceInv
<1>2. IsInjective(Pool)
  BY KeepInjective DEF Pool, MatchingEntities, SpaceInv, OnceInv
<1>3. PICK p \in Seq(InSpace) : p = Pool
  BY <1>1
<1>4. Len(p) \in Nat
  OBVIOUS
<1>. QED
  BY <1>1, <1>2, <1>3, <1>4

\* What has been sampled, with what has been drawn and not been sampled yet.
LEMMA DrawnIs ==
  ASSUME SpaceInv
  PROVE  /\ Sampled \in Seq(InSpace) /\ Sampled \o batch \in Seq(InSpace)
         /\ Drawn \in Seq(InSpace)
<1>1. PICK s, b, r \in Seq(InSpace) : s = Sampled /\ b = batch /\ r = sample
  BY SampledInSpace DEF SpaceInv
<1>2. s \o b \in Seq(InSpace) /\ s \o b \o r \in Seq(InSpace)
  OBVIOUS
<1>. QED
  BY <1>1, <1>2 DEF Drawn

\* The invariant holds at first.
LEMMA OnceInvInit == SpaceInit => OnceInv
<1>. SUFFICES ASSUME SpaceInit
              PROVE  OnceInv
  OBVIOUS
<1>1. /\ space \in EntitySpaces /\ phase = "configured"
      /\ store = <<>> /\ yielded = <<>> /\ batch = <<>> /\ sample = <<>>
  BY DEF SpaceInit
<1>2. ~BySlices /\ ~ByGroups
  BY <1>1 DEF BySlices, ByGroups
<1>3. IsInjective(store)
  BY <1>1 DEF IsInjective
<1>. QED
  BY <1>1, <1>2, <1>3 DEF OnceInv

\* What the invariant says of the samples, whatever is left to do.
LEMMA OnceHolds ==
  ASSUME SpaceInv, OnceInv
  PROVE  SampledOnceInGroups
<1>1. CASE phase = "done"
  BY <1>1 DEF OnceInv
<1>2. CASE phase \notin {"sampling", "done"}
  <2>1. PICK y : y = yielded /\ y = <<>>
    BY <1>2 DEF OnceInv
  <2>2. FlattenSeq(y) = <<>> /\ DOMAIN y = {}
    BY <2>1 DEF FlattenSeq
  <2>3. DOMAIN Sampled = {}
    BY <2>1, <2>2 DEF Sampled
  <2>4. IsInjective(Sampled) /\ GroupsTogether
    BY <2>3 DEF IsInjective, GroupsTogether
  <2>. QED
    BY <1>2, <2>1, <2>2, <2>4 DEF SampledOnceInGroups, EverythingOnce
<1>3. CASE BySlices
  <2>1. SlicesInv /\ ~sampler.grouped /\ phase = "sampling"
    BY <1>3 DEF OnceInv, BySlices
  <2>2. IsInjective(Sampled)
    <3>1. CASE sampler.random
      BY <2>1, <3>1 DEF SlicesInv, Selected
    <3>2. CASE ~sampler.random
      <4>1. Sliced(Sampled, walk, Pool, number) /\ number \in Nat /\ number <= Len(Pool)
        BY <2>1, <3>2 DEF SlicesInv, OnceInv
      <4>2. PICK s, p \in Seq(InSpace) : s = Sampled /\ p = Pool
        BY DrawnIs, PoolIs
      <4>. QED
        BY <4>1, <4>2, PoolIs, SlicedOnce
    <3>. QED
      BY <3>1, <3>2
  <2>. QED
    BY <2>1, <2>2 DEF SlicesInv, Cut, SampledOnceInGroups, EverythingOnce, GroupsTogether
<1>4. CASE ByGroups
  <2>1. GroupsInv /\ phase = "sampling"
    BY <1>4 DEF OnceInv, ByGroups
  <2>2. PICK s, b, r \in Seq(InSpace) : s = Sampled /\ b = batch /\ r = sample
    BY DrawnIs DEF SpaceInv
  <2>3. PICK x \in Seq(InSpace) : x = s \o b
    BY <2>2, DrawnIs
  <2>4. Drawn = x \o r
    BY <2>2, <2>3 DEF Drawn
  <2>5. IsInjective(s)
    <3>1. IsInjective(x \o r)
      BY <2>1, <2>4 DEF GroupsInv, Covers
    <3>2. IsInjective(x)
      BY <3>1, JoinedInjective
    <3>. QED
      BY <2>3, <3>2, JoinedInjective
  <2>6. sampler.grouped => Together(s)
    <3>1. sampler.grouped => Together(x \o r)
      BY <2>1, <2>4 DEF GroupsInv, Separate
    <3>2. sampler.grouped => Together(x)
      BY <3>1, JoinedTogether
    <3>. QED
      BY <2>3, <3>2, JoinedTogether
  <2>7. Cut(yielded)
    <3>1. PICK y \in Seq(Seq(InSpace)) : y = yielded
      BY DEF SpaceInv
    <3>2. PICK X : X = InSpace
      OBVIOUS
    <3>3. <<>> \in Seq(X)
      OBVIOUS
    <3>. QED
      BY <2>1, <3>1, <3>2, <3>3, BatchAppended DEF GroupsInv
  <2>. QED
    BY <2>1, <2>2, <2>5, <2>6, <2>7
       DEF Cut, Together, SampledOnceInGroups, EverythingOnce, GroupsTogether
<1>. QED
  BY <1>1, <1>2, <1>3, <1>4 DEF SpaceInv, BySlices, ByGroups

\* A sequence is its first member and the others.
LEMMA HeadFirst ==
  ASSUME NEW S, NEW r \in Seq(S), r # <<>>
  PROVE  Head(r) \in S /\ Tail(r) \in Seq(S) /\ <<Head(r)>> \o Tail(r) = r
<1>1. Len(r) \in Nat \ {0}
  OBVIOUS
<1>2. 1 \in 1 .. Len(r) /\ Len(r) \in 1 .. Len(r)
  BY <1>1
<1>3. SubSeq(r, 1, Len(r)) = <<r[1]>> \o SubSeq(r, 1 + 1, Len(r))
  BY <1>2, SubSeqRecursiveFirst
<1>4. SubSeq(r, 1, Len(r)) = r
  BY SubSeqFull
<1>5. Tail(r) = SubSeq(r, 2, Len(r)) /\ Tail(r) \in Seq(S) /\ Head(r) \in S
  BY TailIsSubSeq, HeadTailProperties
<1>6. Head(r) = r[1] /\ 1 + 1 = 2
  OBVIOUS
<1>. QED
  BY <1>3, <1>4, <1>5, <1>6

\* Four are joined in any order.
Joining(s, b, x, t) == s \o (b \o x) \o t = s \o b \o (x \o t)

\* Whichever are joined first.
LEMMA JoinedFour ==
  ASSUME NEW S, NEW s \in Seq(S), NEW b \in Seq(S), NEW x \in Seq(S), NEW t \in Seq(S)
  PROVE  Joining(s, b, x, t)
<1>1. s \o b \in Seq(S)
  BY ConcatProperties
<1>2. PICK c \in Seq(S) : c = s \o b
  BY <1>1
<1>3. c \o x = s \o (b \o x)
  BY <1>2, ConcatAssociative
<1>4. (c \o x) \o t = c \o (x \o t)
  BY ConcatAssociative
<1>. QED
  BY <1>2, <1>3, <1>4 DEF Joining

\* Drawing one member of a sample adds nothing to what was drawn.
SameDrawn(s, b, r) == s \o Append(b, Head(r)) \o Tail(r) = s \o b \o r

\* What is drawn goes from the sample to the batch.
LEMMA OneDrawn ==
  ASSUME NEW S, NEW s \in Seq(S), NEW b \in Seq(S), NEW r \in Seq(S), r # <<>>
  PROVE  SameDrawn(s, b, r)
<1>1. \A x, t \in Seq(S) : Joining(s, b, x, t)
  BY JoinedFour
<1>2. Head(r) \in S /\ Tail(r) \in Seq(S) /\ <<Head(r)>> \o Tail(r) = r
  BY HeadFirst
<1>3. <<Head(r)>> \in Seq(S)
  BY <1>2
<1>4. Append(b, Head(r)) = b \o <<Head(r)>>
  BY <1>2, AppendIsConcat
<1>. QED
  BY <1>1, <1>2, <1>3, <1>4 DEF SameDrawn, Joining

\* While a store grows, so may the pool.
LEMMA EntityAdded ==
  ASSUME SpaceInv, OnceInv, NEW entity \in Storable, AddEntity(entity)
  PROVE  OnceInv'
<1>1. /\ phase \in {"created", "sampling"}
      /\ entity \notin ToSet(store) /\ store' = Append(store, entity)
      /\ UNCHANGED <<space, experiments, phase, sampler, number, walk, sample, batch, yielded>>
  BY DEF AddEntity
<1>2. /\ \A entities : MatchingEntities(entities)' = MatchingEntities(entities)
      /\ SequentialPoints' = SequentialPoints
  BY <1>1, SpaceStays
<1>3. IsInjective(store')
  BY <1>1, AppendedInjective DEF SpaceInv, OnceInv
<1>4. PICK p \in Seq(InSpace) : p = Pool
  BY PoolIs
<1>5. PICK longer \in Seq(InSpace) : longer = Pool' /\ IsLonger(p, longer)
  <2>1. Pool' = MatchingEntities(Append(store, entity))
    BY <1>1, <1>2 DEF Pool
  <2>2. store \in Seq(Storable) /\ Append(store, entity) \in Seq(Storable)
    BY DEF SpaceInv
  <2>3. PICK longer \in Seq(InSpace) : longer = MatchingEntities(Append(store, entity))
    BY <2>2, MatchingTyped
  <2>4. longer = p \/ longer = Append(p, entity)
    BY <1>4, <2>2, <2>3, MatchingLonger DEF Pool
  <2>5. IsLonger(p, longer)
    BY <2>4 DEF IsLonger
  <2>. QED
    BY <2>1, <2>3, <2>5
<1>6. (BySlices' <=> BySlices) /\ (ByGroups' <=> ByGroups)
  BY <1>1 DEF BySlices, ByGroups
<1>7. Sampled' = Sampled /\ Drawn' = Drawn
  BY <1>1 DEF Sampled, Drawn
<1>8. PICK s \in Seq(InSpace) : s = Sampled
  BY DrawnIs
<1>9. phase = "sampling" =>
        /\ sampler \in Samplers /\ number \in Nat /\ number <= Len(p) /\ number <= Len(longer)
        /\ {longer[i] : i \in 1 .. number} = {p[i] : i \in 1 .. number}
        /\ Sliced(s, walk, p, number) => Sliced(s, walk, longer, number)
        /\ Selected(s, walk, p, number) => Selected(s, walk, longer, number)
  <2>. SUFFICES ASSUME phase = "sampling"
                PROVE  /\ sampler \in Samplers
                       /\ number \in Nat /\ number <= Len(p) /\ number <= Len(longer)
                       /\ {longer[i] : i \in 1 .. number} = {p[i] : i \in 1 .. number}
                       /\ Sliced(s, walk, p, number) => Sliced(s, walk, longer, number)
                       /\ Selected(s, walk, p, number) => Selected(s, walk, longer, number)
    OBVIOUS
  <2>1. sampler \in Samplers /\ number \in Nat /\ number <= Len(p)
    BY <1>4 DEF OnceInv
  <2>2. PICK n \in Nat : n = number /\ n <= Len(p)
    BY <2>1
  <2>3. PICK w : w = walk
    OBVIOUS
  <2>4. /\ n <= Len(longer) /\ \A i \in 1 .. n : longer[i] = p[i]
        /\ Sliced(s, w, p, n) => Sliced(s, w, longer, n)
        /\ Selected(s, w, p, n) => Selected(s, w, longer, n)
    BY <1>5, <2>2, PoolLonger
  <2>. QED
    BY <2>1, <2>2, <2>3, <2>4
<1>10. ByGroups => GroupsInv'
  <2>. SUFFICES ASSUME ByGroups
                PROVE  GroupsInv'
    OBVIOUS
  <2>1. GroupsInv /\ phase = "sampling"
    BY DEF OnceInv, ByGroups
  <2>2. Due' = Due
    BY <1>1, <1>2, <1>4, <1>5, <1>9, <2>1 DEF Due
  <2>. QED
    BY <1>1, <1>7, <2>1, <2>2 DEF GroupsInv
<1>11. BySlices => SlicesInv'
  <2>. SUFFICES ASSUME BySlices
                PROVE  SlicesInv'
    OBVIOUS
  <2>1. SlicesInv /\ phase = "sampling"
    BY DEF OnceInv, BySlices
  <2>2. IF sampler.random THEN Selected(s, walk, longer, number)
                          ELSE Sliced(s, walk, longer, number)
    BY <1>4, <1>8, <1>9, <2>1 DEF SlicesInv
  <2>. QED
    BY <1>1, <1>5, <1>7, <1>8, <2>1, <2>2 DEF SlicesInv
<1>12. phase' # "done" /\ space' \in EntitySpaces
  BY <1>1 DEF OnceInv
<1>13. phase' \notin {"sampling", "done"} => yielded' = <<>> /\ batch' = <<>> /\ sample' = <<>>
  BY <1>1 DEF OnceInv
<1>14. phase' = "sampling" => sampler' \in Samplers /\ number' \in Nat /\ number' <= Len(Pool')
  BY <1>1, <1>5, <1>9
<1>. QED
  BY <1>3, <1>6, <1>10, <1>11, <1>12, <1>13, <1>14 DEF OnceInv

\* A walk starts with all of what is due.
LEMMA SamplingStarted ==
  ASSUME WithoutRepetition(EntitySpaces), SpaceInv, OnceInv, NEW s \in Samplers, StartSampling(s)
  PROVE  OnceInv'
<1>1. /\ phase = "created" /\ phase' \in {"sampling", "failed"}
      /\ sampler' = s /\ number' = Len(Pool)
      /\ phase' = "sampling" => walk' = Walk(s)
      /\ UNCHANGED <<space, experiments, store, sample, batch, yielded>>
  BY DEF StartSampling, Pool
<1>2. /\ \A entities : MatchingEntities(entities)' = MatchingEntities(entities)
      /\ SequentialPoints' = SequentialPoints
  BY <1>1, SpaceStays
<1>3. Pool' = Pool
  BY <1>1, <1>2 DEF Pool
<1>4. PICK p \in Seq(InSpace) : p = Pool /\ IsInjective(p)
  BY PoolIs
<1>5. PICK l \in Nat : l = Len(p) /\ number' = l /\ DOMAIN p = 1 .. l
  BY <1>1, <1>4
<1>6. yielded' = <<>> /\ batch' = <<>> /\ sample' = <<>>
  BY <1>1 DEF OnceInv
<1>7. Sampled' = <<>> /\ Drawn' = <<>>
  <2>1. PICK y : y = yielded' /\ y = <<>>
    BY <1>6
  <2>2. FlattenSeq(y) = <<>>
    BY <2>1 DEF FlattenSeq
  <2>3. Sampled' = <<>>
    BY <2>1, <2>2 DEF Sampled
  <2>4. <<>> \o <<>> \o <<>> = <<>>
    OBVIOUS
  <2>. QED
    BY <1>6, <2>3, <2>4 DEF Drawn
<1>8. Full(yielded') /\ Cut(yielded') /\ Len(batch') <= BatchSize
  <2>1. PICK none : none = <<>>
    OBVIOUS
  <2>2. DOMAIN none = {} /\ Len(none) = 0
    BY <2>1
  <2>3. yielded' = none /\ batch' = none
    BY <1>6, <2>1
  <2>. QED
    BY <2>2, <2>3, SamplingAssumption DEF Full, Cut
<1>9. BySlices' => SlicesInv'
  <2>. SUFFICES ASSUME BySlices'
                PROVE  SlicesInv'
    OBVIOUS
  <2>1. phase' = "sampling" /\ s.source = "stored" /\ ~s.grouped
    BY <1>1 DEF BySlices
  <2>2. Walk(s) = [i \in DOMAIN p |-> i]
    BY <1>4, <2>1 DEF Walk, Pool
  <2>3. PICK w : w = walk' /\ w = [i \in DOMAIN p |-> i]
    BY <1>1, <2>1, <2>2
  <2>4. Sliced(<<>>, w, p, Len(p)) /\ Selected(<<>>, w, p, Len(p))
    BY <2>3, StartedIndexes
  <2>5. PICK none : none = <<>>
    OBVIOUS
  <2>6. Sliced(none, w, p, l) /\ Selected(none, w, p, l) /\ Sampled' = none
    BY <1>5, <1>7, <2>4, <2>5
  <2>. QED
    BY <1>1, <1>3, <1>4, <1>5, <1>6, <1>8, <2>3, <2>6 DEF SlicesInv
<1>10. ByGroups' => GroupsInv'
  <2>. SUFFICES ASSUME ByGroups'
                PROVE  GroupsInv'
    OBVIOUS
  <2>1. phase' = "sampling" /\ (s.source = "grid" \/ (s.source = "stored" /\ s.grouped))
    <3>1. s.source \in {"stored", "grid"}
      BY SamplingAssumption
    <3>2. phase' = "sampling" /\ ~(s.source = "stored" /\ ~s.grouped)
      BY <1>1 DEF ByGroups
    <3>. QED
      BY <3>1, <3>2
  <2>2. PICK points \in Seq(InSpace) :
          /\ IsInjective(points)
          /\ points = IF s.source = "grid" THEN SequentialPoints ELSE Pool
    <3>1. CASE s.source = "grid"
      <4>1. \A n \in Names : HasValues(DomainOf(n))
        BY <2>1, <3>1 DEF StartSampling
      <4>2. SpaceTyped /\ space \in EntitySpaces
        BY <1>1 DEF SpaceTyped, SpaceInv, OnceInv
      <4>3. SequentialPoints \in Seq(InSpace) /\ IsInjective(SequentialPoints)
        <5>1. IsOrder(space)
          BY <4>2, SpaceOrder, SpaceFields, SpacesAssumption DEF IsOrder
        <5>2. \A n \in Names : IsInjective(DomainOf(n).values)
          BY <4>2, ValuesOnce
        <5>3. PointsOf(space) \in Seq(InSpace) /\ IsInjective(PointsOf(space))
          BY <4>1, <4>2, <5>1, <5>2, PointsTyped, PointsInjective DEF IsOrder
        <5>. QED
          BY <4>2, <5>3, SpaceOrder
      <4>. QED
        BY <3>1, <4>3
    <3>2. CASE s.source # "grid"
      BY <1>4, <3>2
    <3>. QED
      BY <3>1, <3>2
  <2>3. Due' = ToSet(points)
    <3>1. CASE s.source = "grid"
      BY <1>1, <1>2, <2>2, <3>1 DEF Due
    <3>2. CASE s.source # "grid"
      <4>1. Due' = {p[i] : i \in 1 .. l}
        BY <1>1, <1>3, <1>4, <1>5, <3>2 DEF Due
      <4>. QED
        BY <1>4, <1>5, <2>2, <3>2, <4>1 DEF ToSet
    <3>. QED
      BY <3>1, <3>2
  <2>4. PICK none : none = <<>>
    OBVIOUS
  <2>5. /\ Covers(none, walk', ToSet(points))
        /\ s.grouped => Separate(none, walk')
    <3>1. CASE s.grouped
      <4>1. Walk(s) = BuildGroupsList(points)
        BY <2>2, <3>1 DEF Walk, Pool
      <4>2. PICK g : g = walk' /\ g = BuildGroupsList(points)
        BY <1>1, <2>1, <4>1
      <4>3. Covers(<<>>, g, ToSet(points)) /\ Separate(<<>>, g)
        BY <2>2, <4>2, StartedGroups
      <4>. QED
        BY <2>4, <4>2, <4>3
    <3>2. CASE ~s.grouped
      <4>1. Walk(s) = [i \in DOMAIN points |-> <<points[i]>>]
        BY <2>1, <2>2, <3>2 DEF Walk
      <4>2. PICK g : g = walk' /\ g = [i \in DOMAIN points |-> <<points[i]>>]
        BY <1>1, <2>1, <4>1
      <4>3. Covers(<<>>, g, ToSet(points))
        BY <2>2, <4>2, StartedPoints
      <4>. QED
        BY <2>4, <3>2, <4>2, <4>3
    <3>. QED
      BY <3>1, <3>2
  <2>6. Drawn' = none
    BY <1>7, <2>4
  <2>. QED
    BY <1>1, <1>8, <2>3, <2>5, <2>6 DEF GroupsInv
<1>11. space' \in EntitySpaces /\ IsInjective(store') /\ phase' # "done"
  BY <1>1 DEF OnceInv
<1>12. sampler' \in Samplers /\ number' \in Nat /\ number' <= Len(Pool')
  BY <1>1, <1>3, <1>4, <1>5
<1>. QED
  BY <1>6, <1>9, <1>10, <1>11, <1>12 DEF OnceInv

\* A slice or a selection is taken from what is left.
LEMMA SlicesTaken ==
  ASSUME SpaceInv, OnceInv, NextSlice \/ NextSelection
  PROVE  OnceInv'
<1>1. /\ BySlices /\ walk # <<>> /\ phase = "sampling"
      /\ UNCHANGED <<space, experiments, phase, store, sampler, number, sample, batch>>
  BY DEF NextSlice, NextSelection, BySlices
<1>2. /\ \A entities : MatchingEntities(entities)' = MatchingEntities(entities)
      /\ SequentialPoints' = SequentialPoints
  BY <1>1, SpaceStays
<1>3. Pool' = Pool
  BY <1>1, <1>2 DEF Pool
<1>4. PICK p \in Seq(InSpace) : p = Pool /\ IsInjective(p)
  BY PoolIs
<1>5. PICK d \in Seq(InSpace) : d = Sampled
  BY DrawnIs
<1>6. PICK w \in Seq(Nat) : w = walk
  <2>1. PICK A : A = 1 .. Len(Pool)
    OBVIOUS
  <2>2. PICK x \in Seq(A) : x = walk
    BY <1>1, <2>1 DEF SpaceInv, Pool
  <2>3. A \subseteq Nat
    BY <2>1
  <2>4. x \in Seq(Nat)
    BY <2>3, SeqWider
  <2>. QED
    BY <2>2, <2>4
<1>7. PICK n \in Nat : n = number /\ n <= Len(p)
  BY <1>1, <1>4 DEF OnceInv
<1>8. SlicesInv
  BY <1>1 DEF OnceInv
<1>9. PICK slice \in Seq(InSpace), rest \in Seq(Nat) :
        /\ yielded' = Append(yielded, slice) /\ walk' = rest
        /\ Len(slice) \in 1 .. BatchSize
        /\ rest # <<>> => Len(slice) = BatchSize
        /\ IF sampler.random THEN Selected(d \o slice, rest, p, n)
                             ELSE Sliced(d \o slice, rest, p, n)
  <2>1. CASE NextSlice
    <3>1. Sliced(d, w, p, n) /\ ~sampler.random
      BY <1>4, <1>5, <1>6, <1>7, <1>8, <2>1 DEF NextSlice, SlicesInv
    <3>2. PICK a \in Nat : a = Len(d)
      OBVIOUS
    <3>3. PICK l \in Nat : l = Len(p)
      OBVIOUS
    <3>4. PICK b \in Nat \ {0} : b = BatchSize
      BY SamplingAssumption
    <3>5. PICK k \in Nat \ {0} : k = Len(w) /\ w[1] = a + 1 /\ w # <<>>
      <4>1. w # <<>>
        BY <1>1, <1>6
      <4>2. PICK e \in Nat, k \in Nat \ {0} :
              e = Len(d) /\ k = Len(w) /\ e + k = n /\ SliceMembers(d, w, p, e, k)
        BY <1>7, <3>1, <4>1, SlicedIs
      <4>3. w[1] = e + 1
        BY <4>2 DEF SliceMembers
      <4>. QED
        BY <3>2, <4>1, <4>2, <4>3
    <3>6. PICK end \in Nat : end = IF a + b < l THEN a + b ELSE l
      OBVIOUS
    <3>7. IsEnd(end, a, l) /\ end <= l
      BY <3>4, <3>6 DEF IsEnd
    <3>8. /\ yielded' = Append(yielded, SubSeq(p, a + 1, end))
          /\ walk' = SubSeq(w, b + 1, k)
      <4>1. w[1] + BatchSize - 1 = a + b
        BY <3>4, <3>5
      <4>2. /\ yielded' = Append(yielded, SubSeq(p, w[1],
                 IF w[1] + BatchSize - 1 < Len(p) THEN w[1] + BatchSize - 1 ELSE Len(p)))
            /\ walk' = SubSeq(w, BatchSize + 1, Len(w))
        BY <1>4, <1>6, <2>1 DEF NextSlice, Pool
      <4>3. (IF w[1] + BatchSize - 1 < Len(p) THEN w[1] + BatchSize - 1 ELSE Len(p)) = end
        BY <3>3, <3>6, <4>1
      <4>. QED
        BY <3>4, <3>5, <4>2, <4>3
    <3>9. PICK slice \in Seq(InSpace) : slice = SubSeq(p, a + 1, end) /\ IsPart(slice, p, a, end)
      BY <3>3, <3>7, PartIs
    <3>10. PICK rest \in Seq(Nat) : rest = SubSeq(w, b + 1, k) /\ IsPart(rest, w, b, k)
      <4>1. k <= Len(w)
        BY <3>5
      <4>. QED
        BY <4>1, PartIs
    <3>11. /\ IsEnd(end, Len(d), Len(p)) /\ IsPart(slice, p, Len(d), end)
           /\ IsPart(rest, w, BatchSize, Len(w))
      BY <3>2, <3>3, <3>4, <3>5, <3>7, <3>9, <3>10
    <3>12. /\ Len(slice) \in 1 .. BatchSize
           /\ rest # <<>> => Len(slice) = BatchSize
           /\ Sliced(d \o slice, rest, p, n)
      BY <1>7, <3>1, <3>5, <3>11, SliceTaken
    <3>. QED
      BY <3>1, <3>8, <3>9, <3>10, <3>12
  <2>2. CASE NextSelection
    <3>1. Selected(d, w, p, n) /\ sampler.random
      BY <1>4, <1>5, <1>6, <1>7, <1>8, <2>2 DEF NextSelection, SlicesInv
    <3>2. PICK k \in Nat \ {0} : k = Len(w)
      <4>1. w # <<>>
        BY <1>1, <1>6
      <4>. QED
        BY <4>1
    <3>3. PICK b \in Nat \ {0} : b = BatchSize
      BY SamplingAssumption
    <3>4. PICK size \in 1 .. k : size = (IF b < k THEN b ELSE k) /\ size \in 1 .. b
      OBVIOUS
    <3>5. PICK selection \in [1 .. size -> ToSet(w)] :
            /\ IsInjective(selection)
            /\ yielded' = Append(yielded, [i \in 1 .. size |-> p[selection[i]]])
            /\ walk' = Keep(w, {i \in DOMAIN w : w[i] \notin ToSet(selection)})
      BY <1>4, <1>6, <2>2, <3>2, <3>3, <3>4 DEF NextSelection, Pool
    <3>6. PICK slice, rest : /\ slice = [i \in 1 .. size |-> p[selection[i]]]
                             /\ rest = Keep(w, {i \in DOMAIN w : w[i] \notin ToSet(selection)})
      OBVIOUS
    <3>7. IsSelection(slice, rest, p, w, selection)
      <4>1. DOMAIN selection = 1 .. size
        OBVIOUS
      <4>. QED
        BY <3>6, <4>1 DEF IsSelection
    <3>8. /\ slice \in Seq(InSpace) /\ Len(slice) = size /\ rest \in Seq(Nat)
          /\ size = Len(w) => rest = <<>>
          /\ Selected(d \o slice, rest, p, n)
      <4>1. size \in 1 .. Len(w)
        BY <3>2
      <4>2. IsInjective(selection) /\ selection \in [1 .. size -> ToSet(w)]
        BY <3>5
      <4>3. IsInjective(p) /\ n <= Len(p) /\ Selected(d, w, p, n)
        BY <1>4, <1>7, <3>1
      <4>. QED
        BY <3>7, <4>1, <4>2, <4>3, SelectionTaken
    <3>9. rest # <<>> => size = b
      BY <3>2, <3>4, <3>8
    <3>. QED
      BY <3>1, <3>3, <3>4, <3>5, <3>6, <3>8, <3>9
  <2>. QED
    BY <2>1, <2>2
<1>10. PICK y \in Seq(Seq(InSpace)) : y = yielded
  BY DEF SpaceInv
<1>11. Sampled' = d \o slice
  BY <1>5, <1>9, <1>10, FlattenAppend DEF Sampled
<1>12. Full(y)
  BY <1>1, <1>8, <1>10 DEF SlicesInv
<1>13. Cut(yielded') /\ (walk' # <<>> => Full(yielded'))
  BY <1>9, <1>10, <1>12, BatchAppended
<1>14. SlicesInv'
  BY <1>1, <1>3, <1>4, <1>7, <1>8, <1>9, <1>11, <1>13 DEF SlicesInv
<1>15. ~ByGroups' /\ phase' = "sampling"
  BY <1>1 DEF BySlices, ByGroups
<1>16. /\ space' \in EntitySpaces /\ IsInjective(store')
       /\ sampler' \in Samplers /\ number' \in Nat /\ number' <= Len(Pool')
  BY <1>1, <1>3 DEF OnceInv
<1>. QED
  BY <1>14, <1>15, <1>16 DEF OnceInv

\* A group is fetched when the last one has been drawn.
LEMMA GroupFetched ==
  ASSUME SpaceInv, OnceInv, FetchGroup
  PROVE  OnceInv'
<1>1. /\ ByGroups /\ phase = "sampling" /\ sample = <<>>
      /\ UNCHANGED <<space, experiments, phase, store, sampler, number, batch, yielded>>
  BY DEF FetchGroup, ByGroups
<1>2. /\ \A entities : MatchingEntities(entities)' = MatchingEntities(entities)
      /\ SequentialPoints' = SequentialPoints
  BY <1>1, SpaceStays
<1>3. Pool' = Pool
  BY <1>1, <1>2 DEF Pool
<1>4. GroupsInv
  BY <1>1 DEF OnceInv
<1>5. PICK g \in Seq(Seq(InSpace)) : g = walk
  BY <1>1 DEF SpaceInv
<1>6. PICK i \in 1 .. Len(g) : sample' = g[i] /\ walk' = RemoveAt(g, i)
  <2>1. PICK i \in DOMAIN g : sample' = g[i] /\ walk' = RemoveAt(g, i)
    BY <1>5 DEF FetchGroup
  <2>. QED
    BY <2>1
<1>7. PICK d \in Seq(InSpace) : d = Sampled \o batch
  BY DrawnIs
<1>8. Drawn = d
  <2>1. Drawn = d \o sample
    BY <1>7 DEF Drawn
  <2>2. d \o <<>> = d
    OBVIOUS
  <2>. QED
    BY <1>1, <2>1, <2>2
<1>9. Drawn' = d \o g[i]
  BY <1>1, <1>6, <1>7 DEF Drawn, Sampled
<1>10. Due' = Due
  BY <1>1, <1>2, <1>3 DEF Due
<1>11. PICK due : due = Due
  OBVIOUS
<1>12. Covers(d, g, due)
  BY <1>4, <1>5, <1>8, <1>11 DEF GroupsInv
<1>13. /\ Covers(d \o g[i], RemoveAt(g, i), due)
       /\ Separate(d, g) => Separate(d \o g[i], RemoveAt(g, i))
  BY <1>12, GroupDrawn
<1>14. GroupsInv'
  BY <1>1, <1>4, <1>5, <1>6, <1>8, <1>9, <1>10, <1>11, <1>13 DEF GroupsInv
<1>15. ~BySlices' /\ phase' = "sampling"
  BY <1>1 DEF BySlices, ByGroups
<1>16. /\ space' \in EntitySpaces /\ IsInjective(store')
       /\ sampler' \in Samplers /\ number' \in Nat /\ number' <= Len(Pool')
  BY <1>1, <1>3 DEF OnceInv
<1>. QED
  BY <1>14, <1>15, <1>16 DEF OnceInv

\* A member of a sample is put in the batch, or a full batch is yielded.
LEMMA MemberDrawn ==
  ASSUME SpaceInv, OnceInv, Draw \/ Yield
  PROVE  OnceInv'
<1>1. /\ ByGroups /\ phase = "sampling"
      /\ UNCHANGED <<space, experiments, phase, store, sampler, number, walk>>
  BY DEF Draw, Yield, ByGroups
<1>2. /\ \A entities : MatchingEntities(entities)' = MatchingEntities(entities)
      /\ SequentialPoints' = SequentialPoints
  BY <1>1, SpaceStays
<1>3. Pool' = Pool
  BY <1>1, <1>2 DEF Pool
<1>4. GroupsInv
  BY <1>1 DEF OnceInv
<1>5. PICK s, b, r \in Seq(InSpace) : s = Sampled /\ b = batch /\ r = sample
  BY DrawnIs DEF SpaceInv
<1>6. PICK y \in Seq(Seq(InSpace)) : y = yielded
  BY DEF SpaceInv
<1>7. PICK l \in Nat : l = Len(b)
  OBVIOUS
<1>8. PICK size \in Nat \ {0} : size = BatchSize
  BY SamplingAssumption
<1>9. Drawn' = Drawn /\ Full(yielded') /\ Len(batch') <= BatchSize
  <2>1. CASE Draw
    <3>1. r # <<>> /\ l < size
      BY <1>5, <1>7, <1>8, <2>1 DEF Draw
    <3>2. batch' = Append(b, Head(r)) /\ sample' = Tail(r) /\ yielded' = y
      BY <1>5, <1>6, <2>1 DEF Draw
    <3>3. PICK h \in InSpace : h = Head(r)
      BY <3>1, HeadFirst
    <3>4. SameDrawn(s, b, r)
      BY <3>1, OneDrawn
    <3>5. Drawn' = s \o Append(b, Head(r)) \o Tail(r)
      BY <1>5, <1>6, <3>2 DEF Drawn, Sampled
    <3>6. Len(Append(b, h)) = l + 1
      BY <1>7
    <3>7. Full(yielded')
      BY <1>4, <1>6, <3>2 DEF GroupsInv
    <3>8. Len(batch') <= BatchSize
      BY <1>8, <3>1, <3>2, <3>3, <3>6
    <3>. QED
      BY <1>5, <3>4, <3>5, <3>7, <3>8 DEF Drawn, SameDrawn
  <2>2. CASE Yield
    <3>1. /\ Len(b) = BatchSize /\ yielded' = Append(y, b)
          /\ batch' = <<>> /\ sample' = r
      BY <1>5, <1>6, <2>2 DEF Yield
    <3>2. Sampled' = s \o b
      BY <1>5, <1>6, <3>1, FlattenAppend DEF Sampled
    <3>3. s \o b \in Seq(InSpace)
      BY ConcatProperties
    <3>4. (s \o b) \o <<>> = s \o b
      BY <3>3, ConcatEmptySeq
    <3>5. Drawn' = Drawn
      BY <1>5, <3>1, <3>2, <3>4 DEF Drawn
    <3>6. Full(yielded')
      BY <1>4, <1>6, <3>1, BatchAppended DEF GroupsInv
    <3>7. Len(<<>>) = 0
      OBVIOUS
    <3>. QED
      BY <1>8, <3>1, <3>5, <3>6, <3>7
  <2>. QED
    BY <2>1, <2>2
<1>10. Due' = Due
  BY <1>1, <1>2, <1>3 DEF Due
<1>11. GroupsInv'
  BY <1>1, <1>4, <1>9, <1>10 DEF GroupsInv
<1>12. ~BySlices' /\ phase' = "sampling"
  BY <1>1 DEF BySlices, ByGroups
<1>13. /\ space' \in EntitySpaces /\ IsInjective(store')
       /\ sampler' \in Samplers /\ number' \in Nat /\ number' <= Len(Pool')
  BY <1>1, <1>3 DEF OnceInv
<1>. QED
  BY <1>11, <1>12, <1>13 DEF OnceInv

\* When nothing is left, all that was due has been sampled.
LEMMA WalkEnded ==
  ASSUME SpaceInv, OnceInv, LastBatch
  PROVE  OnceInv'
<1>1. /\ phase = "sampling" /\ walk = <<>> /\ sample = <<>> /\ Len(batch) < BatchSize
      /\ yielded' = (IF batch = <<>> THEN yielded ELSE Append(yielded, batch))
      /\ phase' = "done"
      /\ UNCHANGED <<space, experiments, store, sampler, number>>
  BY DEF LastBatch
<1>2. /\ \A entities : MatchingEntities(entities)' = MatchingEntities(entities)
      /\ SequentialPoints' = SequentialPoints
  BY <1>1, SpaceStays
<1>3. Pool' = Pool
  BY <1>1, <1>2 DEF Pool
<1>4. PICK p \in Seq(InSpace) : p = Pool /\ IsInjective(p)
  BY PoolIs
<1>5. PICK s, b \in Seq(InSpace) : s = Sampled /\ b = batch
  BY DrawnIs DEF SpaceInv
<1>6. PICK y \in Seq(Seq(InSpace)) : y = yielded
  BY DEF SpaceInv
<1>7. PICK n \in Nat : n = number /\ n <= Len(p) /\ sampler \in Samplers
  BY <1>1, <1>4 DEF OnceInv
<1>8. PICK x \in Seq(InSpace) : x = s \o b
  <2>1. s \o b \in Seq(InSpace)
    BY ConcatProperties
  <2>. QED
    BY <2>1
<1>9. Sampled' = x
  <2>1. CASE b = <<>>
    <3>1. s \o <<>> = s
      BY ConcatEmptySeq
    <3>2. x = s
      BY <1>8, <2>1, <3>1
    <3>. QED
      BY <1>1, <1>5, <2>1, <3>2 DEF Sampled
  <2>2. CASE b # <<>>
    BY <1>1, <1>5, <1>6, <1>8, <2>2, FlattenAppend DEF Sampled
  <2>. QED
    BY <2>1, <2>2
<1>10. CASE BySlices
  <2>1. SlicesInv /\ sampler.source # "grid" /\ ~sampler.grouped
    BY <1>10 DEF OnceInv, BySlices
  <2>2. b = <<>> /\ yielded' = yielded
    BY <1>1, <1>5, <2>1 DEF SlicesInv
  <2>3. x = s
    <3>1. s \o <<>> = s
      BY ConcatEmptySeq
    <3>. QED
      BY <1>8, <2>2, <3>1
  <2>4. PICK w : w = <<>>
    OBVIOUS
  <2>5. /\ IsInjective(s) /\ Len(s) < n + BatchSize
        /\ ToSet(SubSeq(p, 1, n)) \subseteq ToSet(s)
    <3>1. CASE sampler.random
      <4>1. Selected(s, w, p, n)
        BY <1>1, <1>4, <1>5, <1>7, <2>1, <2>4, <3>1 DEF SlicesInv
      <4>2. {p[w[i]] : i \in DOMAIN w} = {}
        BY <2>4
      <4>3. IsInjective(s) /\ ToSet(s) = {p[i] : i \in 1 .. n}
        BY <4>1, <4>2 DEF Selected
      <4>. QED
        BY <1>7, <4>3, CoveredOnce
    <3>2. CASE ~sampler.random
      <4>1. Sliced(s, w, p, n)
        BY <1>1, <1>4, <1>5, <1>7, <2>1, <2>4, <3>2 DEF SlicesInv
      <4>. QED
        BY <1>4, <1>7, <2>4, <4>1, SlicedOnce
    <3>. QED
      BY <3>1, <3>2
  <2>6. Cut(yielded')
    BY <2>1, <2>2 DEF SlicesInv
  <2>7. EverythingOnce'
    BY <1>1, <1>3, <1>4, <1>7, <1>9, <2>1, <2>3, <2>5, <2>6 DEF EverythingOnce, Cut, Pool
  <2>8. GroupsTogether'
    BY <1>1, <2>1 DEF GroupsTogether
  <2>9. ~BySlices' /\ ~ByGroups' /\ space' \in EntitySpaces /\ IsInjective(store')
    BY <1>1 DEF BySlices, ByGroups, OnceInv
  <2>. QED
    BY <1>1, <2>7, <2>8, <2>9 DEF OnceInv, SampledOnceInGroups
<1>11. CASE ByGroups
  <2>1. GroupsInv
    BY <1>11 DEF OnceInv
  <2>2. Drawn = x
    <3>1. Drawn = x \o <<>>
      BY <1>1, <1>5, <1>8 DEF Drawn
    <3>2. x \o <<>> = x
      BY ConcatEmptySeq
    <3>. QED
      BY <3>1, <3>2
  <2>3. PICK w : w = <<>> /\ w = walk
    BY <1>1
  <2>4. IsInjective(x) /\ ToSet(x) = Due
    <3>1. Covers(x, w, Due)
      BY <2>1, <2>2, <2>3 DEF GroupsInv
    <3>2. UNION {ToSet(w[i]) : i \in DOMAIN w} = {}
      BY <2>3
    <3>. QED
      BY <3>1, <3>2 DEF Covers
  <2>5. sampler.grouped => Together(x)
    BY <2>1, <2>2 DEF GroupsInv, Separate
  <2>6. Cut(yielded')
    <3>1. Full(y)
      BY <1>6, <2>1 DEF GroupsInv
    <3>2. Cut(y) /\ (Len(b) \in 1 .. BatchSize => Cut(Append(y, b)))
      BY <3>1, BatchAppended
    <3>3. CASE b = <<>>
      BY <1>1, <1>5, <1>6, <3>2, <3>3
    <3>4. CASE b # <<>>
      <4>1. PICK l \in Nat : l = Len(b) /\ l < BatchSize
        BY <1>1, <1>5
      <4>2. l # 0
        BY <3>4, <4>1
      <4>3. l \in 1 .. BatchSize
        BY <4>1, <4>2, SamplingAssumption
      <4>. QED
        BY <1>1, <1>5, <1>6, <3>2, <3>4, <4>1, <4>3
    <3>. QED
      BY <3>3, <3>4
  <2>7. EverythingOnce'
    <3>1. CASE sampler.source = "grid"
      <4>1. ToSet(x) = ToSet(SequentialPoints)
        BY <2>4, <3>1 DEF Due
      <4>. QED
        BY <1>1, <1>2, <1>9, <2>4, <2>6, <3>1, <4>1 DEF EverythingOnce, Cut
    <3>2. CASE sampler.source # "grid"
      <4>1. ToSet(x) = {p[i] : i \in 1 .. n}
        BY <1>4, <1>7, <2>4, <3>2 DEF Due
      <4>2. ToSet(SubSeq(p, 1, n)) \subseteq ToSet(x) /\ Len(x) < n + BatchSize
        BY <1>7, <2>4, <4>1, CoveredOnce
      <4>. QED
        BY <1>1, <1>3, <1>4, <1>7, <1>9, <2>4, <2>6, <3>2, <4>2 DEF EverythingOnce, Cut, Pool
    <3>. QED
      BY <3>1, <3>2
  <2>8. GroupsTogether'
    BY <1>1, <1>9, <2>5 DEF GroupsTogether, Together
  <2>9. ~BySlices' /\ ~ByGroups' /\ space' \in EntitySpaces /\ IsInjective(store')
    BY <1>1 DEF BySlices, ByGroups, OnceInv
  <2>. QED
    BY <1>1, <2>7, <2>8, <2>9 DEF OnceInv, SampledOnceInGroups
<1>. QED
  BY <1>1, <1>10, <1>11 DEF BySlices, ByGroups

\* Every step preserves the invariant.
LEMMA OnceInvNext ==
  ASSUME WithoutRepetition(EntitySpaces), SpaceInv, OnceInv, [SpaceNext]_spaceVars
  PROVE  OnceInv'
<1>1. CASE Create
  <2>1. /\ phase = "configured" /\ phase' \in {"created", "refused"}
        /\ UNCHANGED <<space, store, sample, batch, yielded>>
    BY <1>1 DEF Create
  <2>2. ~BySlices' /\ ~ByGroups'
    BY <2>1 DEF BySlices, ByGroups
  <2>. QED
    BY <2>1, <2>2 DEF OnceInv
<1>2. CASE UNCHANGED spaceVars
  <2>1. /\ UNCHANGED <<space, experiments, phase, store, sampler, number>>
        /\ UNCHANGED <<walk, sample, batch, yielded>>
    BY <1>2 DEF spaceVars
  <2>2. Pool' = Pool /\ SequentialPoints' = SequentialPoints
    BY <2>1, SpaceStays DEF Pool
  <2>3. Sampled' = Sampled /\ Drawn' = Drawn /\ Due' = Due
    BY <2>1, <2>2 DEF Sampled, Drawn, Due
  <2>4. (BySlices' <=> BySlices) /\ (ByGroups' <=> ByGroups)
    BY <2>1 DEF BySlices, ByGroups
  <2>5. (SlicesInv' <=> SlicesInv) /\ (GroupsInv' <=> GroupsInv)
    BY <2>1, <2>2, <2>3 DEF SlicesInv, GroupsInv
  <2>6. SampledOnceInGroups' <=> SampledOnceInGroups
    BY <2>1, <2>2, <2>3 DEF SampledOnceInGroups, EverythingOnce, GroupsTogether, Pool
  <2>. QED
    BY <2>1, <2>2, <2>4, <2>5, <2>6 DEF OnceInv
<1>. QED
  BY <1>1, <1>2, EntityAdded, SamplingStarted, SlicesTaken, GroupFetched, MemberDrawn, WalkEnded
     DEF SpaceNext

(***************************************************************************)
(* For any entity spaces whose domains give no value twice, and any stores *)
(* that grow meanwhile: every sampler yields each entity that is due once, *)
(* in batches of which only the last is short, and grouped samplers keep   *)
(* the entities of a group together.                                       *)
(***************************************************************************)
THEOREM SampledOnceCorrect == WithoutRepetition(EntitySpaces) => (SpaceSpec => []SampledOnceInGroups)
<1>. SUFFICES ASSUME WithoutRepetition(EntitySpaces)
              PROVE  SpaceSpec => []SampledOnceInGroups
  OBVIOUS
<1>1. SpaceInv /\ OnceInv /\ [SpaceNext]_spaceVars => OnceInv'
  BY OnceInvNext
<1>2. SpaceInv /\ OnceInv => SampledOnceInGroups
  BY OnceHolds
<1>. QED
  BY <1>1, <1>2, SpaceInvInit, SpaceInvNext, OnceInvInit, PTL DEF SpaceSpec

-----------------------------------------------------------------------------
(* The points of a space, in whatever order its dimensions are.            *)

\* Joined together, sequences have the members they had.
LEMMA FlattenRange ==
  ASSUME NEW S, NEW seqs \in Seq(Seq(S))
  PROVE  ToSet(FlattenSeq(seqs)) = UNION {ToSet(seqs[i]) : i \in 1 .. Len(seqs)}
<1>1. PICK f : IsFlattened(f, seqs, S) /\ FlattenSeq(seqs) = f[Len(seqs)]
  BY FlattenIs
<1>2. PICK n \in Nat : n = Len(seqs)
  OBVIOUS
<1>. DEFINE P == {k \in 0 .. n : ToSet(f[k]) = UNION {ToSet(seqs[i]) : i \in 1 .. k}}
<1>3. 0 \in P
  <2>1. f[0] = <<>>
    BY <1>1 DEF IsFlattened
  <2>2. ToSet(<<>>) = {}
    BY DEF ToSet
  <2>. QED
    BY <1>2, <2>1, <2>2
<1>4. ASSUME NEW k \in 1 .. n, k - 1 \in P
      PROVE  k \in P
  <2>1. k - 1 \in 0 .. n /\ k \in 0 .. n /\ 1 .. k = (1 .. k - 1) \cup {k}
    BY <1>2
  <2>2. f[k] = f[k - 1] \o seqs[k]
    BY <1>1, <1>2 DEF IsFlattened
  <2>3. f[k - 1] \in Seq(S)
    BY <1>1, <1>2, <2>1 DEF IsFlattened
  <2>4. seqs[k] \in Seq(S)
    <3>1. PICK X : X = Seq(S)
      OBVIOUS
    <3>2. seqs \in Seq(X)
      BY <3>1
    <3>3. seqs[k] \in X
      BY <1>2, <3>2
    <3>. QED
      BY <3>1, <3>3
  <2>5. ToSet(f[k]) = ToSet(f[k - 1]) \cup ToSet(seqs[k])
    BY <2>2, <2>3, <2>4, JoinedRange
  <2>6. ToSet(f[k - 1]) = UNION {ToSet(seqs[i]) : i \in 1 .. k - 1}
    BY <1>4
  <2>7. ToSet(f[k]) = UNION {ToSet(seqs[i]) : i \in 1 .. k}
    BY <2>1, <2>5, <2>6
  <2>. QED
    BY <2>1, <2>7
<1>5. 0 .. n \subseteq P
  <2>. HIDE DEF P
  <2>. QED
    BY <1>2, <1>3, <1>4, UpTo
<1>6. n \in P
  <2>. HIDE DEF P
  <2>. QED
    BY <1>2, <1>5
<1>. QED
  BY <1>1, <1>2, <1>6

\* Every point is given every value.
LEMMA WithValuesRange ==
  ASSUME NEW S, NEW name, NEW points \in Seq(S), NEW values \in Seq(Int)
  PROVE  \A x : x \in ToSet(WithValues(points, name, values)) <=>
                \E p \in ToSet(points), v \in ToSet(values) : x = WithValue(p, name, v)
<1>. DEFINE Row(i) == [j \in DOMAIN values |-> WithValue(points[i], name, values[j])]
            T == UNION {ToSet(Row(i)) : i \in DOMAIN points}
            rows == [i \in DOMAIN points |-> Row(i)]
<1>1. PICK n \in Nat : n = Len(points) /\ DOMAIN points = 1 .. n
  OBVIOUS
<1>2. PICK m \in Nat : m = Len(values) /\ DOMAIN values = 1 .. m
  OBVIOUS
<1>3. ASSUME NEW i \in 1 .. n
      PROVE  Row(i) \in Seq(T)
  <2>1. \A j \in 1 .. m : Row(i)[j] = WithValue(points[i], name, values[j]) /\ Row(i)[j] \in ToSet(Row(i))
    BY <1>2 DEF ToSet
  <2>2. \A j \in 1 .. m : WithValue(points[i], name, values[j]) \in T
    <3>. HIDE DEF Row
    <3>. QED
      BY <1>1, <2>1
  <2>. HIDE DEF T
  <2>3. Row(i) \in [1 .. m -> T]
    BY <1>2, <2>2
  <2>. QED
    BY <2>3
<1>4. rows \in Seq(Seq(T)) /\ Len(rows) = n
  <2>1. PICK X : X = Seq(T)
    OBVIOUS
  <2>. HIDE DEF T, Row
  <2>2. rows \in [1 .. n -> X]
    BY <1>1, <1>3, <2>1
  <2>3. rows \in Seq(X) /\ Len(rows) = n
    BY <2>2
  <2>. QED
    BY <2>1, <2>3
<1>5. ToSet(FlattenSeq(rows)) = UNION {ToSet(rows[i]) : i \in 1 .. n}
  <2>. HIDE DEF T, rows
  <2>. QED
    BY <1>4, FlattenRange
<1>6. \A i \in 1 .. n : \A x :
        x \in ToSet(rows[i]) <=> \E j \in 1 .. m : x = WithValue(points[i], name, values[j])
  BY <1>1, <1>2 DEF ToSet
<1>7. WithValues(points, name, values) = FlattenSeq(rows)
  BY DEF WithValues
<1>. HIDE DEF rows
<1>8. PICK all : all = ToSet(FlattenSeq(rows))
  OBVIOUS
<1>9. ASSUME NEW p \in ToSet(points), NEW v \in ToSet(values)
      PROVE  WithValue(p, name, v) \in all
  <2>1. PICK i \in 1 .. n : p = points[i]
    BY <1>1 DEF ToSet
  <2>2. PICK j \in 1 .. m : v = values[j]
    BY <1>2 DEF ToSet
  <2>3. WithValue(p, name, v) \in ToSet(rows[i])
    BY <1>6, <2>1, <2>2
  <2>. QED
    BY <1>5, <1>8, <2>3
<1>10. ASSUME NEW x \in all
       PROVE  \E p \in ToSet(points), v \in ToSet(values) : x = WithValue(p, name, v)
  <2>1. PICK i \in 1 .. n : x \in ToSet(rows[i])
    BY <1>5, <1>8
  <2>2. PICK j \in 1 .. m : x = WithValue(points[i], name, values[j])
    BY <1>6, <2>1
  <2>3. points[i] \in ToSet(points) /\ values[j] \in ToSet(values)
    BY <1>1, <1>2 DEF ToSet
  <2>. QED
    BY <2>2, <2>3
<1>. QED
  BY <1>7, <1>8, <1>9, <1>10

\* A grid has all the points that can be made of the values of its dimensions.
AllPoints(names) ==
  {p \in [names -> Int] : \A n \in names : p[n] \in ValueSet(DomainOf(n))}

Extended(more, names, name, values) ==
  \A x : x \in AllPoints(more) <=>
           \E p \in AllPoints(names), v \in values : x = WithValue(p, name, v)

\* One more name, with any of its values.
LEMMA OneMoreName ==
  ASSUME NEW names, NEW name, NEW more, more = names \cup {name},
         NEW values, values = ValueSet(DomainOf(name)), values \subseteq Int
  PROVE  Extended(more, names, name, values)
<1>1. ASSUME NEW p \in AllPoints(names), NEW v \in values
      PROVE  WithValue(p, name, v) \in AllPoints(more)
  <2>1. p \in [names -> Int]
    BY DEF AllPoints
  <2>2. WithValue(p, name, v) = [n \in names \cup {name} |-> IF n = name THEN v ELSE p[n]]
    BY <2>1 DEF WithValue
  <2>3. WithValue(p, name, v) \in [names \cup {name} -> Int]
    BY <2>1, <2>2
  <2>. QED
    BY <2>2, <2>3 DEF AllPoints
<1>2. ASSUME NEW q \in AllPoints(more)
      PROVE  \E p \in AllPoints(names), v \in values : q = WithValue(p, name, v)
  <2>. DEFINE p == [n \in names |-> q[n]]
  <2>1. q \in [names \cup {name} -> Int] /\ q[name] \in values
    BY DEF AllPoints
  <2>2. p \in AllPoints(names)
    BY <2>1 DEF AllPoints
  <2>3. WithValue(p, name, q[name]) =
          [n \in names \cup {name} |-> IF n = name THEN q[name] ELSE p[n]]
    BY DEF WithValue
  <2>4. q = [n \in names \cup {name} |-> q[n]]
    BY <2>1
  <2>5. WithValue(p, name, q[name]) = q
    BY <2>3, <2>4
  <2>. QED
    BY <2>1, <2>2, <2>5
<1>. QED
  BY <1>1, <1>2 DEF Extended

\* The grid of the dimensions has all of their points.
LEMMA GridRange ==
  ASSUME SpaceTyped, \A n \in Names : HasValues(DomainOf(n)),
         NEW dims \in Dimensions, FirstNames(dims, Len(dims)) = Names
  PROVE  ToSet(PointsOf(dims)) = AllPoints(Names)
<1>1. PICK f : IsGrid(f, dims) /\ PointsOf(dims) = f[Len(dims)]
  BY GridIs
<1>2. PICK n \in Nat : n = Len(dims) /\ \A k \in 1 .. n : dims[k].name \in Names
  BY DimensionFields
<1>. DEFINE P == {k \in 0 .. n : ToSet(f[k]) = AllPoints(FirstNames(dims, k))}
<1>3. 0 \in P
  <2>1. f[0] = <<<<>>>>
    BY <1>1 DEF IsGrid
  <2>2. ToSet(<<<<>>>>) = {<<>>}
    BY DEF ToSet
  <2>3. FirstNames(dims, 0) = {}
    BY DEF FirstNames
  <2>4. AllPoints({}) = {<<>>}
    <3>1. <<>> \in [{} -> Int]
      OBVIOUS
    <3>2. ASSUME NEW p \in [{} -> Int]
          PROVE  p = <<>>
      <4>1. p \in [1 .. 0 -> Int]
        OBVIOUS
      <4>2. p \in Seq(Int) /\ Len(p) = 0
        BY <4>1
      <4>. QED
        BY <4>2
    <3>. QED
      BY <3>1, <3>2 DEF AllPoints
  <2>. QED
    <3>1. ToSet(f[0]) = AllPoints(FirstNames(dims, 0))
      BY <2>1, <2>2, <2>3, <2>4, Zenon
    <3>2. 0 \in 0 .. n
      BY <1>2
    <3>. QED
      BY <3>1, <3>2
<1>4. ASSUME NEW k \in 1 .. n, k - 1 \in P
      PROVE  k \in P
  <2>1. k - 1 \in 0 .. n /\ k \in 0 .. n /\ 1 .. k = (1 .. k - 1) \cup {k}
    BY <1>2
  <2>2. PICK name \in Names : name = dims[k].name
    BY <1>2
  <2>3. PICK values \in Seq(Int) : values = DomainValues(DomainOf(name))
    BY DomainOfTyped, ValuesTyped
  <2>4. f[k] = WithValues(f[k - 1], name, values)
    BY <1>1, <1>2, <2>2, <2>3 DEF IsGrid
  <2>5. f[k - 1] \in Seq(FirstPoints(dims, k - 1))
    BY <1>1, <1>2, <2>1 DEF IsGrid
  <2>6. PICK before \in Seq(FirstPoints(dims, k - 1)) : before = f[k - 1]
    BY <2>5
  <2>10. \A x : x \in ToSet(f[k]) <=>
                 \E p \in ToSet(before), v \in ToSet(values) : x = WithValue(p, name, v)
    BY <2>4, <2>6, WithValuesRange
  <2>7. ToSet(values) \in SUBSET Int /\ ToSet(values) = ValueSet(DomainOf(name))
    BY <2>3 DEF ToSet, ValueSet
  <2>8. FirstNames(dims, k) = FirstNames(dims, k - 1) \cup {name}
    BY <2>1, <2>2 DEF FirstNames
  <2>9. ToSet(f[k - 1]) = AllPoints(FirstNames(dims, k - 1))
    BY <1>4
  <2>11. ToSet(f[k]) = AllPoints(FirstNames(dims, k))
    <3>1. \A x : x \in AllPoints(FirstNames(dims, k)) <=>
                   \E p \in ToSet(before), v \in ToSet(values) : x = WithValue(p, name, v)
      <4>1. PICK D : D = ToSet(values) /\ D = ValueSet(DomainOf(name)) /\ D \subseteq Int
        BY <2>7
      <4>2. PICK names : names = FirstNames(dims, k - 1)
        OBVIOUS
      <4>3. PICK more : more = FirstNames(dims, k) /\ more = names \cup {name}
        BY <2>8, <4>2
      <4>4. Extended(more, names, name, D)
        BY <4>1, <4>3, OneMoreName
      <4>. QED
        BY <2>6, <2>9, <4>1, <4>2, <4>3, <4>4 DEF Extended
    <3>. QED
      BY <2>10, <3>1
  <2>. QED
    BY <2>1, <2>11
<1>5. 0 .. n \subseteq P
  <2>. HIDE DEF P
  <2>. QED
    BY <1>2, <1>3, <1>4, UpTo
<1>6. n \in P
  <2>. HIDE DEF P
  <2>. QED
    BY <1>2, <1>5
<1>. QED
  BY <1>1, <1>2, <1>6

-----------------------------------------------------------------------------
(* The order in which the sampler of TRIM takes the points.                *)

\* a/b is at most c/d.
AtMost(a, b, c, d) == a * d <= c * b

\* Fractions are ordered.
LEMMA AtMostTransitive ==
  ASSUME NEW a \in Nat, NEW b \in Nat \ {0}, NEW c \in Nat, NEW d \in Nat \ {0},
         NEW e \in Nat, NEW f \in Nat \ {0}, AtMost(a, b, c, d), AtMost(c, d, e, f)
  PROVE  AtMost(a, b, e, f)
<1>1. \A x, y, z \in Nat : x <= y => x * z <= y * z
  OBVIOUS
<1>2. \A x, y \in Nat, z \in Nat \ {0} : x * z <= y * z => x <= y
  OBVIOUS
<1>3. /\ a * d \in Nat /\ c * b \in Nat /\ c * f \in Nat /\ e * d \in Nat
      /\ a * f \in Nat /\ e * b \in Nat
  OBVIOUS
<1>4. (a * d) * f <= (c * b) * f
  BY <1>1, <1>3 DEF AtMost
<1>5. (c * f) * b <= (e * d) * b
  BY <1>1, <1>3 DEF AtMost
<1>6. /\ (a * d) * f = (a * f) * d /\ (c * b) * f = (c * f) * b
      /\ (e * d) * b = (e * b) * d
  OBVIOUS
<1>7. (a * f) * d <= (e * b) * d
  <2>1. (a * f) * d \in Nat /\ (c * f) * b \in Nat /\ (e * b) * d \in Nat
    OBVIOUS
  <2>2. (a * f) * d <= (c * f) * b /\ (c * f) * b <= (e * b) * d
    BY <1>4, <1>5, <1>6
  <2>3. \A x, y, z \in Nat : x <= y /\ y <= z => x <= z
    OBVIOUS
  <2>. QED
    BY <2>1, <2>2, <2>3
<1>8. a * f <= e * b
  BY <1>2, <1>3, <1>7
<1>. QED
  BY <1>8 DEF AtMost

\* Of finitely many fractions one is the least.
LEMMA LeastFraction ==
  ASSUME NEW n \in Nat, NEW T \in [0 .. n - 1 -> Nat], NEW D \in [0 .. n - 1 -> Nat \ {0}],
         NEW S \in SUBSET (0 .. n - 1), S # {}
  PROVE  \E i \in S : \A j \in S : AtMost(T[i], D[i], T[j], D[j])
<1>. DEFINE Least(m, i) == \A j \in S \cap 0 .. m - 1 : AtMost(T[i], D[i], T[j], D[j])
            P == {m \in 0 .. n : S \cap 0 .. m - 1 = {} \/ \E i \in S \cap 0 .. m - 1 : Least(m, i)}
<1>1. 0 \in P
  OBVIOUS
<1>2. ASSUME NEW m \in 1 .. n, m - 1 \in P
      PROVE  m \in P
  <2>1. m \in 0 .. n /\ m - 1 \in 0 .. n - 1 /\ 0 .. m - 1 = (0 .. m - 2) \cup {m - 1}
    OBVIOUS
  <2>2. PICK last \in 0 .. n - 1 : last = m - 1
    BY <2>1
  <2>3. (0 .. m - 1) = (0 .. (m - 1) - 1) \cup {last}
    BY <2>1, <2>2
  <2>4. \A i \in S : T[i] \in Nat /\ D[i] \in Nat \ {0}
    OBVIOUS
  <2>5. CASE last \notin S
    <3>1. S \cap 0 .. m - 1 = S \cap 0 .. (m - 1) - 1
      BY <2>3, <2>5
    <3>2. CASE S \cap 0 .. (m - 1) - 1 = {}
      BY <2>1, <3>1, <3>2
    <3>3. CASE S \cap 0 .. (m - 1) - 1 # {}
      <4>1. PICK i \in S \cap 0 .. (m - 1) - 1 : Least(m - 1, i)
        BY <1>2, <3>3
      <4>2. i \in S \cap 0 .. m - 1 /\ Least(m, i)
        BY <3>1, <4>1
      <4>. QED
        BY <2>1, <4>2
    <3>. QED
      BY <3>2, <3>3
  <2>6. CASE last \in S /\ S \cap 0 .. (m - 1) - 1 = {}
    <3>1. AtMost(T[last], D[last], T[last], D[last])
      BY <2>4, <2>6 DEF AtMost
    <3>2. last \in S \cap 0 .. m - 1 /\ Least(m, last)
      BY <2>3, <2>6, <3>1
    <3>. QED
      BY <2>1, <3>2
  <2>7. CASE last \in S /\ S \cap 0 .. (m - 1) - 1 # {}
    <3>1. PICK i \in S \cap 0 .. (m - 1) - 1 : Least(m - 1, i)
      BY <1>2, <2>7
    <3>2. CASE AtMost(T[i], D[i], T[last], D[last])
      <4>1. i \in S \cap 0 .. m - 1 /\ Least(m, i)
        BY <2>3, <3>1, <3>2
      <4>. QED
        BY <2>1, <4>1
    <3>3. CASE ~AtMost(T[i], D[i], T[last], D[last])
      <4>1. AtMost(T[last], D[last], T[i], D[i])
        <5>1. T[i] * D[last] \in Nat /\ T[last] * D[i] \in Nat
          BY <2>4, <2>7, <3>1
        <5>. QED
          BY <3>3, <5>1 DEF AtMost
      <4>2. ASSUME NEW j \in S \cap 0 .. m - 1
            PROVE  AtMost(T[last], D[last], T[j], D[j])
        <5>1. CASE j = last
          BY <2>4, <2>7, <5>1 DEF AtMost
        <5>2. CASE j # last
          <6>1. AtMost(T[i], D[i], T[j], D[j])
            BY <2>3, <3>1, <5>2
          <6>. QED
            BY <2>4, <2>7, <3>1, <4>1, <6>1, AtMostTransitive
        <5>. QED
          BY <5>1, <5>2
      <4>3. last \in S \cap 0 .. m - 1 /\ Least(m, last)
        BY <2>3, <2>7, <4>2
      <4>. QED
        BY <2>1, <4>3
    <3>. QED
      BY <3>2, <3>3
  <2>. QED
    BY <2>5, <2>6, <2>7
<1>3. n \in P
  <2>. HIDE DEF P
  <2>1. 0 .. n \subseteq P
    BY <1>1, <1>2, UpTo
  <2>. QED
    BY <2>1
<1>4. S \cap 0 .. n - 1 = S
  OBVIOUS
<1>. QED
  BY <1>3, <1>4

\* Some candidates have the least dense neighbourhood.
LEMMA LeastDense ==
  ASSUME NEW length \in Nat, NEW taken \in SUBSET (0 .. length - 1), NEW d \in Nat,
         NEW S \in SUBSET (0 .. length - 1), S # {}
  PROVE  \E i \in S : \A j \in S : NotDenser(taken, length, d, i, j)
<1>. DEFINE Left(k) == IF k < d THEN 0 ELSE k - d
            Right(k) == IF k + d < length THEN k + d ELSE length - 1
            Total(k) == Cardinality({t \in taken : Left(k) <= t /\ t <= Right(k)})
            Denominator(k) == Right(k) - Left(k) + 1
            T == [k \in 0 .. length - 1 |-> Total(k)]
            D == [k \in 0 .. length - 1 |-> Denominator(k)]
<1>1. \A k \in 0 .. length - 1 : Total(k) \in Nat
  <2>1. IsFiniteSet(taken)
    <3>1. IsFiniteSet(0 .. length - 1)
      BY FS_Interval
    <3>. QED
      BY <3>1, FS_Subset
  <2>. SUFFICES ASSUME NEW k \in 0 .. length - 1
                PROVE  Total(k) \in Nat
    OBVIOUS
  <2>2. {t \in taken : Left(k) <= t /\ t <= Right(k)} \in SUBSET taken
    OBVIOUS
  <2>. QED
    BY <2>1, <2>2, FS_Subset, FS_CardinalityType
<1>2. \A k \in 0 .. length - 1 : Denominator(k) \in Nat \ {0}
  OBVIOUS
<1>3. T \in [0 .. length - 1 -> Nat] /\ D \in [0 .. length - 1 -> Nat \ {0}]
  <2>. HIDE DEF Total, Denominator
  <2>. QED
    BY <1>1, <1>2
<1>4. PICK i \in S : \A j \in S : AtMost(T[i], D[i], T[j], D[j])
  <2>. HIDE DEF T, D
  <2>. QED
    BY <1>3, LeastFraction
<1>5. ASSUME NEW j \in S
      PROVE  NotDenser(taken, length, d, i, j)
  <2>1. /\ T[i] = Total(i) /\ T[j] = Total(j)
        /\ D[i] = Denominator(i) /\ D[j] = Denominator(j)
    <3>. HIDE DEF Total, Denominator
    <3>. QED
      OBVIOUS
  <2>2. Total(i) * Denominator(j) <= Total(j) * Denominator(i)
    <3>. HIDE DEF Total, Denominator, T, D
    <3>. QED
      BY <1>4, <2>1 DEF AtMost
  <2>. QED
    BY <2>2 DEF NotDenser
<1>. QED
  BY <1>5

\* The next index is one that is free, if any is.
LEMMA NextIndexFree ==
  ASSUME NEW length \in Nat, NEW taken \in SUBSET (0 .. length - 1),
         NEW free, free = 0 .. length - 1 \ taken, free # {}
  PROVE  NextIndex(taken, length) \in free
<1>. DEFINE X == (SUBSET free) \ {{}}
            Best(x, d) == {i \in x : \A j \in x : NotDenser(taken, length, d, i, j)}
            Step(f) == [d \in 0 .. length |-> IF d = 0 THEN 0 .. length - 1 \ taken ELSE Best(f[d - 1], d)]
            candidates == CHOOSE f : f = Step(f)
            step == [d \in 1 .. length |-> [x \in X |-> Best(x, d)]]
            P == {d \in 0 .. length : candidates[d] \in X}
            last == candidates[length]
<1>1. NextIndex(taken, length) = CHOOSE i \in last : \A j \in last : i <= j
  BY DEF NextIndex
<1>2. \A d \in 1 .. length : \A x \in X : Best(x, d) \in X
  <2>. SUFFICES ASSUME NEW d \in 1 .. length, NEW x \in X
                PROVE  Best(x, d) # {}
    OBVIOUS
  <2>1. x \in SUBSET free /\ x # {}
    BY Zenon
  <2>2. x \in SUBSET (0 .. length - 1) /\ d \in Nat
    BY <2>1
  <2>3. \E i \in x : \A j \in x : NotDenser(taken, length, d, i, j)
    BY <2>1, <2>2, LeastDense
  <2>. QED
    BY <2>3
<1>3. free \in X
  BY Zenon
<1>. HIDE DEF X, Best
<1>4. PICK f : IsIteration(f, free, step, length, X)
  <2>1. Steps(step, length, X)
    BY <1>2 DEF Steps
  <2>. HIDE DEF step
  <2>. QED
    BY <1>3, <2>1, Iterated
<1>5. \A d \in 0 .. length : f[d] = IF d = 0 THEN 0 .. length - 1 \ taken ELSE Best(f[d - 1], d)
  <2>1. \A d \in 1 .. length : f[d - 1] \in X
    <3>1. \A d \in 1 .. length : d - 1 \in 0 .. length
      OBVIOUS
    <3>. QED
      BY <1>4, <3>1 DEF IsIteration
  <2>2. \A d \in 0 .. length : d = 0 \/ d \in 1 .. length
    OBVIOUS
  <2>. QED
    BY <1>4, <2>1, <2>2 DEF IsIteration
<1>6. f = Step(f)
  <2>1. f = [d \in 0 .. length |-> f[d]]
    BY <1>4 DEF IsIteration
  <2>. QED
    BY <1>5, <2>1
<1>7. candidates = Step(candidates)
  <2>. HIDE DEF Step
  <2>. QED
    BY <1>6
<1>. HIDE DEF candidates
<1>8. /\ candidates[0] = free
      /\ \A d \in 1 .. length : candidates[d] = Best(candidates[d - 1], d)
  <2>1. \A d \in 0 .. length :
          candidates[d] = IF d = 0 THEN 0 .. length - 1 \ taken ELSE Best(candidates[d - 1], d)
    BY <1>7
  <2>2. 0 \in 0 .. length /\ \A d \in 1 .. length : d \in 0 .. length /\ d # 0
    OBVIOUS
  <2>3. candidates[0] = free
    BY <2>1, <2>2
  <2>. QED
    BY <2>1, <2>2, <2>3
<1>9. 0 .. length \subseteq P
  <2>1. 0 \in P
    BY <1>3, <1>8
  <2>2. ASSUME NEW d \in 1 .. length, d - 1 \in P
        PROVE  d \in P
    BY <1>2, <1>8, <2>2
  <2>. HIDE DEF P
  <2>. QED
    BY <2>1, <2>2, UpTo
<1>10. last \in X
  BY <1>9
<1>. HIDE DEF last
<1>11. last \in SUBSET (0 .. length - 1) /\ last # {} /\ last \subseteq free
  <2>1. last \in SUBSET free /\ last # {}
    BY <1>10, Zenon DEF X
  <2>. QED
    BY <2>1
<1>12. \E i \in last : \A j \in last : i <= j
  <2>. DEFINE T == [k \in 0 .. length - 1 |-> k]
              D == [k \in 0 .. length - 1 |-> 1]
  <2>1. T \in [0 .. length - 1 -> Nat] /\ D \in [0 .. length - 1 -> Nat \ {0}]
    OBVIOUS
  <2>2. PICK i \in last : \A j \in last : AtMost(T[i], D[i], T[j], D[j])
    <3>. HIDE DEF T, D
    <3>. QED
      BY <1>11, <2>1, LeastFraction
  <2>3. ASSUME NEW j \in last
        PROVE  i <= j
    <3>1. i \in 0 .. length - 1 /\ j \in 0 .. length - 1
      BY <1>11
    <3>2. T[i] = i /\ T[j] = j /\ D[i] = 1 /\ D[j] = 1
      BY <3>1
    <3>3. i * 1 <= j * 1
      BY <2>2, <3>2 DEF AtMost
    <3>. QED
      BY <3>1, <3>3
  <2>. QED
    BY <2>3
<1>. QED
  BY <1>1, <1>11, <1>12

\* Indexes of a table, none of them twice.
Indexes(length) == {s \in Seq(0 .. length - 1) : IsInjective(s)}

\* While there are fewer of them than points, there is another one.
LEMMA OneMoreIndex ==
  ASSUME NEW length \in Nat, NEW s \in Indexes(length), Len(s) < length,
         NEW more, more = Append(s, NextIndex(ToSet(s), length))
  PROVE  more \in Indexes(length) /\ Len(more) = Len(s) + 1
<1>1. PICK n \in Nat : n = Len(s) /\ DOMAIN s = 1 .. n /\ s \in [1 .. n -> 0 .. length - 1]
  BY DEF Indexes
<1>2. PICK taken : taken = ToSet(s)
  OBVIOUS
<1>3. taken \in SUBSET (0 .. length - 1)
  BY <1>1, <1>2 DEF ToSet
<1>4. PICK free : free = 0 .. length - 1 \ taken
  OBVIOUS
<1>5. free # {}
  <2>. SUFFICES ASSUME free = {}
                PROVE  FALSE
    OBVIOUS
  <2>1. taken = 0 .. length - 1
    BY <1>3, <1>4
  <2>2. s \in Surjection(1 .. n, 0 .. length - 1)
    <3>1. \A i \in 0 .. length - 1 : \E k \in 1 .. n : s[k] = i
      BY <1>1, <1>2, <2>1 DEF ToSet
    <3>. QED
      BY <1>1, <3>1 DEF Surjection
  <2>3. ExistsSurjection(1 .. n, 0 .. length - 1)
    BY <2>2 DEF ExistsSurjection
  <2>4. Cardinality(0 .. length - 1) <= n
    BY <2>3, FS_SurjCardinalityBound
  <2>5. Cardinality(0 .. length - 1) = length
    BY FS_Interval
  <2>. QED
    BY <1>1, <2>4, <2>5
<1>6. PICK next \in free : next = NextIndex(taken, length)
  BY <1>3, <1>4, <1>5, NextIndexFree
<1>7. s \in Seq(0 .. length - 1) /\ IsInjective(s)
  BY DEF Indexes
<1>8. next \in 0 .. length - 1 /\ next \notin ToSet(s)
  BY <1>2, <1>4
<1>9. more = Append(s, next)
  BY <1>2, <1>6
<1>10. IsInjective(more)
  BY <1>7, <1>8, <1>9, AppendedInjective
<1>. QED
  BY <1>7, <1>8, <1>9, <1>10 DEF Indexes

\* The list that goes on consists of different indexes.
LEMMA FilledTyped ==
  ASSUME NEW length \in Nat, NEW total \in 0 .. length, NEW list \in Indexes(length)
  PROVE  Filled(list, length, total) \in Indexes(length)
<1>. DEFINE X == Indexes(length)
            More(x) == Append(x, NextIndex(ToSet(x), length))
            Step(f) == [k \in 0 .. total |-> IF k <= Len(list) THEN list ELSE More(f[k - 1])]
            filled == CHOOSE f : f = Step(f)
            Guarded(x, k) == IF k <= Len(list) THEN list ELSE IF Len(x) < length THEN More(x) ELSE x
            step == [k \in 1 .. total |-> [x \in X |-> Guarded(x, k)]]
<1>1. Filled(list, length, total) = filled[total]
  BY DEF Filled
<1>2. Len(list) \in Nat
  BY DEF Indexes
<1>3. \A x \in X : Len(x) < length => More(x) \in X /\ Len(More(x)) = Len(x) + 1
  BY OneMoreIndex
<1>. HIDE DEF X, More
<1>4. list \in X /\ \A x \in X : Len(x) \in Nat
  BY DEF X, Indexes
<1>5. PICK f : IsIteration(f, list, step, total, X)
  <2>1. Steps(step, total, X)
    BY <1>3, <1>4 DEF Steps
  <2>. HIDE DEF step
  <2>. QED
    BY <1>4, <2>1, Iterated
<1>. DEFINE P == {k \in 0 .. total : /\ f[k] \in X
                                     /\ Len(f[k]) = IF k <= Len(list) THEN Len(list) ELSE k}
            Q == {k \in 0 .. total : filled[k] = f[k]}
<1>6. /\ f[0] = list /\ \A k \in 1 .. total : f[k - 1] \in X /\ f[k] = Guarded(f[k - 1], k)
  <2>1. \A k \in 1 .. total : k - 1 \in 0 .. total
    OBVIOUS
  <2>. QED
    BY <1>5, <2>1 DEF IsIteration
<1>7. 0 .. total \subseteq P
  <2>1. 0 \in P
    BY <1>2, <1>4, <1>6
  <2>2. ASSUME NEW k \in 1 .. total, k - 1 \in P
        PROVE  k \in P
    <3>1. f[k] = Guarded(f[k - 1], k) /\ f[k - 1] \in X
      BY <1>6
    <3>2. CASE k <= Len(list)
      BY <1>4, <3>1, <3>2
    <3>3. CASE ~(k <= Len(list))
      <4>1. Len(f[k - 1]) = k - 1
        BY <1>2, <2>2, <3>3
      <4>2. f[k] = More(f[k - 1]) /\ Len(f[k - 1]) < length
        BY <3>1, <3>3, <4>1
      <4>. QED
        BY <1>3, <3>1, <3>3, <4>1, <4>2
    <3>. QED
      BY <3>2, <3>3
  <2>. HIDE DEF P
  <2>. QED
    BY <2>1, <2>2, UpTo
<1>8. \A k \in 0 .. total : f[k] = IF k <= Len(list) THEN list ELSE More(f[k - 1])
  <2>. SUFFICES ASSUME NEW k \in 0 .. total
                PROVE  f[k] = IF k <= Len(list) THEN list ELSE More(f[k - 1])
    OBVIOUS
  <2>1. CASE k = 0
    BY <1>2, <1>6, <2>1
  <2>2. CASE k # 0 /\ ~(k <= Len(list))
    <3>1. k \in 1 .. total /\ k - 1 \in P
      BY <1>7, <2>2
    <3>2. Len(f[k - 1]) < length
      <4>1. Len(f[k - 1]) = k - 1
        BY <1>2, <2>2, <3>1
      <4>. QED
        BY <4>1
    <3>. QED
      BY <1>6, <2>2, <3>1, <3>2
  <2>3. CASE k # 0 /\ k <= Len(list)
    BY <1>6, <2>3
  <2>. QED
    BY <2>1, <2>2, <2>3
<1>9. f = Step(f)
  <2>1. f = [k \in 0 .. total |-> f[k]]
    BY <1>5 DEF IsIteration
  <2>. QED
    BY <1>8, <2>1
<1>10. filled = Step(filled)
  <2>. HIDE DEF Step
  <2>. QED
    BY <1>9
<1>. HIDE DEF filled
<1>11. \A k \in 0 .. total : filled[k] = IF k <= Len(list) THEN list ELSE More(filled[k - 1])
  BY <1>10
<1>12. 0 .. total \subseteq Q
  <2>1. 0 \in Q
    BY <1>2, <1>6, <1>11
  <2>2. ASSUME NEW k \in 1 .. total, k - 1 \in Q
        PROVE  k \in Q
    BY <1>8, <1>11, <2>2
  <2>. HIDE DEF Q
  <2>. QED
    BY <2>1, <2>2, UpTo
<1>13. total \in P /\ total \in Q
  BY <1>7, <1>12
<1>14. filled[total] \in X
  BY <1>13
<1>. QED
  BY <1>1, <1>14 DEF X

\* What is left of a sequence without some members.
LEMMA WithoutIs ==
  ASSUME NEW S, NEW s \in Seq(S), NEW members
  PROVE  /\ Without(s, members) \in Seq(S)
         /\ IsInjective(s) => IsInjective(Without(s, members))
         /\ ToSet(Without(s, members)) = ToSet(s) \ members
<1>. DEFINE indexes == {k \in DOMAIN s : s[k] \notin members}
<1>1. DOMAIN s = 1 .. Len(s) /\ \A k \in 1 .. Len(s) : s[k] \in S
  OBVIOUS
<1>2. ToSet(s) \ members = {s[i] : i \in indexes \cap 1 .. Len(s)}
  BY <1>1 DEF ToSet
<1>. HIDE DEF indexes
<1>3. Keep(s, indexes) \in Seq(S)
  BY <1>1, KeepTyped
<1>4. IsInjective(s) => IsInjective(Keep(s, indexes))
  BY KeepInjective
<1>5. ToSet(Keep(s, indexes)) = {s[i] : i \in indexes \cap 1 .. Len(s)}
  BY KeepRange
<1>. QED
  BY <1>2, <1>3, <1>4, <1>5 DEF Without, indexes

\* Different indexes are joined with others.
LEMMA IndexesJoined ==
  ASSUME NEW length, NEW s \in Indexes(length), NEW t \in Indexes(length),
         ToSet(s) \cap ToSet(t) = {}
  PROVE  s \o t \in Indexes(length)
<1>1. PICK S : S = 0 .. length - 1
  OBVIOUS
<1>2. s \in Seq(S) /\ t \in Seq(S) /\ IsInjective(s) /\ IsInjective(t)
  BY <1>1 DEF Indexes
<1>3. s \o t \in Seq(S) /\ IsInjective(s \o t)
  BY <1>2, JoinedInjective
<1>. QED
  BY <1>1, <1>3 DEF Indexes

\* The list is one of different indexes.
LEMMA IndexListTyped ==
  ASSUME NEW length \in Nat, NEW total \in 0 .. length, NEW before \in Indexes(length)
  PROVE  IndexList(length, total, before) \in Indexes(length)
<1>. DEFINE bounds == IF length = 1 THEN <<0>> ELSE <<0, length - 1>>
            ends == Without(bounds, ToSet(before))
            room == total - Len(before)
<1>1. PICK S : S = 0 .. length - 1
  OBVIOUS
<1>2. Len(before) \in Nat /\ before \in Seq(S)
  BY <1>1 DEF Indexes
<1>3. CASE total = 0
  <2>1. <<>> \in Indexes(length)
    BY DEF Indexes, IsInjective
  <2>. QED
    BY <1>3, <2>1 DEF IndexList
<1>4. CASE total # 0
  <2>1. length # 0
    BY <1>4
  <2>2. bounds \in Indexes(length)
    BY <2>1 DEF Indexes, IsInjective
  <2>. HIDE DEF bounds
  <2>3. /\ ends \in Seq(S) /\ IsInjective(ends)
        /\ ToSet(ends) = ToSet(bounds) \ ToSet(before)
    BY <1>1, <2>2, WithoutIs DEF Indexes
  <2>. HIDE DEF ends
  <2>4. ends \in Indexes(length) /\ ToSet(before) \cap ToSet(ends) = {}
    BY <1>1, <2>3 DEF Indexes
  <2>5. [k \in 1 .. length |-> k - 1] \in Indexes(length)
    <3>1. PICK x : x = [k \in 1 .. length |-> k - 1]
      OBVIOUS
    <3>2. x \in [1 .. length -> S]
      BY <1>1, <3>1
    <3>3. x \in Seq(S)
      BY <3>2
    <3>4. IsInjective(x)
      BY <3>1 DEF IsInjective
    <3>. QED
      BY <1>1, <3>1, <3>3, <3>4 DEF Indexes
  <2>6. ASSUME room \in 1 .. Len(ends)
        PROVE  before \o SubSeq(ends, 1, room) \in Indexes(length)
    <3>1. PICK t : t = SubSeq(ends, 1, room)
      OBVIOUS
    <3>2. room \in Nat /\ room <= Len(ends) /\ 0 \in Nat /\ 0 + 1 = 1
      BY <2>6
    <3>3. t \in Seq(S) /\ IsPart(t, ends, 0, room)
      <4>1. SubSeq(ends, 0 + 1, room) \in Seq(S) /\ IsPart(SubSeq(ends, 0 + 1, room), ends, 0, room)
        BY <2>3, <3>2, PartIs
      <4>. QED
        BY <3>1, <3>2, <4>1
    <3>4. PICK n \in Nat : n = Len(ends) /\ DOMAIN ends = 1 .. n
      BY <2>3
    <3>5. Len(t) = room /\ \A i \in 1 .. room : t[i] = ends[i] /\ i \in 1 .. n
      BY <3>2, <3>3, <3>4 DEF IsPart
    <3>6. DOMAIN t = 1 .. room
      BY <3>3, <3>5
    <3>7. IsInjective(t) /\ ToSet(t) \subseteq ToSet(ends)
      BY <2>3, <3>4, <3>5, <3>6 DEF IsInjective, ToSet
    <3>8. t \in Indexes(length) /\ ToSet(before) \cap ToSet(t) = {}
      BY <1>1, <2>4, <3>3, <3>7 DEF Indexes
    <3>. QED
      BY <3>1, <3>8, IndexesJoined
  <2>7. Filled(before \o ends, length, total) \in Indexes(length)
    <3>1. before \o ends \in Indexes(length)
      BY <2>4, IndexesJoined
    <3>. QED
      BY <3>1, FilledTyped
  <2>8. IndexList(length, total, before) =
          IF Len(before) = length THEN [k \in 1 .. length |-> k - 1]
          ELSE IF room < 0 THEN before
          ELSE IF room \in 1 .. Len(ends) THEN before \o SubSeq(ends, 1, room)
          ELSE Filled(before \o ends, length, total)
    BY <1>4 DEF IndexList, ends, bounds
  <2>. HIDE DEF room
  <2>. QED
    BY <2>5, <2>6, <2>7, <2>8
<1>. QED
  BY <1>3, <1>4

\* What is measured of a table.
LEMMA SampledIndicesAre ==
  ASSUME NEW S, NEW sorted \in Seq(S)
  PROVE  /\ SampledIndices(sorted) \in Indexes(Len(sorted))
         /\ ToSet(SampledIndices(sorted)) =
              {k - 1 : k \in {i \in 1 .. Len(sorted) : sorted[i] \in DOMAIN measured}}
<1>1. PICK n \in Nat : n = Len(sorted) /\ DOMAIN sorted = 1 .. n
  OBVIOUS
<1>2. PICK X : X = 0 .. n - 1
  OBVIOUS
<1>3. PICK x : x = [k \in DOMAIN sorted |-> k - 1]
  OBVIOUS
<1>4. x \in [1 .. n -> X]
  BY <1>1, <1>2, <1>3
<1>5. x \in Seq(X) /\ Len(x) = n
  BY <1>1, <1>4
<1>6. IsInjective(x)
  BY <1>1, <1>3 DEF IsInjective
<1>. DEFINE indexes == {k \in DOMAIN sorted : sorted[k] \in DOMAIN measured}
<1>7. {x[i] : i \in indexes \cap 1 .. n} =
        {k - 1 : k \in {i \in 1 .. n : sorted[i] \in DOMAIN measured}}
  BY <1>1, <1>3
<1>8. SampledIndices(sorted) = Keep(x, indexes)
  BY <1>3 DEF SampledIndices
<1>. HIDE DEF indexes
<1>9. Keep(x, indexes) \in Seq(X)
  <2>1. \A k \in 1 .. Len(x) : k \in indexes => x[k] \in X
    BY <1>4, <1>5
  <2>. QED
    BY <1>5, <2>1, KeepTyped
<1>10. IsInjective(Keep(x, indexes)) /\ ToSet(Keep(x, indexes)) = {x[i] : i \in indexes \cap 1 .. n}
  BY <1>5, <1>6, KeepInjective, KeepRange
<1>. QED
  BY <1>1, <1>2, <1>7, <1>8, <1>9, <1>10 DEF Indexes

\* The order is one of points that are not measured, none of them twice.
LEMMA IndexOrderIs ==
  ASSUME NEW S, NEW sorted \in Seq(S), Cardinality(Target) \in 0 .. Len(sorted)
  PROVE  /\ IndexOrder(sorted) \in Indexes(Len(sorted))
         /\ \A i \in ToSet(IndexOrder(sorted)) : sorted[i + 1] \notin DOMAIN measured
<1>1. PICK n \in Nat : n = Len(sorted) /\ DOMAIN sorted = 1 .. n
  OBVIOUS
<1>2. PICK before : before = SampledIndices(sorted)
  OBVIOUS
<1>3. /\ before \in Indexes(n)
      /\ ToSet(before) = {k - 1 : k \in {i \in 1 .. n : sorted[i] \in DOMAIN measured}}
  BY <1>1, <1>2, SampledIndicesAre
<1>4. PICK total \in 0 .. n : total = Cardinality(Target)
  BY <1>1
<1>5. PICK list : list = IndexList(n, total, before)
  OBVIOUS
<1>6. list \in Indexes(n)
  BY <1>3, <1>5, IndexListTyped
<1>7. PICK X : X = 0 .. n - 1
  OBVIOUS
<1>8. list \in Seq(X) /\ IsInjective(list)
  BY <1>6, <1>7 DEF Indexes
<1>9. PICK order : order = Without(list, ToSet(before))
  OBVIOUS
<1>10. order = IndexOrder(sorted)
  BY <1>1, <1>2, <1>4, <1>5, <1>9 DEF IndexOrder
<1>11. /\ order \in Seq(X) /\ IsInjective(order)
       /\ ToSet(order) = ToSet(list) \ ToSet(before)
  BY <1>8, <1>9, WithoutIs
<1>12. ASSUME NEW i \in ToSet(order)
       PROVE  sorted[i + 1] \notin DOMAIN measured
  <2>1. ToSet(list) \subseteq X
    BY <1>8 DEF ToSet
  <2>2. i \in 0 .. n - 1 /\ i \notin ToSet(before)
    BY <1>7, <1>11, <2>1
  <2>3. i + 1 \in 1 .. n /\ i = (i + 1) - 1
    BY <2>2
  <2>. QED
    BY <1>3, <2>2, <2>3
<1>. QED
  BY <1>1, <1>7, <1>10, <1>11, <1>12 DEF Indexes

\* A space that TRIM runs on, and that was checked when it was created.
TrimSpaceIs ==
  /\ SpaceTyped
  /\ \A n \in Names : HasValues(DomainOf(n)) /\ IsInjective(DomainOf(n).values)
  /\ \A i, j \in DOMAIN space : space[i].name = space[j].name => i = j

\* So is every space that it may run on.
LEMMA TrimSpaceTyped ==
  ASSUME WithoutRepetition(TrimSpaces), space \in TrimSpaces
  PROVE  TrimSpaceIs
<1>1. /\ space \in Seq([name : Names, domain : Domains])
      /\ \A i, j \in DOMAIN space : space[i].name = space[j].name => i = j
      /\ \A i \in DOMAIN space : /\ IsValidDomain(EntitySpaceDomain(space[i].domain))
                                 /\ HasValues(EntitySpaceDomain(space[i].domain))
  BY TrimAssumption DEF Names
<1>2. \A n \in Names : IsValidDomain(DomainOf(n)) /\ HasValues(DomainOf(n))
  <2>. SUFFICES ASSUME NEW n \in Names
                PROVE  IsValidDomain(DomainOf(n)) /\ HasValues(DomainOf(n))
    OBVIOUS
  <2>1. PICK i \in DOMAIN space : i = CHOOSE j \in DOMAIN space : space[j].name = n
    BY DEF Names
  <2>2. DomainOf(n) = EntitySpaceDomain(space[i].domain)
    BY <2>1 DEF DomainOf
  <2>. QED
    BY <1>1, <2>2
<1>3. SpaceTyped
  BY <1>1, <1>2 DEF SpaceTyped, HasEntitySpace
<1>4. \A n \in Names : IsInjective(DomainOf(n).values)
  BY <1>3, ValuesOnce
<1>. QED
  BY <1>1, <1>2, <1>3, <1>4 DEF TrimSpaceIs

\* By whatever order of the features, the table has all the points, each once.
LEMMA TableIs ==
  ASSUME TrimSpaceIs, NEW dims, IsOrder(dims)
  PROVE  /\ PointsOf(dims) \in Seq(InSpace) /\ IsInjective(PointsOf(dims))
         /\ ToSet(PointsOf(dims)) = AllPoints(Names)
BY PointsTyped, PointsInjective, GridRange DEF TrimSpaceIs, IsOrder

\* The features are the dimensions in some order.
LEMMA FeaturesOrder ==
  ASSUME TrimSpaceIs, NEW features \in FeatureOrders
  PROVE  IsOrder(features)
<1>1. PICK f \in Bijection(DOMAIN space, DOMAIN space) :
        features = [i \in DOMAIN space |-> space[f[i]]]
  BY DEF FeatureOrders
<1>2. PICK n \in Nat : n = Len(space) /\ DOMAIN space = 1 .. n
  BY SpaceFields DEF TrimSpaceIs
<1>3. /\ f \in [1 .. n -> 1 .. n]
      /\ \A i, j \in 1 .. n : f[i] = f[j] => i = j
      /\ \A k \in 1 .. n : \E i \in 1 .. n : f[i] = k
  BY <1>1, <1>2 DEF Bijection, Injection, Surjection, IsInjective
<1>4. PICK S : S = [name : Names, domain : Domains]
  OBVIOUS
<1>5. space \in Seq(S)
  BY <1>4 DEF TrimSpaceIs, SpaceTyped
<1>6. \A i \in 1 .. n : space[i] \in S
  BY <1>2, <1>5
<1>7. features \in [1 .. n -> S] /\ \A i \in 1 .. n : features[i] = space[f[i]]
  BY <1>1, <1>2, <1>3, <1>6
<1>8. features \in Seq(S) /\ Len(features) = n
  BY <1>7
<1>9. FirstNames(features, n) = Names
  <2>1. FirstNames(features, n) = {space[f[i]].name : i \in 1 .. n}
    BY <1>7 DEF FirstNames
  <2>2. Names = {space[k].name : k \in 1 .. n}
    BY <1>2 DEF Names
  <2>3. \A i \in 1 .. n : f[i] \in 1 .. n
    BY <1>3
  <2>4. \A k \in 1 .. n : \E i \in 1 .. n : space[f[i]].name = space[k].name
    BY <1>3
  <2>5. FirstNames(features, n) \subseteq Names
    BY <2>1, <2>2, <2>3
  <2>6. Names \subseteq FirstNames(features, n)
    BY <2>1, <2>2, <2>4
  <2>. QED
    BY <2>5, <2>6
<1>10. \A i, j \in 1 .. n : features[i].name = features[j].name => i = j
  <2>. SUFFICES ASSUME NEW i \in 1 .. n, NEW j \in 1 .. n, features[i].name = features[j].name
                PROVE  i = j
    OBVIOUS
  <2>1. space[f[i]].name = space[f[j]].name /\ f[i] \in DOMAIN space /\ f[j] \in DOMAIN space
    BY <1>2, <1>3, <1>7
  <2>2. f[i] = f[j]
    BY <2>1 DEF TrimSpaceIs
  <2>. QED
    BY <1>3, <2>2
<1>. QED
  BY <1>4, <1>8, <1>9, <1>10 DEF IsOrder, Dimensions

\* The table of the space is one of them, and it is finite.
LEMMA PointsAre ==
  ASSUME TrimSpaceIs
  PROVE  Points = AllPoints(Names) /\ IsFiniteSet(Points)
<1>1. IsOrder(space) /\ SequentialPoints = PointsOf(space)
  BY SpaceOrder, SpaceFields DEF TrimSpaceIs, IsOrder
<1>2. Points = AllPoints(Names) /\ SequentialPoints \in Seq(InSpace)
  BY <1>1, TableIs DEF Points
<1>3. PICK n \in Nat : n = Len(SequentialPoints) /\ DOMAIN SequentialPoints = 1 .. n
  BY <1>2
<1>4. IsFiniteSet(1 .. n)
  BY FS_Interval
<1>5. SequentialPoints \in Surjection(1 .. n, Points)
  BY <1>2, <1>3 DEF Surjection, Points, ToSet
<1>6. IsFiniteSet(Points)
  BY <1>4, <1>5, FS_Surjection
<1>. QED
  BY <1>2, <1>6

\* Every table sorted by the features has the points of the space, each once.
LEMMA SortedIs ==
  ASSUME TrimSpaceIs, NEW sorted \in SortedTables
  PROVE  /\ sorted \in Seq(Points) /\ IsInjective(sorted)
         /\ Cardinality(Target) \in 0 .. Len(sorted)
<1>1. PICK features \in FeatureOrders : sorted = PointsOf(features)
  BY DEF SortedTables
<1>2. sorted \in Seq(InSpace) /\ IsInjective(sorted) /\ ToSet(sorted) = Points
  BY <1>1, FeaturesOrder, TableIs, PointsAre
<1>3. PICK n \in Nat : n = Len(sorted) /\ DOMAIN sorted = 1 .. n
  BY <1>2
<1>4. sorted \in [1 .. n -> Points] /\ \A p \in Points : \E i \in 1 .. n : sorted[i] = p
  BY <1>2, <1>3 DEF ToSet
<1>5. sorted \in Seq(Points)
  BY <1>3, <1>4
<1>6. Cardinality(Points) <= n
  <2>1. sorted \in Surjection(1 .. n, Points)
    BY <1>4 DEF Surjection
  <2>. QED
    BY <2>1, FS_SurjCardinalityBound DEF ExistsSurjection
<1>7. /\ IsFiniteSet(Target) /\ Cardinality(Target) <= Cardinality(Points)
      /\ Cardinality(Target) \in Nat /\ Cardinality(Points) \in Nat
  <2>1. IsFiniteSet(Points) /\ Target \in SUBSET Points
    BY PointsAre DEF Target
  <2>. QED
    BY <2>1, FS_Subset, FS_CardinalityType
<1>8. Cardinality(Target) \in 0 .. n
  BY <1>6, <1>7
<1>. QED
  BY <1>2, <1>3, <1>5, <1>8

\* A plan of the iterations is made of points that are not measured, none of them twice.
LEMMA PlansAre ==
  ASSUME TrimSpaceIs, NEW entities \in Plans
  PROVE  /\ entities \in Seq(Points) /\ IsInjective(entities)
         /\ \A k \in 1 .. Len(entities) : entities[k] \in Target
<1>1. PICK sorted \in SortedTables :
        entities = [k \in DOMAIN IndexOrder(sorted) |-> sorted[IndexOrder(sorted)[k] + 1]]
  BY DEF Plans
<1>2. PICK order : order = IndexOrder(sorted)
  OBVIOUS
<1>3. /\ sorted \in Seq(Points) /\ IsInjective(sorted)
      /\ order \in Indexes(Len(sorted))
      /\ \A i \in ToSet(order) : sorted[i + 1] \notin DOMAIN measured
  BY <1>2, SortedIs, IndexOrderIs
<1>4. PICK n \in Nat : /\ n = Len(sorted) /\ DOMAIN sorted = 1 .. n
                       /\ \A i \in 1 .. n : sorted[i] \in Points
  BY <1>3
<1>5. PICK m \in Nat : m = Len(order) /\ DOMAIN order = 1 .. m /\ order \in [1 .. m -> 0 .. n - 1]
  BY <1>3, <1>4 DEF Indexes
<1>6. /\ DOMAIN entities = 1 .. m
      /\ \A k \in 1 .. m : entities[k] = sorted[order[k] + 1] /\ order[k] + 1 \in 1 .. n
  BY <1>1, <1>2, <1>5
<1>7. \A k \in 1 .. m : entities[k] \in Target
  <2>1. \A k \in 1 .. m : order[k] \in ToSet(order)
    BY <1>5 DEF ToSet
  <2>. QED
    BY <1>3, <1>4, <1>6, <2>1 DEF Target
<1>8. entities \in Seq(Points) /\ Len(entities) = m
  <2>1. \A k \in 1 .. m : entities[k] \in Points
    BY <1>4, <1>6
  <2>2. entities = [k \in 1 .. m |-> entities[k]]
    BY <1>1, <1>2, <1>5
  <2>3. entities \in [1 .. m -> Points]
    BY <2>1, <2>2
  <2>. QED
    BY <2>3
<1>9. IsInjective(entities)
  <2>1. \A j, k \in 1 .. m : entities[j] = entities[k] => j = k
    <3>. SUFFICES ASSUME NEW j \in 1 .. m, NEW k \in 1 .. m, entities[j] = entities[k]
                  PROVE  j = k
      OBVIOUS
    <3>1. order[j] + 1 = order[k] + 1
      BY <1>3, <1>4, <1>6 DEF IsInjective
    <3>2. order[j] = order[k]
      BY <1>5, <3>1
    <3>. QED
      BY <1>3, <1>5, <3>2 DEF Indexes, IsInjective
  <2>. QED
    BY <1>6, <2>1 DEF IsInjective
<1>. QED
  BY <1>7, <1>8, <1>9

-----------------------------------------------------------------------------
(* The invariant of TRIM.                                                  *)

\* The rows of a table, and how a model is recorded.
Rows == Points \X Nat
Trained == [index : Nat, train : SUBSET Rows, holdout : SUBSET Rows, new : SUBSET Rows,
            source : SUBSET Rows]
Requests == [point : Points, replayed : BOOLEAN]

TrimTyped ==
  /\ space \in TrimSpaces /\ phase = "trim"
  /\ params \in TrimParameters
  /\ DOMAIN measured \subseteq Points /\ measured \in [DOMAIN measured -> Nat]
  /\ others \in Nat /\ sampled \in Nat
  /\ plan \in Seq(Points) /\ measuring \in Seq(Requests)
  /\ initialSource \in SUBSET Rows /\ previousSource \in SUBSET Rows
  /\ yieldedRows \in Seq(Rows) /\ models \in Seq(Trained)

\* Before the iterations nothing is trained, and they start with an empty walk.
Untried ==
  /\ stage \in {"assessing", "sampler", "noPriors", "planning"} =>
       models = <<>> /\ yieldedRows = <<>> /\ initialSource = {} /\ previousSource = {}
  /\ stage \in {"sampler", "planning"} => sampled = 0 /\ measuring = <<>>
  /\ stage # "done" => finalModel = Untrained

\* What was read from the table was in it, and a row does not come back to it.
Remembered ==
  /\ \A row \in initialSource \cup previousSource :
       row[1] \in DOMAIN measured /\ row[2] <= measured[row[1]]
  /\ initialSource \cap Source \subseteq previousSource
  /\ \A i \in 1 .. Len(yieldedRows) : yieldedRows[i][1] \in DOMAIN measured

Enough ==
  stage \in {"planning", "iterating", "finalizing", "done"} =>
    Cardinality(Source) >= params.minPoints

RowsOf(m, n) == {<<plan[j], 1>> : j \in m .. n}

\* The window holds the last rows before the entity that is being measured.
IsWindow(rows, n) ==
  /\ Len(rows) = IF n < K THEN n ELSE K
  /\ \A i \in 1 .. Len(rows) : rows[i] = <<plan[n - Len(rows) + i], 1>>

\* Alone, the sampler knows of every row but the one that is being measured.
Alone ==
  IF sampled = 0 THEN measuring = <<>> /\ yieldedRows = <<>>
  ELSE /\ previousSource = initialSource \cup RowsOf(1, sampled - 1)
       /\ Source \in {previousSource, previousSource \cup RowsOf(sampled, sampled)}
       /\ measuring # <<>> =>
            /\ Source = previousSource
            /\ measuring = <<[point |-> plan[sampled], replayed |-> FALSE]>>
       /\ \A j \in 1 .. Len(plan) : plan[j] \notin PointsIn(initialSource)
       /\ IsWindow(yieldedRows, sampled - 1)

Iterating ==
  stage = "iterating" =>
    /\ IsInjective(plan) /\ sampled <= Len(plan)
    /\ Source # {}
    /\ Len(models) = IF sampled < K THEN 0 ELSE sampled - K
    /\ others = 0 =>
         /\ \A j \in sampled + 1 .. Len(plan) : plan[j] \in Target
         /\ Alone

Ended ==
  /\ stage = "finalizing" =>
       /\ Source # {} /\ Len(models) >= 2 * K
       /\ others = 0 => Source = models[Len(models)].source
  /\ stage = "done" => BudgetWellSpent

\* The invariant of TRIM.
TrimInv ==
  /\ TrimTyped /\ Untried /\ Remembered /\ Enough /\ Iterating /\ Ended
  /\ NewestIsUnseen

\* What TRIM assumes of its parameters.
LEMMA ParametersTyped ==
  ASSUME TrimTyped
  PROVE  K \in Nat \ {0} /\ params.minPoints \in Nat
BY TrimAssumption DEF TrimTyped, K

\* The points do not change.
LEMMA PointsStay ==
  ASSUME UNCHANGED <<space, experiments>>
  PROVE  Points' = Points /\ Rows' = Rows /\ Trained' = Trained /\ Requests' = Requests
<1>1. Points' = Points
  BY SpaceStays DEF Points
<1>. QED
  BY <1>1 DEF Rows, Trained, Requests

\* The rows of the table, one for each point that is measured.
LEMMA SourceIs ==
  ASSUME TrimTyped, IsFiniteSet(Points)
  PROVE  /\ IsFiniteSet(Source) /\ Source \in SUBSET Rows
         /\ IsFiniteSet(DOMAIN measured) /\ Cardinality(Source) = Cardinality(DOMAIN measured)
         /\ Cardinality(Source) \in Nat
         /\ \A row \in Source : row[1] \in DOMAIN measured /\ row[2] = measured[row[1]]
         /\ \A row, other \in Source : row[1] = other[1] => row = other
<1>1. /\ DOMAIN measured \in SUBSET Points /\ measured \in [DOMAIN measured -> Nat]
  BY DEF TrimTyped
<1>2. IsFiniteSet(DOMAIN measured)
  BY <1>1, FS_Subset
<1>. DEFINE f == [p \in DOMAIN measured |-> <<p, measured[p]>>]
<1>3. f \in Bijection(DOMAIN measured, Source)
  <2>1. f \in [DOMAIN measured -> Source]
    BY DEF Source
  <2>2. \A p, q \in DOMAIN measured : f[p] = f[q] => p = q
    OBVIOUS
  <2>3. \A row \in Source : \E p \in DOMAIN measured : f[p] = row
    BY DEF Source
  <2>. QED
    BY <2>1, <2>2, <2>3 DEF Bijection, Injection, Surjection, IsInjective
<1>4. IsFiniteSet(Source) /\ Cardinality(Source) = Cardinality(DOMAIN measured)
  BY <1>2, <1>3, FS_Bijection DEF ExistsBijection
<1>5. Cardinality(Source) \in Nat
  BY <1>4, FS_CardinalityType
<1>6. Source \in SUBSET Rows
  BY <1>1 DEF Source, Rows
<1>7. /\ \A row \in Source : row[1] \in DOMAIN measured /\ row[2] = measured[row[1]]
      /\ \A row, other \in Source : row[1] = other[1] => row = other
  BY DEF Source
<1>. QED
  BY <1>2, <1>4, <1>5, <1>6, <1>7

\* Means are replaced, and points are added.
Grown ==
  /\ DOMAIN measured \subseteq DOMAIN measured' /\ DOMAIN measured' \subseteq Points
  /\ measured' \in [DOMAIN measured' -> Nat]
  /\ \A q \in DOMAIN measured : measured[q] <= measured'[q]

\* The table grows with a measurement.
LEMMA TableGrows ==
  ASSUME TrimTyped, NEW p \in Points, measured' = WithMeasurement(p)
  PROVE  /\ Grown
         /\ p \notin DOMAIN measured =>
              Source' = Source \cup {<<p, 1>>} /\ DOMAIN measured' = DOMAIN measured \cup {p}
<1>1. /\ DOMAIN measured \subseteq Points
      /\ \A q \in DOMAIN measured : measured[q] \in Nat
  BY DEF TrimTyped
<1>2. /\ DOMAIN measured' = DOMAIN measured \cup {p}
      /\ \A q \in DOMAIN measured \cup {p} :
           measured'[q] = (IF q \in DOMAIN measured THEN measured[q] ELSE 0)
                            + (IF q = p THEN 1 ELSE 0)
      /\ measured' = [q \in DOMAIN measured' |-> measured'[q]]
  BY DEF WithMeasurement
<1>3. \A q \in DOMAIN measured' : measured'[q] \in Nat
  BY <1>1, <1>2
<1>4. Grown
  <2>1. \A q \in DOMAIN measured : measured[q] <= measured'[q]
    BY <1>1, <1>2
  <2>2. measured' \in [DOMAIN measured' -> Nat]
    BY <1>2, <1>3
  <2>. QED
    BY <1>1, <1>2, <2>1, <2>2 DEF Grown
<1>5. ASSUME p \notin DOMAIN measured
      PROVE  Source' = Source \cup {<<p, 1>>}
  <2>1. measured'[p] = 1 /\ \A q \in DOMAIN measured : measured'[q] = measured[q]
    BY <1>1, <1>2, <1>5
  <2>. QED
    BY <1>2, <2>1 DEF Source
<1>. QED
  BY <1>2, <1>4, <1>5

\* What was read from the table stays different from what is new.
LEMMA RememberedStays ==
  ASSUME TrimTyped, Remembered, Grown,
         UNCHANGED <<initialSource, previousSource, yieldedRows>>
  PROVE  Remembered'
<1>1. initialSource \in SUBSET Rows /\ previousSource \in SUBSET Rows
  BY DEF TrimTyped
<1>2. \A q \in DOMAIN measured : measured[q] \in Nat /\ measured'[q] \in Nat
  BY DEF TrimTyped, Grown
<1>3. ASSUME NEW row \in initialSource \cup previousSource
      PROVE  row[1] \in DOMAIN measured' /\ row[2] <= measured'[row[1]]
  <2>1. row[1] \in DOMAIN measured /\ row[2] <= measured[row[1]] /\ row[2] \in Nat
    BY <1>1 DEF Remembered, Rows
  <2>. QED
    BY <1>2, <2>1 DEF Grown
<1>4. ASSUME NEW row \in initialSource \cap Source'
      PROVE  row \in previousSource
  <2>1. /\ row[1] \in DOMAIN measured /\ row[2] <= measured[row[1]] /\ row[2] \in Nat
        /\ row = <<row[1], row[2]>>
    BY <1>1 DEF Remembered, Rows
  <2>2. row[2] = measured'[row[1]]
    BY DEF Source
  <2>3. row[2] = measured[row[1]]
    BY <1>2, <2>1, <2>2 DEF Grown
  <2>4. row \in Source
    BY <2>1, <2>3 DEF Source
  <2>. QED
    BY <2>4 DEF Remembered
<1>5. \A i \in 1 .. Len(yieldedRows') : yieldedRows'[i][1] \in DOMAIN measured'
  BY DEF Remembered, Grown
<1>. QED
  BY <1>3, <1>4, <1>5 DEF Remembered

\* And the table does not become smaller.
LEMMA EnoughStays ==
  ASSUME TrimTyped, IsFiniteSet(Points), Grown
  PROVE  /\ Cardinality(Source) <= Cardinality(Source') /\ Cardinality(Source') \in Nat
         /\ Source # {} => Source' # {}
<1>1. /\ IsFiniteSet(DOMAIN measured) /\ Cardinality(Source) = Cardinality(DOMAIN measured)
  BY SourceIs
<1>2. /\ IsFiniteSet(DOMAIN measured') /\ Cardinality(Source') = Cardinality(DOMAIN measured')
  <2>. DEFINE f == [p \in DOMAIN measured' |-> <<p, measured'[p]>>]
  <2>1. DOMAIN measured' \in SUBSET Points
    BY DEF Grown
  <2>2. IsFiniteSet(DOMAIN measured')
    BY <2>1, FS_Subset
  <2>3. f \in Bijection(DOMAIN measured', Source')
    <3>1. f \in [DOMAIN measured' -> Source']
      BY DEF Source
    <3>2. \A p, q \in DOMAIN measured' : f[p] = f[q] => p = q
      OBVIOUS
    <3>3. \A row \in Source' : \E p \in DOMAIN measured' : f[p] = row
      BY DEF Source
    <3>. QED
      BY <3>1, <3>2, <3>3 DEF Bijection, Injection, Surjection, IsInjective
  <2>. QED
    BY <2>2, <2>3, FS_Bijection DEF ExistsBijection
<1>3. Cardinality(DOMAIN measured) <= Cardinality(DOMAIN measured')
  BY <1>2, FS_Subset DEF Grown
<1>4. Source # {} => Source' # {}
  BY DEF Source, Grown
<1>5. Cardinality(Source') \in Nat
  BY <1>2, FS_CardinalityType
<1>. QED
  BY <1>1, <1>2, <1>3, <1>4, <1>5

-----------------------------------------------------------------------------
(* TRIM before its iterations.                                             *)

\* The rest of a state: what no step of TRIM changes.
Frame == UNCHANGED <<space, experiments, phase, params>>

\* As long as nothing is trained, there is nothing to say of models.
LEMMA EarlyKept ==
  ASSUME TrimInv, Frame, stage \in {"assessing", "sampler", "noPriors", "planning"},
         UNCHANGED modelVars,
         stage' \in {"assessing", "sampler", "noPriors", "planning", "raised"},
         stage' \in {"sampler", "planning"} => sampled' = 0 /\ measuring' = <<>>
  PROVE  Untried' /\ Remembered' /\ Iterating' /\ Ended' /\ NewestIsUnseen'
<1>1. /\ models' = <<>> /\ yieldedRows' = <<>> /\ initialSource' = {} /\ previousSource' = {}
      /\ finalModel' = Untrained
  BY DEF TrimInv, Untried, modelVars
<1>2. Untried'
  BY <1>1 DEF Untried, Untrained
<1>3. Remembered'
  BY <1>1 DEF Remembered
<1>4. Iterating' /\ Ended'
  BY DEF Iterating, Ended
<1>5. NewestIsUnseen'
  <2>1. DOMAIN models' = {}
    BY <1>1
  <2>. QED
    BY <2>1 DEF NewestIsUnseen
<1>. QED
  BY <1>2, <1>3, <1>4, <1>5

\* What has to be shown of a step that trains no model.
LEMMA TypedStays ==
  ASSUME TrimTyped, Frame, UNCHANGED modelVars,
         DOMAIN measured' \subseteq Points, measured' \in [DOMAIN measured' -> Nat],
         others' \in Nat, sampled' \in Nat, plan' \in Seq(Points), measuring' \in Seq(Requests)
  PROVE  TrimTyped'
BY PointsStay DEF TrimTyped, Frame, modelVars

\* The types that those proofs use.
LEMMA TypedOf ==
  ASSUME TrimTyped
  PROVE  /\ DOMAIN measured \subseteq Points /\ measured \in [DOMAIN measured -> Nat]
         /\ others \in Nat /\ sampled \in Nat /\ plan \in Seq(Points)
         /\ measuring \in Seq(Requests) /\ <<>> \in Seq(Points) /\ <<>> \in Seq(Requests)
         /\ \A k \in 1 .. Len(plan) : plan[k] \in Points
<1>1. plan \in Seq(Points)
  BY DEF TrimTyped
<1>. QED
  BY <1>1 DEF TrimTyped

\* Before there is a plan of the iterations, the table is not asked for more.
LEMMA AssessKeeps ==
  ASSUME TrimSpaceIs, TrimInv, Frame, Assess
  PROVE  TrimInv'
<1>1. TrimTyped /\ stage = "assessing" /\ UNCHANGED <<measured, others, modelVars>>
  BY DEF TrimInv, Assess
<1>2. sampled' = 0 /\ measuring' = <<>> /\ plan' = <<>>
  BY DEF Assess, WalkStarts
<1>3. TrimTyped'
  BY <1>1, <1>2, TypedOf, TypedStays
<1>4. stage' \in {"sampler", "planning", "raised"}
  BY DEF Assess, WalkStarts, Raise
<1>5. Untried' /\ Remembered' /\ Iterating' /\ Ended' /\ NewestIsUnseen'
  BY <1>1, <1>2, <1>4, EarlyKept
<1>6. Enough'
  <2>1. Source' = Source /\ params' = params
    BY <1>1 DEF Source, Frame
  <2>2. stage' = "planning" => ~(Cardinality(Source) < params.minPoints)
    BY DEF Assess, WalkStarts, Raise
  <2>3. Cardinality(Source) \in Nat /\ params.minPoints \in Nat
    BY <1>1, SourceIs, PointsAre, ParametersTyped
  <2>. QED
    BY <1>4, <2>1, <2>2, <2>3 DEF Enough
<1>. QED
  BY <1>3, <1>5, <1>6 DEF TrimInv

\* Points that are combined without priors are points of the space.
LEMMA NoPriorsTyped ==
  ASSUME TrimSpaceIs, TrimTyped, NEW entities \in NoPriorsSamples
  PROVE  entities \in Seq(Points)
<1>. DEFINE n == IF samples < Cardinality(Target) THEN samples ELSE Cardinality(Target)
<1>1. n \in Nat
  <2>1. Target \in SUBSET Points /\ IsFiniteSet(Points)
    BY PointsAre DEF Target
  <2>2. Cardinality(Target) \in Nat
    BY <2>1, FS_Subset, FS_CardinalityType
  <2>3. samples \in Nat
    BY ParametersTyped DEF samples
  <2>. QED
    BY <2>2, <2>3
<1>2. entities \in IF n = 0 THEN {<<>>} ELSE SamplesBy(params.strategy, n)
  BY DEF NoPriorsSamples
<1>. HIDE DEF n
<1>3. \A x \in [1 .. n -> Combinations] : x \in Seq(Points)
  <2>1. Combinations \subseteq Points
    BY DEF Combinations
  <2>. SUFFICES ASSUME NEW x \in [1 .. n -> Combinations]
                PROVE  x \in Seq(Points)
    OBVIOUS
  <2>2. x \in [1 .. n -> Points]
    BY <2>1
  <2>. QED
    BY <1>1, <2>2
<1>4. CASE n = 0
  BY <1>2, <1>4
<1>5. CASE n # 0
  <2>1. RandomSamples(n) \cup LatinSamples(n) \subseteq [1 .. n -> Combinations]
    BY DEF RandomSamples, LatinSamples
  <2>2. params.strategy \in {"random", "clhs", "sobol"}
    BY TrimAssumption DEF TrimTyped
  <2>3. SamplesBy(params.strategy, n) \subseteq RandomSamples(n) \cup LatinSamples(n)
    BY <2>2 DEF SamplesBy, SobolSamples
  <2>. QED
    BY <1>2, <1>3, <1>5, <2>1, <2>3
<1>. QED
  BY <1>4, <1>5

\* They are planned,
LEMMA NoPriorsPlansKeeps ==
  ASSUME TrimSpaceIs, TrimInv, Frame, NoPriorsPlans
  PROVE  TrimInv'
<1>1. /\ TrimTyped /\ stage = "sampler" /\ stage' = "noPriors"
      /\ UNCHANGED <<measured, others, sampled, measuring, modelVars>>
  BY DEF TrimInv, NoPriorsPlans
<1>2. plan' \in Seq(Points)
  BY <1>1, NoPriorsTyped DEF NoPriorsPlans
<1>3. TrimTyped'
  BY <1>1, <1>2, TypedOf, TypedStays
<1>4. Untried' /\ Remembered' /\ Iterating' /\ Ended' /\ NewestIsUnseen'
  BY <1>1, EarlyKept
<1>5. Enough'
  BY <1>1 DEF Enough
<1>. QED
  BY <1>3, <1>4, <1>5 DEF TrimInv

\* A request for a point.
LEMMA SamplingTyped ==
  ASSUME TrimTyped, NEW p \in Points, Sampling(p)
  PROVE  sampled' \in Nat /\ sampled' = sampled + 1 /\ measuring' \in Seq(Requests)
<1>1. [point |-> p, replayed |-> p \in DOMAIN measured] \in Requests
  BY DEF Requests
<1>2. measuring \in Seq(Requests) /\ sampled \in Nat
  BY DEF TrimTyped
<1>. QED
  BY <1>1, <1>2 DEF Sampling

\* and requested one by one,
LEMMA NoPriorsNextKeeps ==
  ASSUME TrimSpaceIs, TrimInv, Frame, NoPriorsNext
  PROVE  TrimInv'
<1>1. /\ TrimTyped /\ stage = "noPriors" /\ stage' = "noPriors"
      /\ UNCHANGED <<measured, others, plan, modelVars>>
  BY DEF TrimInv, NoPriorsNext
<1>2. plan[sampled + 1] \in Points
  <2>1. sampled \in Nat /\ plan \in Seq(Points) /\ sampled < Len(plan)
    BY <1>1 DEF TrimTyped, NoPriorsNext
  <2>. QED
    BY <2>1
<1>3. sampled' \in Nat /\ measuring' \in Seq(Requests)
  BY <1>1, <1>2, SamplingTyped DEF NoPriorsNext
<1>4. TrimTyped'
  BY <1>1, <1>3, TypedOf, TypedStays
<1>5. Untried' /\ Remembered' /\ Iterating' /\ Ended' /\ NewestIsUnseen'
  BY <1>1, EarlyKept
<1>6. Enough'
  BY <1>1 DEF Enough
<1>. QED
  BY <1>4, <1>5, <1>6 DEF TrimInv

\* until the walk without priors ends.
LEMMA NoPriorsDoneKeeps ==
  ASSUME TrimSpaceIs, TrimInv, Frame, NoPriorsDone
  PROVE  TrimInv'
<1>1. /\ TrimTyped /\ stage = "noPriors" /\ UNCHANGED <<measured, others, modelVars>>
  BY DEF TrimInv, NoPriorsDone
<1>2. /\ Cardinality(Source) \in Nat /\ params.minPoints \in Nat
  BY <1>1, SourceIs, PointsAre, ParametersTyped
<1>3. CASE Cardinality(Source) < params.minPoints
  <2>1. stage' = "raised" /\ UNCHANGED walkVars
    BY <1>3 DEF NoPriorsDone, Raise
  <2>2. TrimTyped'
    BY <1>1, <2>1, TypedOf, TypedStays DEF walkVars
  <2>3. Untried' /\ Remembered' /\ Iterating' /\ Ended' /\ NewestIsUnseen'
    BY <1>1, <2>1, EarlyKept
  <2>. QED
    BY <2>1, <2>2, <2>3 DEF TrimInv, Enough
<1>4. CASE ~(Cardinality(Source) < params.minPoints)
  <2>1. sampled' = 0 /\ measuring' = <<>> /\ plan' = <<>> /\ stage' \in {"planning", "raised"}
    BY <1>4 DEF NoPriorsDone, WalkStarts, Raise
  <2>2. TrimTyped'
    BY <1>1, <2>1, TypedOf, TypedStays
  <2>3. Untried' /\ Remembered' /\ Iterating' /\ Ended' /\ NewestIsUnseen'
    BY <1>1, <2>1, EarlyKept
  <2>4. Source' = Source /\ params' = params
    BY <1>1 DEF Source, Frame
  <2>5. Enough'
    BY <1>2, <1>4, <2>4 DEF Enough
  <2>. QED
    BY <2>2, <2>3, <2>5 DEF TrimInv
<1>. QED
  BY <1>3, <1>4

\* The iterations start with a plan of points that are not measured.
LEMMA IterationPlansKeeps ==
  ASSUME TrimSpaceIs, TrimInv, Frame, IterationPlans
  PROVE  TrimInv'
<1>1. /\ TrimTyped /\ stage = "planning" /\ sampled = 0 /\ measuring = <<>>
      /\ UNCHANGED <<measured, others, sampled, measuring, modelVars>>
  BY DEF TrimInv, Untried, IterationPlans
<1>2. Source' = Source /\ Points' = Points /\ Target' = Target /\ params' = params /\ K' = K
  BY <1>1, PointsStay DEF Source, Target, Frame, K
<1>3. CASE stage' = "raised" /\ UNCHANGED plan
  <2>1. TrimTyped'
    BY <1>1, <1>3, TypedOf, TypedStays
  <2>2. Untried' /\ Remembered' /\ Iterating' /\ Ended' /\ NewestIsUnseen'
    BY <1>1, <1>3, EarlyKept
  <2>. QED
    BY <1>3, <2>1, <2>2 DEF TrimInv, Enough
<1>4. CASE Source # {} /\ stage' = "iterating" /\ plan' \in Plans
  <2>1. /\ plan' \in Seq(Points) /\ IsInjective(plan')
        /\ \A k \in 1 .. Len(plan') : plan'[k] \in Target
    BY <1>4, PlansAre
  <2>2. TrimTyped'
    BY <1>1, <2>1, TypedOf, TypedStays
  <2>3. /\ models' = <<>> /\ yieldedRows' = <<>> /\ initialSource' = {} /\ previousSource' = {}
        /\ finalModel' = Untrained
    BY <1>1 DEF TrimInv, Untried, modelVars
  <2>4. Untried' /\ Remembered'
    BY <1>4, <2>3 DEF Untried, Remembered, Untrained
  <2>5. Enough' /\ Ended'
    BY <1>1, <1>2, <1>4 DEF TrimInv, Enough, Ended
  <2>6. Iterating'
    <3>1. K \in Nat \ {0} /\ Len(plan') \in Nat /\ Len(models') = 0
      BY <1>1, <2>1, <2>3, ParametersTyped
    <3>2. Alone'
      BY <1>1, <2>3 DEF Alone
    <3>. QED
      BY <1>1, <1>2, <1>4, <2>1, <3>1, <3>2 DEF Iterating
  <2>7. NewestIsUnseen'
    <3>1. DOMAIN models' = {}
      BY <2>3
    <3>. QED
      BY <3>1 DEF NewestIsUnseen
  <2>. QED
    BY <2>2, <2>4, <2>5, <2>6, <2>7 DEF TrimInv
<1>. QED
  BY <1>3, <1>4 DEF IterationPlans, Raise

-----------------------------------------------------------------------------
(* TRIM in its iterations.                                                 *)

\* What is known when the random walk asks for an entity.
LEMMA AsksFacts ==
  ASSUME TrimSpaceIs, TrimInv, Asks
  PROVE  /\ TrimTyped /\ stage = "iterating" /\ measuring = <<>>
         /\ K \in Nat \ {0} /\ sampled \in Nat /\ Len(plan) \in Nat /\ DOMAIN plan = 1 .. Len(plan)
         /\ sampled + 1 \in 1 .. Len(plan) /\ plan[sampled + 1] \in Points
         /\ IsInjective(plan) /\ Source # {} /\ Source \in SUBSET Rows /\ IsFiniteSet(Source)
         /\ Len(models) = IF sampled < K THEN 0 ELSE sampled - K
         /\ finalModel = Untrained
<1>1. TrimTyped /\ stage = "iterating" /\ measuring = <<>> /\ sampled < Len(plan)
  BY DEF TrimInv, Asks
<1>2. plan \in Seq(Points) /\ sampled \in Nat
  BY <1>1 DEF TrimTyped
<1>3. /\ Len(plan) \in Nat /\ DOMAIN plan = 1 .. Len(plan)
      /\ sampled + 1 \in 1 .. Len(plan) /\ plan[sampled + 1] \in Points
  BY <1>1, <1>2
<1>4. /\ IsInjective(plan) /\ Source # {} /\ finalModel = Untrained
      /\ Len(models) = IF sampled < K THEN 0 ELSE sampled - K
  BY <1>1 DEF TrimInv, Iterating, Untried
<1>. QED
  BY <1>1, <1>2, <1>3, <1>4, ParametersTyped, SourceIs, PointsAre

\* One row is new, and the window moves on to it.
LEMMA RingIs ==
  ASSUME TrimSpaceIs, TrimInv, Asks, Cardinality(NewRows) = 1
  PROVE  \E row \in Rows, m, n \in Nat :
           /\ NewRows = {row} /\ n = Len(yieldedRows)
           /\ m = IF n < K THEN n + 1 ELSE K
           /\ Ring \in Seq(Rows) /\ Len(Ring) = m
           /\ \A i \in 1 .. m - 1 : n + 1 - m + i \in 1 .. n /\ Ring[i] = yieldedRows[n + 1 - m + i]
           /\ Ring[m] = row
<1>1. /\ IsFiniteSet(Source) /\ Source \in SUBSET Rows /\ K \in Nat \ {0} /\ TrimTyped
  BY AsksFacts
<1>2. PICK row : NewRows = {row}
  <2>1. IsFiniteSet(NewRows)
    BY <1>1, FS_Difference DEF NewRows
  <2>. QED
    BY <2>1, FS_Singleton
<1>3. row \in Rows
  BY <1>1, <1>2 DEF NewRows
<1>4. PICK n \in Nat : n = Len(yieldedRows) /\ yieldedRows \in Seq(Rows)
  BY <1>1 DEF TrimTyped
<1>5. PICK rows : rows = Append(yieldedRows, row)
  OBVIOUS
<1>6. /\ rows \in Seq(Rows) /\ Len(rows) = n + 1 /\ rows[n + 1] = row
      /\ \A i \in 1 .. n : rows[i] = yieldedRows[i]
  BY <1>3, <1>4, <1>5
<1>7. (CHOOSE new \in NewRows : TRUE) = row
  BY <1>2
<1>8. Ring = SubSeq(rows, IF Len(rows) > K THEN Len(rows) - K + 1 ELSE 1, Len(rows))
  <2>1. rows = Append(yieldedRows, CHOOSE new \in NewRows : TRUE)
    BY <1>5, <1>7
  <2>. QED
    BY <2>1 DEF Ring
<1>9. PICK a \in Nat : (n + 1 > K => a = n + 1 - K) /\ (~(n + 1 > K) => a = 0)
  <2>1. CASE n + 1 > K
    <3>1. n + 1 - K \in Nat
      BY <1>1, <2>1
    <3>. QED
      BY <2>1, <3>1
  <2>2. CASE ~(n + 1 > K)
    BY <2>2
  <2>. QED
    BY <2>1, <2>2
<1>10. PICK m \in Nat : m = IF n < K THEN n + 1 ELSE K
  BY <1>1
<1>11. a + m = n + 1 /\ a <= n + 1 /\ m # 0
  BY <1>1, <1>9, <1>10
<1>12. Ring = SubSeq(rows, a + 1, n + 1)
  <2>1. CASE n + 1 > K
    <3>1. a = n + 1 - K
      BY <1>9, <2>1
    <3>2. Len(rows) = n + 1
      BY <1>6
    <3>3. Ring = SubSeq(rows, Len(rows) - K + 1, Len(rows))
      BY <1>8, <2>1, <3>2
    <3>4. Len(rows) - K + 1 = a + 1
      BY <1>1, <3>1, <3>2
    <3>. QED
      BY <3>2, <3>3, <3>4
  <2>2. CASE ~(n + 1 > K)
    <3>1. a + 1 = 1
      BY <1>9, <2>2
    <3>. QED
      BY <1>6, <1>8, <2>2, <3>1
  <2>. QED
    BY <2>1, <2>2
<1>13. Ring \in Seq(Rows) /\ IsPart(Ring, rows, a, n + 1)
  <2>1. n + 1 \in Nat /\ n + 1 <= Len(rows)
    BY <1>6
  <2>. QED
    BY <1>6, <1>12, <2>1, PartIs
<1>14. Len(Ring) = m /\ \A i \in 1 .. m : Ring[i] = rows[a + i]
  <2>1. n + 1 - a = m
    BY <1>11
  <2>. QED
    BY <1>11, <1>13, <2>1 DEF IsPart
<1>15. \A i \in 1 .. m - 1 : n + 1 - m + i \in 1 .. n /\ Ring[i] = yieldedRows[n + 1 - m + i]
  <2>1. \A i \in 1 .. m - 1 : i \in 1 .. m /\ a + i \in 1 .. n /\ n + 1 - m + i = a + i
    BY <1>11
  <2>. QED
    BY <1>6, <1>14, <2>1
<1>16. Ring[m] = row
  <2>1. m \in 1 .. m
    BY <1>11
  <2>. QED
    BY <1>6, <1>11, <1>14, <2>1
<1>. QED
  BY <1>2, <1>3, <1>4, <1>10, <1>13, <1>14, <1>15, <1>16

\* Its points are in the table.
LEMMA RingIsKnown ==
  ASSUME TrimSpaceIs, TrimInv, Asks, Cardinality(NewRows) = 1
  PROVE  \A i \in 1 .. Len(Ring) : Ring[i][1] \in DOMAIN measured
<1>1. TrimTyped /\ sampled \in Nat /\ K \in Nat \ {0}
  BY AsksFacts
<1>2. PICK row \in Rows, m, n \in Nat :
           /\ NewRows = {row} /\ n = Len(yieldedRows)
           /\ m = IF n < K THEN n + 1 ELSE K
           /\ Ring \in Seq(Rows) /\ Len(Ring) = m
           /\ \A i \in 1 .. m - 1 : n + 1 - m + i \in 1 .. n /\ Ring[i] = yieldedRows[n + 1 - m + i]
           /\ Ring[m] = row
  BY RingIs
<1>3. \A i \in 1 .. n : yieldedRows[i][1] \in DOMAIN measured
  BY <1>2 DEF TrimInv, Remembered
<1>4. row[1] \in DOMAIN measured
  <2>1. row \in Source
    BY <1>2 DEF NewRows
  <2>. QED
    BY <1>1, <2>1, SourceIs, PointsAre
<1>. SUFFICES ASSUME NEW i \in 1 .. m
              PROVE  Ring[i][1] \in DOMAIN measured
  BY <1>2
<1>5. CASE i = m
  BY <1>2, <1>4, <1>5
<1>6. CASE i # m
  <2>1. i \in 1 .. m - 1
    BY <1>2, <1>6
  <2>. QED
    BY <1>2, <1>3, <2>1
<1>. QED
  BY <1>5, <1>6

\* Without others it is that of the entity that was asked for before.
LEMMA NewRowIs ==
  ASSUME TrimSpaceIs, TrimInv, Asks, Cardinality(NewRows) = 1, others = 0, sampled # 0
  PROVE  /\ NewRows = {<<plan[sampled], 1>>}
         /\ Source = initialSource \cup RowsOf(1, sampled)
         /\ \A j \in 1 .. Len(plan) : plan[j] \notin PointsIn(initialSource)
         /\ IsWindow(yieldedRows, sampled - 1)
<1>1. Alone
  BY AsksFacts DEF TrimInv, Iterating
<1>2. /\ previousSource = initialSource \cup RowsOf(1, sampled - 1)
      /\ Source \in {previousSource, previousSource \cup RowsOf(sampled, sampled)}
      /\ \A j \in 1 .. Len(plan) : plan[j] \notin PointsIn(initialSource)
      /\ IsWindow(yieldedRows, sampled - 1)
  BY <1>1 DEF Alone
<1>3. sampled \in Nat
  BY AsksFacts
<1>4. RowsOf(sampled, sampled) = {<<plan[sampled], 1>>}
  <2>1. sampled .. sampled = {sampled}
    BY <1>3
  <2>. QED
    BY <2>1 DEF RowsOf
<1>5. NewRows # {}
  BY FS_EmptySet
<1>6. Source # previousSource
  BY <1>5 DEF NewRows
<1>7. Source = previousSource \cup {<<plan[sampled], 1>>}
  BY <1>2, <1>4, <1>6
<1>8. NewRows = {<<plan[sampled], 1>>}
  BY <1>5, <1>7 DEF NewRows
<1>9. RowsOf(1, sampled) = RowsOf(1, sampled - 1) \cup {<<plan[sampled], 1>>}
  <2>1. 1 .. sampled = (1 .. sampled - 1) \cup {sampled}
    BY <1>3
  <2>. QED
    BY <2>1 DEF RowsOf
<1>. QED
  BY <1>2, <1>7, <1>8, <1>9

\* So the window holds what was measured last.
LEMMA WindowMoves ==
  ASSUME TrimSpaceIs, TrimInv, Asks, Cardinality(NewRows) = 1, others = 0, sampled # 0
  PROVE  /\ IsWindow(Ring, sampled)
         /\ sampled >= K => ToSet(Ring) = RowsOf(sampled - K + 1, sampled)
<1>1. /\ NewRows = {<<plan[sampled], 1>>} /\ IsWindow(yieldedRows, sampled - 1)
  BY NewRowIs
<1>2. sampled \in Nat /\ K \in Nat \ {0}
  BY AsksFacts
<1>3. PICK row \in Rows, m, n \in Nat :
           /\ NewRows = {row} /\ n = Len(yieldedRows)
           /\ m = IF n < K THEN n + 1 ELSE K
           /\ Ring \in Seq(Rows) /\ Len(Ring) = m
           /\ \A i \in 1 .. m - 1 : n + 1 - m + i \in 1 .. n /\ Ring[i] = yieldedRows[n + 1 - m + i]
           /\ Ring[m] = row
  BY RingIs
<1>4. row = <<plan[sampled], 1>>
  BY <1>1, <1>3
<1>5. /\ n = IF sampled - 1 < K THEN sampled - 1 ELSE K
      /\ \A i \in 1 .. n : yieldedRows[i] = <<plan[sampled - 1 - n + i], 1>>
  BY <1>1, <1>3 DEF IsWindow
<1>6. m = IF sampled < K THEN sampled ELSE K
  BY <1>2, <1>3, <1>5
<1>7. \A i \in 1 .. m : Ring[i] = <<plan[sampled - m + i], 1>>
  <2>. SUFFICES ASSUME NEW i \in 1 .. m
                PROVE  Ring[i] = <<plan[sampled - m + i], 1>>
    OBVIOUS
  <2>1. CASE i = m
    <3>1. sampled - m + m = sampled
      BY <1>2
    <3>. QED
      BY <1>3, <1>4, <2>1, <3>1
  <2>2. CASE i # m
    <3>1. i \in 1 .. m - 1
      BY <2>2
    <3>2. PICK j \in 1 .. n : j = n + 1 - m + i /\ Ring[i] = yieldedRows[j]
      BY <1>3, <3>1
    <3>3. sampled - 1 - n + j = sampled - m + i
      BY <1>2, <3>2
    <3>. QED
      BY <1>5, <3>2, <3>3
  <2>. QED
    BY <2>1, <2>2
<1>8. IsWindow(Ring, sampled)
  BY <1>3, <1>6, <1>7 DEF IsWindow
<1>9. ASSUME sampled >= K
      PROVE  ToSet(Ring) = RowsOf(sampled - K + 1, sampled)
  <2>1. m = K /\ DOMAIN Ring = 1 .. K
    BY <1>2, <1>3, <1>6, <1>9
  <2>2. \A i \in 1 .. K : sampled - K + i \in sampled - K + 1 .. sampled
    BY <1>2
  <2>3. \A j \in sampled - K + 1 .. sampled : \E i \in 1 .. K : j = sampled - K + i
    <3>. SUFFICES ASSUME NEW j \in sampled - K + 1 .. sampled
                  PROVE  \E i \in 1 .. K : j = sampled - K + i
      OBVIOUS
    <3>1. j - (sampled - K) \in 1 .. K /\ j = sampled - K + (j - (sampled - K))
      BY <1>2
    <3>. QED
      BY <3>1
  <2>4. ASSUME NEW old \in ToSet(Ring)
        PROVE  old \in RowsOf(sampled - K + 1, sampled)
    <3>1. PICK i \in 1 .. K : old = Ring[i]
      BY <2>1 DEF ToSet
    <3>2. old = <<plan[sampled - K + i], 1>>
      BY <1>7, <2>1, <3>1
    <3>. QED
      BY <2>2, <3>2 DEF RowsOf
  <2>5. ASSUME NEW j \in sampled - K + 1 .. sampled
        PROVE  <<plan[j], 1>> \in ToSet(Ring)
    <3>1. PICK i \in 1 .. K : j = sampled - K + i
      BY <2>3
    <3>2. Ring[i] = <<plan[j], 1>>
      BY <1>7, <2>1, <3>1
    <3>. QED
      BY <2>1, <3>2 DEF ToSet
  <2>. QED
    BY <2>4, <2>5 DEF RowsOf
<1>. QED
  BY <1>8, <1>9

\* One model, and what is said of its holdout set without others.
TestedOnNew(m, first) ==
  LET unseen == IF first THEN m.holdout ELSE m.new
  IN  /\ m.source = m.train \cup unseen
      /\ m.new \subseteq m.holdout
      /\ PointsIn(m.holdout) \ PointsIn(m.train) = PointsIn(unseen)

TestedOnLast(m) == PointsIn(m.holdout) = {plan[j] : j \in m.index - K + 1 .. m.index}

\* What is said of all models, one by one.
LEMMA ModelsOneByOne ==
  NewestIsUnseen <=>
    \A k \in DOMAIN models :
      TestedOnNew(models[k], k = 1) /\ (others = 0 => TestedOnLast(models[k]))
BY DEF NewestIsUnseen, TestedOnNew, TestedOnLast

\* The same after a step that keeps the plan.
LEMMA ModelsTestedNext ==
  ASSUME K' = K, plan' = plan,
         \A k \in DOMAIN models' :
           TestedOnNew(models'[k], k = 1) /\ (others' = 0 => TestedOnLast(models'[k]))
  PROVE  NewestIsUnseen'
<1>. SUFFICES ASSUME NEW k \in DOMAIN models'
              PROVE  LET m == models'[k]
                         unseen == IF k = 1 THEN m.holdout ELSE m.new
                     IN  /\ m.source = m.train \cup unseen
                         /\ m.new \subseteq m.holdout
                         /\ PointsIn(m.holdout) \ PointsIn(m.train) = PointsIn(unseen)
                         /\ others' = 0 =>
                              PointsIn(m.holdout) = {plan'[j] : j \in m.index - K' + 1 .. m.index}
  BY DEF NewestIsUnseen, PointsIn
<1>1. TestedOnNew(models'[k], k = 1) /\ (others' = 0 => TestedOnLast(models'[k]))
  OBVIOUS
<1>. QED
  BY <1>1 DEF TestedOnNew, TestedOnLast

\* Nothing that happens later changes it.
LEMMA ModelsStay ==
  ASSUME TrimInv, UNCHANGED <<models, plan, params>>, others' = 0 => others = 0
  PROVE  NewestIsUnseen'
<1>1. NewestIsUnseen
  BY DEF TrimInv
<1>2. \A k \in DOMAIN models :
        TestedOnNew(models[k], k = 1) /\ (others = 0 => TestedOnLast(models[k]))
  BY <1>1, ModelsOneByOne
<1>3. K' = K
  BY DEF K
<1>. QED
  BY <1>2, <1>3, ModelsTestedNext

\* The points of rows.
LEMMA PointsOfRows ==
  ASSUME NEW m \in Nat, NEW n \in Nat
  PROVE  PointsIn(RowsOf(m, n)) = {plan[j] : j \in m .. n}
<1>1. ASSUME NEW p \in PointsIn(RowsOf(m, n))
      PROVE  p \in {plan[j] : j \in m .. n}
  <2>1. PICK row \in RowsOf(m, n) : p = row[1]
    BY DEF PointsIn
  <2>2. PICK j \in m .. n : row = <<plan[j], 1>>
    BY DEF RowsOf
  <2>. QED
    BY <2>1, <2>2
<1>2. ASSUME NEW j \in m .. n
      PROVE  plan[j] \in PointsIn(RowsOf(m, n))
  <2>1. <<plan[j], 1>> \in RowsOf(m, n) /\ <<plan[j], 1>>[1] = plan[j]
    BY DEF RowsOf
  <2>. QED
    BY <2>1 DEF PointsIn
<1>. QED
  BY <1>1, <1>2

\* Rows of the table that differ are of different points.
LEMMA PointsDiffer ==
  ASSUME TrimSpaceIs, TrimTyped, NEW some \in SUBSET Source, NEW rest \in SUBSET Source,
         some \cap rest = {}
  PROVE  PointsIn(some) \cap PointsIn(rest) = {}
<1>1. \A row, other \in Source : row[1] = other[1] => row = other
  BY SourceIs, PointsAre
<1>. QED
  BY <1>1 DEF PointsIn

\* The model that is trained for an entity.
NewModel ==
  [index |-> sampled, train |-> TrainRows, holdout |-> Holdout, new |-> NewRows,
   source |-> Source]

\* What its holdout set has that it has not seen.
LEMMA NewModelIsTested ==
  ASSUME TrimSpaceIs, TrimInv, Asks, sampled >= K, Cardinality(NewRows) = 1
  PROVE  NewModel \in Trained /\ TestedOnNew(NewModel, sampled = K)
<1>1. /\ TrimTyped /\ Source \in SUBSET Rows /\ IsFiniteSet(Source)
      /\ sampled \in Nat /\ K \in Nat \ {0}
  BY AsksFacts
<1>2. PICK row \in Rows, m, n \in Nat :
           /\ NewRows = {row} /\ n = Len(yieldedRows)
           /\ m = IF n < K THEN n + 1 ELSE K
           /\ Ring \in Seq(Rows) /\ Len(Ring) = m
           /\ \A i \in 1 .. m - 1 : n + 1 - m + i \in 1 .. n /\ Ring[i] = yieldedRows[n + 1 - m + i]
           /\ Ring[m] = row
  BY RingIs
<1>3. ToSet(Ring) \in SUBSET Rows /\ row \in ToSet(Ring)
  <2>1. m \in 1 .. m
    BY <1>1, <1>2
  <2>2. DOMAIN Ring = 1 .. m /\ \A i \in 1 .. m : Ring[i] \in Rows
    BY <1>2
  <2>. QED
    BY <1>2, <2>1, <2>2 DEF ToSet
<1>4. NewRows = Source \ previousSource
  BY DEF NewRows
<1>5. initialSource \cap Source \subseteq previousSource
  BY DEF TrimInv, Remembered
<1>6. CASE sampled = K
  <2>1. Holdout = Source \ initialSource /\ TrainRows = Source \cap initialSource
    BY <1>6 DEF Holdout, TrainRows
  <2>2. NewModel \in Trained
    BY <1>1, <1>4, <2>1 DEF NewModel, Trained
  <2>3. PointsIn(Holdout) \ PointsIn(TrainRows) = PointsIn(Holdout)
    <3>1. TrainRows \in SUBSET Source /\ Holdout \in SUBSET Source /\ TrainRows \cap Holdout = {}
      BY <2>1
    <3>2. PointsIn(TrainRows) \cap PointsIn(Holdout) = {}
      BY <1>1, <3>1, PointsDiffer
    <3>. QED
      BY <3>2
  <2>4. Source = TrainRows \cup Holdout /\ NewRows \subseteq Holdout
    BY <1>4, <1>5, <2>1
  <2>. QED
    BY <1>6, <2>2, <2>3, <2>4 DEF TestedOnNew, NewModel
<1>7. CASE sampled # K
  <2>1. Holdout = ToSet(Ring) /\ TrainRows = Source \cap previousSource
    BY <1>7 DEF Holdout, TrainRows
  <2>2. NewModel \in Trained
    BY <1>1, <1>3, <1>4, <2>1 DEF NewModel, Trained
  <2>4. Source = TrainRows \cup NewRows /\ NewRows \subseteq Holdout
    BY <1>2, <1>3, <1>4, <2>1
  <2>3. PointsIn(Holdout) \ PointsIn(TrainRows) = PointsIn(NewRows)
    <3>1. TrainRows \in SUBSET Source /\ NewRows \in SUBSET Source /\ TrainRows \cap NewRows = {}
      BY <1>4, <2>1
    <3>2. PointsIn(TrainRows) \cap PointsIn(NewRows) = {}
      BY <1>1, <3>1, PointsDiffer
    <3>3. PointsIn(NewRows) \subseteq PointsIn(Holdout)
      BY <2>4 DEF PointsIn
    <3>4. PointsIn(Holdout) \subseteq PointsIn(Source)
      <4>. SUFFICES ASSUME NEW known \in Holdout
                    PROVE  known[1] \in PointsIn(Source)
        BY DEF PointsIn
      <4>1. PICK i \in DOMAIN Ring : known = Ring[i]
        BY <2>1 DEF ToSet
      <4>2. i \in 1 .. Len(Ring)
        BY <1>2, <4>1
      <4>3. known[1] \in DOMAIN measured
        BY <4>1, <4>2, RingIsKnown
      <4>4. <<known[1], measured[known[1]]>> \in Source
        BY <4>3 DEF Source
      <4>. QED
        BY <4>4 DEF PointsIn
    <3>5. PointsIn(Source) = PointsIn(TrainRows) \cup PointsIn(NewRows)
      BY <2>4 DEF PointsIn
    <3>. QED
      BY <3>2, <3>3, <3>4, <3>5
  <2>. QED
    BY <1>7, <2>2, <2>3, <2>4 DEF TestedOnNew, NewModel
<1>. QED
  BY <1>6, <1>7

\* Without others that is what was sampled last.
LEMMA NewModelIsTestedOnLast ==
  ASSUME TrimSpaceIs, TrimInv, Asks, sampled >= K, Cardinality(NewRows) = 1, others = 0
  PROVE  TestedOnLast(NewModel)
<1>1. sampled \in Nat /\ K \in Nat \ {0} /\ sampled # 0 /\ sampled + 1 \in 1 .. Len(plan)
  BY AsksFacts
<1>2. /\ Source = initialSource \cup RowsOf(1, sampled)
      /\ \A j \in 1 .. Len(plan) : plan[j] \notin PointsIn(initialSource)
  BY <1>1, NewRowIs
<1>3. Holdout = RowsOf(sampled - K + 1, sampled)
  <2>1. CASE sampled = K
    <3>1. Holdout = Source \ initialSource /\ sampled - K + 1 = 1
      BY <1>1, <2>1 DEF Holdout
    <3>2. RowsOf(1, sampled) \cap initialSource = {}
      <4>. SUFFICES ASSUME NEW j \in 1 .. sampled, <<plan[j], 1>> \in initialSource
                    PROVE  FALSE
        BY DEF RowsOf
      <4>1. j \in 1 .. Len(plan)
        BY <1>1, AsksFacts
      <4>2. plan[j] \in PointsIn(initialSource)
        BY DEF PointsIn
      <4>. QED
        BY <1>2, <4>1, <4>2
    <3>. QED
      BY <1>2, <3>1, <3>2
  <2>2. CASE sampled # K
    <3>1. Holdout = ToSet(Ring)
      BY <2>2 DEF Holdout
    <3>. QED
      BY <1>1, <3>1, WindowMoves
  <2>. QED
    BY <2>1, <2>2
<1>4. sampled - K + 1 \in Nat
  BY <1>1
<1>5. PointsIn(Holdout) = {plan[j] : j \in sampled - K + 1 .. sampled}
  BY <1>1, <1>3, <1>4, PointsOfRows
<1>. QED
  BY <1>5 DEF TestedOnLast, NewModel

\* So models are recorded that are tested as they should.
LEMMA ModelIsRecorded ==
  ASSUME TrimSpaceIs, TrimInv, Frame, ModelTrained, UNCHANGED <<plan, others>>
  PROVE  /\ NewestIsUnseen' /\ models' \in Seq(Trained)
         /\ Len(models') = sampled - K + 1 /\ models'[Len(models')].source = Source
         /\ sampled # 0 /\ Asks /\ Cardinality(NewRows) = 1
         /\ yieldedRows' = Ring /\ previousSource' = Source
<1>1. /\ Asks /\ sampled >= K /\ Cardinality(NewRows) = 1
      /\ yieldedRows' = Ring /\ previousSource' = Source
      /\ models' = Append(models, NewModel)
  BY DEF ModelTrained, NewModel
<1>2. /\ TrimTyped /\ sampled \in Nat /\ K \in Nat \ {0}
      /\ Len(models) = IF sampled < K THEN 0 ELSE sampled - K
  BY <1>1, AsksFacts
<1>3. models \in Seq(Trained) /\ Len(models) = sampled - K /\ sampled # 0
  <2>1. ~(sampled < K)
    BY <1>1, <1>2
  <2>. QED
    BY <1>2, <2>1 DEF TrimTyped
<1>4. NewModel \in Trained /\ TestedOnNew(NewModel, sampled = K)
  BY <1>1, NewModelIsTested
<1>5. others = 0 => TestedOnLast(NewModel)
  BY <1>1, NewModelIsTestedOnLast
<1>6. PICK n \in Nat : n = Len(models) /\ n = sampled - K
  BY <1>1, <1>2, <1>3
<1>7. /\ models' \in Seq(Trained) /\ Len(models') = n + 1 /\ DOMAIN models' = 1 .. n + 1
      /\ models'[n + 1] = NewModel /\ \A k \in 1 .. n : models'[k] = models[k]
  BY <1>1, <1>3, <1>4, <1>6
<1>9. \A k \in 1 .. n + 1 :
        TestedOnNew(models'[k], k = 1) /\ (others = 0 => TestedOnLast(models'[k]))
  <2>. SUFFICES ASSUME NEW k \in 1 .. n + 1
                PROVE  TestedOnNew(models'[k], k = 1)
                         /\ (others = 0 => TestedOnLast(models'[k]))
    OBVIOUS
  <2>1. CASE k = n + 1
    <3>1. (k = 1) <=> (sampled = K)
      BY <1>2, <1>6, <2>1
    <3>2. TestedOnNew(NewModel, k = 1)
      <4>1. CASE k = 1
        BY <1>4, <3>1, <4>1 DEF TestedOnNew
      <4>2. CASE k # 1
        BY <1>4, <3>1, <4>2 DEF TestedOnNew
      <4>. QED
        BY <4>1, <4>2
    <3>. QED
      BY <1>5, <1>7, <2>1, <3>2
  <2>2. CASE k # n + 1
    <3>1. k \in DOMAIN models /\ models'[k] = models[k]
      BY <1>3, <1>6, <1>7, <2>2
    <3>2. NewestIsUnseen
      BY DEF TrimInv
    <3>. QED
      BY <3>1, <3>2, ModelsOneByOne
  <2>. QED
    BY <2>1, <2>2
<1>10. NewestIsUnseen'
  <2>1. DOMAIN models' = 1 .. n + 1 /\ K' = K /\ UNCHANGED <<plan, others>>
    BY <1>7 DEF Frame, K
  <2>. QED
    BY <1>9, <2>1, ModelsTestedNext
<1>. QED
  BY <1>1, <1>3, <1>6, <1>7, <1>10 DEF NewModel

\* The sampler gives up, and everything stays as it was.
LEMMA RaiseKeeps ==
  ASSUME TrimInv, Frame, Raise, stage = "iterating",
         UNCHANGED <<measured, others, earlier, walkVars, modelVars>>
  PROVE  TrimInv'
<1>1. /\ TrimTyped /\ stage' = "raised" /\ finalModel = Untrained
      /\ UNCHANGED <<budget, plan, sampled, measuring, initialSource, previousSource,
                     yieldedRows, models, finalModel>>
  BY DEF TrimInv, Raise, walkVars, modelVars, Untried
<1>2. TrimTyped'
  BY <1>1, TypedOf, TypedStays
<1>3. Untried' /\ Enough' /\ Iterating' /\ Ended'
  BY <1>1 DEF Untried, Enough, Iterating, Ended, Untrained
<1>4. Remembered'
  BY <1>1 DEF TrimInv, Remembered, Source
<1>5. NewestIsUnseen'
  BY <1>1, ModelsStay DEF Frame
<1>. QED
  BY <1>2, <1>3, <1>4, <1>5 DEF TrimInv

\* What is requested for the next entity, and what is left to sample.
LEMMA NextIsRequested ==
  ASSUME TrimSpaceIs, TrimInv, Asks, Sampling(plan[sampled + 1])
  PROVE  /\ sampled' = sampled + 1 /\ sampled' \in Nat /\ sampled' <= Len(plan)
         /\ measuring' \in Seq(Requests)
         /\ others = 0 =>
              /\ \A j \in sampled + 1 .. Len(plan) : plan[j] \in Target
              /\ measuring' = <<[point |-> plan[sampled + 1], replayed |-> FALSE]>>
<1>1. /\ TrimTyped /\ measuring = <<>> /\ sampled \in Nat /\ Len(plan) \in Nat
      /\ sampled + 1 \in 1 .. Len(plan) /\ plan[sampled + 1] \in Points
      /\ stage = "iterating"
  BY AsksFacts
<1>2. sampled' = sampled + 1 /\ measuring' \in Seq(Requests)
  BY <1>1, SamplingTyped
<1>3. sampled' \in Nat /\ sampled' <= Len(plan)
  BY <1>1, <1>2
<1>4. ASSUME others = 0
      PROVE  /\ \A j \in sampled + 1 .. Len(plan) : plan[j] \in Target
             /\ measuring' = <<[point |-> plan[sampled + 1], replayed |-> FALSE]>>
  <2>1. \A j \in sampled + 1 .. Len(plan) : plan[j] \in Target
    BY <1>1, <1>4 DEF TrimInv, Iterating
  <2>2. sampled + 1 \in sampled + 1 .. Len(plan)
    BY <1>1
  <2>3. (plan[sampled + 1] \in DOMAIN measured) = FALSE
    BY <2>1, <2>2 DEF Target
  <2>4. measuring' = Append(<<>>, [point |-> plan[sampled + 1], replayed |-> FALSE])
    BY <1>1, <2>3 DEF Sampling
  <2>. QED
    BY <2>1, <2>4
<1>. QED
  BY <1>2, <1>3, <1>4

\* The first entity is requested when nothing has been read before.
LEMMA FirstEntityKeeps ==
  ASSUME TrimSpaceIs, TrimInv, Frame, FirstEntity
  PROVE  TrimInv'
<1>1. /\ Asks /\ sampled = 0 /\ initialSource' = Source /\ previousSource' = Source
      /\ Sampling(plan[sampled + 1])
      /\ UNCHANGED <<stage, measured, others, plan, yieldedRows, models, finalModel>>
  BY DEF FirstEntity
<1>2. /\ TrimTyped /\ stage = "iterating" /\ K \in Nat \ {0} /\ Len(plan) \in Nat
      /\ IsInjective(plan) /\ Source # {} /\ Source \in SUBSET Rows
      /\ Len(models) = IF sampled < K THEN 0 ELSE sampled - K
      /\ finalModel = Untrained
  BY <1>1, AsksFacts
<1>3. /\ sampled' = 1 /\ sampled' \in Nat /\ sampled' <= Len(plan)
      /\ measuring' \in Seq(Requests)
      /\ others = 0 =>
           /\ \A j \in 1 .. Len(plan) : plan[j] \in Target
           /\ measuring' = <<[point |-> plan[1], replayed |-> FALSE]>>
  BY <1>1, NextIsRequested
<1>4. Points' = Points /\ Rows' = Rows /\ Trained' = Trained /\ Requests' = Requests
  BY PointsStay DEF Frame
<1>5. Source' = Source /\ Target' = Target /\ K' = K
  BY <1>1, <1>4 DEF Source, Target, Frame, K
<1>6. TrimTyped'
  BY <1>1, <1>2, <1>3, <1>4 DEF TrimTyped, Frame
<1>7. Untried' /\ Ended'
  BY <1>1, <1>2 DEF Untried, Ended, Untrained
<1>8. Remembered'
  <2>1. \A row \in Source : row[1] \in DOMAIN measured /\ row[2] <= measured[row[1]]
    <3>1. \A row \in Source : row[1] \in DOMAIN measured /\ row[2] = measured[row[1]]
      BY <1>2, SourceIs, PointsAre
    <3>2. \A p \in DOMAIN measured : measured[p] \in Nat
      BY <1>2 DEF TrimTyped
    <3>. QED
      BY <3>1, <3>2
  <2>2. \A i \in 1 .. Len(yieldedRows) : yieldedRows[i][1] \in DOMAIN measured
    BY DEF TrimInv, Remembered
  <2>. QED
    BY <1>1, <1>5, <2>1, <2>2 DEF Remembered
<1>9. Enough'
  BY <1>1, <1>5 DEF TrimInv, Enough, Frame
<1>10. Iterating'
  <2>1. Len(models') = 0 /\ (IF sampled' < K THEN 0 ELSE sampled' - K) = 0
    <3>1. Len(models) = 0
      BY <1>1, <1>2
    <3>2. CASE 1 < K
      BY <1>1, <1>3, <3>1, <3>2
    <3>3. CASE ~(1 < K)
      <4>1. K = 1
        BY <1>2, <3>3
      <4>. QED
        BY <1>1, <1>3, <3>1, <4>1
    <3>. QED
      BY <3>2, <3>3
  <2>2. ASSUME others' = 0
        PROVE  (\A j \in sampled' + 1 .. Len(plan') : plan'[j] \in Target') /\ Alone'
    <3>1. /\ \A j \in 1 .. Len(plan) : plan[j] \in Target
          /\ measuring' = <<[point |-> plan[1], replayed |-> FALSE]>>
      BY <1>1, <1>3, <2>2
    <3>2. yieldedRows' = <<>>
      BY <1>1, <1>2, <2>2 DEF TrimInv, Iterating, Alone
    <3>3. IsWindow(yieldedRows, sampled - 1)'
      <4>1. sampled' - 1 = 0 /\ Len(yieldedRows') = 0 /\ 1 .. 0 = {}
        BY <1>3, <3>2
      <4>2. (IF 0 < K THEN 0 ELSE K) = 0
        BY <1>2
      <4>. QED
        BY <1>5, <4>1, <4>2 DEF IsWindow
    <3>4. RowsOf(1, sampled - 1)' = {}
      <4>1. 1 .. sampled' - 1 = {}
        BY <1>3
      <4>. QED
        BY <4>1 DEF RowsOf
    <3>5. \A j \in 1 .. Len(plan) : plan[j] \notin PointsIn(Source)
      <4>1. \A row \in Source : row[1] \in DOMAIN measured
        BY <1>2, SourceIs, PointsAre
      <4>. QED
        BY <3>1, <4>1 DEF PointsIn, Target
    <3>6. Alone'
      <4>1. sampled' # 0
        BY <1>3
      <4>2. PointsIn(initialSource)' = PointsIn(Source)
        BY <1>1 DEF PointsIn
      <4>3. plan'[sampled'] = plan[1] /\ Len(plan') = Len(plan)
        BY <1>1, <1>3
      <4>. QED
        BY <1>1, <1>5, <3>1, <3>3, <3>4, <3>5, <4>1, <4>2, <4>3 DEF Alone
    <3>7. \A j \in sampled' + 1 .. Len(plan') : plan'[j] \in Target'
      <4>1. \A j \in 2 .. Len(plan) : j \in 1 .. Len(plan)
        BY <1>2
      <4>. QED
        BY <1>1, <1>3, <1>5, <3>1, <4>1
    <3>. QED
      BY <3>6, <3>7
  <2>. QED
    BY <1>1, <1>2, <1>3, <1>5, <2>1, <2>2 DEF Iterating
<1>11. NewestIsUnseen'
  BY <1>1, ModelsStay DEF Frame
<1>. QED
  BY <1>6, <1>7, <1>8, <1>9, <1>10, <1>11 DEF TrimInv

\* The window and what was read from the table move on together.
LEMMA Advances ==
  ASSUME TrimSpaceIs, TrimInv, Frame, Asks, sampled # 0, Cardinality(NewRows) = 1,
         yieldedRows' = Ring, previousSource' = Source, Sampling(plan[sampled + 1]),
         UNCHANGED <<stage, measured, others, plan, initialSource, finalModel>>,
         models' \in Seq(Trained), NewestIsUnseen',
         Len(models') = IF sampled + 1 < K THEN 0 ELSE sampled + 1 - K
  PROVE  TrimInv'
<1>1. /\ TrimTyped /\ stage = "iterating" /\ K \in Nat \ {0} /\ Len(plan) \in Nat
      /\ sampled \in Nat /\ IsInjective(plan) /\ Source # {} /\ Source \in SUBSET Rows
      /\ finalModel = Untrained
  BY AsksFacts
<1>2. /\ sampled' = sampled + 1 /\ sampled' \in Nat /\ sampled' <= Len(plan)
      /\ measuring' \in Seq(Requests)
      /\ others = 0 =>
           /\ \A j \in sampled + 1 .. Len(plan) : plan[j] \in Target
           /\ measuring' = <<[point |-> plan[sampled + 1], replayed |-> FALSE]>>
  BY NextIsRequested
<1>3. Points' = Points /\ Rows' = Rows /\ Trained' = Trained /\ Requests' = Requests
  BY PointsStay DEF Frame
<1>4. Source' = Source /\ Target' = Target /\ K' = K
  BY <1>3 DEF Source, Target, Frame, K
<1>5. Ring \in Seq(Rows)
  BY RingIs
<1>6. TrimTyped'
  BY <1>1, <1>2, <1>3, <1>5 DEF TrimTyped, Frame
<1>7. Untried' /\ Ended'
  BY <1>1 DEF Untried, Ended, Untrained
<1>8. Remembered'
  <2>1. \A row \in Source : row[1] \in DOMAIN measured /\ row[2] <= measured[row[1]]
    <3>1. \A row \in Source : row[1] \in DOMAIN measured /\ row[2] = measured[row[1]]
      BY <1>1, SourceIs, PointsAre
    <3>2. \A p \in DOMAIN measured : measured[p] \in Nat
      BY <1>1 DEF TrimTyped
    <3>. QED
      BY <3>1, <3>2
  <2>2. \A row \in initialSource : row[1] \in DOMAIN measured /\ row[2] <= measured[row[1]]
    BY DEF TrimInv, Remembered
  <2>3. \A i \in 1 .. Len(Ring) : Ring[i][1] \in DOMAIN measured
    BY RingIsKnown
  <2>. QED
    BY <1>4, <2>1, <2>2, <2>3 DEF Remembered
<1>9. Enough'
  BY <1>4 DEF TrimInv, Enough, Frame
<1>10. Iterating'
  <2>1. ASSUME others' = 0
        PROVE  (\A j \in sampled' + 1 .. Len(plan') : plan'[j] \in Target') /\ Alone'
    <3>1. /\ \A j \in sampled + 1 .. Len(plan) : plan[j] \in Target
          /\ measuring' = <<[point |-> plan[sampled + 1], replayed |-> FALSE]>>
      BY <1>2, <2>1
    <3>2. /\ Source = initialSource \cup RowsOf(1, sampled)
          /\ \A j \in 1 .. Len(plan) : plan[j] \notin PointsIn(initialSource)
          /\ IsWindow(Ring, sampled)
      BY <2>1, NewRowIs, WindowMoves
    <3>3. sampled' - 1 = sampled /\ sampled' # 0 /\ plan'[sampled'] = plan[sampled + 1]
      BY <1>1, <1>2
    <3>4. IsWindow(yieldedRows, sampled - 1)'
      BY <1>4, <3>2, <3>3 DEF IsWindow
    <3>5. RowsOf(1, sampled - 1)' = RowsOf(1, sampled)
      BY <3>3 DEF RowsOf
    <3>6. PointsIn(initialSource)' = PointsIn(initialSource)
      BY DEF PointsIn
    <3>7. Alone'
      BY <1>4, <3>1, <3>2, <3>3, <3>4, <3>5, <3>6 DEF Alone
    <3>8. \A j \in sampled' + 1 .. Len(plan') : plan'[j] \in Target'
      <4>1. \A j \in sampled' + 1 .. Len(plan) : j \in sampled + 1 .. Len(plan)
        BY <1>1, <1>2
      <4>. QED
        BY <1>4, <3>1, <4>1
    <3>. QED
      BY <3>7, <3>8
  <2>. QED
    BY <1>1, <1>2, <1>4, <2>1 DEF Iterating
<1>. QED
  BY <1>6, <1>7, <1>8, <1>9, <1>10 DEF TrimInv

\* Before the holdout set is full, only the window moves.
LEMMA NextEntityKeeps ==
  ASSUME TrimSpaceIs, TrimInv, Frame, NextEntity
  PROVE  TrimInv'
<1>1. /\ Asks /\ sampled \in 1 .. K - 1 /\ Cardinality(NewRows) = 1
      /\ yieldedRows' = Ring /\ previousSource' = Source /\ Sampling(plan[sampled + 1])
      /\ UNCHANGED <<stage, measured, others, plan, initialSource, models, finalModel>>
  BY DEF NextEntity
<1>2. /\ TrimTyped /\ K \in Nat \ {0} /\ sampled \in Nat
      /\ Len(models) = IF sampled < K THEN 0 ELSE sampled - K
  BY <1>1, AsksFacts
<1>3. models' \in Seq(Trained) /\ NewestIsUnseen'
  BY <1>1, <1>2, ModelsStay DEF TrimTyped, Frame
<1>4. Len(models') = IF sampled + 1 < K THEN 0 ELSE sampled + 1 - K
  <2>1. Len(models') = 0
    BY <1>1, <1>2
  <2>2. CASE sampled + 1 < K
    BY <2>1, <2>2
  <2>3. CASE ~(sampled + 1 < K)
    <3>1. sampled + 1 - K = 0
      BY <1>1, <1>2, <2>3
    <3>. QED
      BY <2>1, <2>3, <3>1
  <2>. QED
    BY <2>2, <2>3
<1>5. sampled # 0
  BY <1>1
<1>. QED
  BY <1>1, <1>3, <1>4, <1>5, Advances

\* From then on a model is trained for every entity.
LEMMA ContinuesKeeps ==
  ASSUME TrimSpaceIs, TrimInv, Frame, Continues
  PROVE  TrimInv'
<1>1. /\ ModelTrained /\ Sampling(plan[sampled + 1])
      /\ UNCHANGED <<stage, measured, others, plan, initialSource, finalModel>>
  BY DEF Continues
<1>2. /\ NewestIsUnseen' /\ models' \in Seq(Trained) /\ Len(models') = sampled - K + 1
      /\ sampled # 0 /\ Asks /\ Cardinality(NewRows) = 1
      /\ yieldedRows' = Ring /\ previousSource' = Source
  BY <1>1, ModelIsRecorded
<1>3. Len(models') = IF sampled + 1 < K THEN 0 ELSE sampled + 1 - K
  <2>1. sampled \in Nat /\ K \in Nat /\ sampled >= K
    BY <1>1, <1>2, AsksFacts DEF ModelTrained
  <2>2. ~(sampled + 1 < K) /\ sampled + 1 - K = sampled - K + 1
    BY <2>1
  <2>. QED
    BY <1>2, <2>2
<1>. QED
  BY <1>1, <1>2, <1>3, Advances

\* It stops with two windows of models.
LEMMA StopsKeeps ==
  ASSUME TrimSpaceIs, TrimInv, Frame, Stops
  PROVE  TrimInv'
<1>1. /\ ModelTrained /\ sampled >= 3 * K - 1 /\ stage' = "finalizing"
      /\ UNCHANGED <<measured, others, budget, plan, sampled, measuring, initialSource,
                     finalModel>>
  BY DEF Stops, walkVars
<1>2. /\ NewestIsUnseen' /\ models' \in Seq(Trained) /\ Len(models') = sampled - K + 1
      /\ models'[Len(models')].source = Source
      /\ Asks /\ Cardinality(NewRows) = 1
      /\ yieldedRows' = Ring /\ previousSource' = Source
  BY <1>1, ModelIsRecorded
<1>3. /\ TrimTyped /\ stage = "iterating" /\ K \in Nat \ {0} /\ sampled \in Nat
      /\ Source # {} /\ Source \in SUBSET Rows /\ finalModel = Untrained
  BY <1>2, AsksFacts
<1>4. Points' = Points /\ Rows' = Rows /\ Trained' = Trained /\ Requests' = Requests
  BY PointsStay DEF Frame
<1>5. Source' = Source /\ K' = K
  BY <1>1 DEF Source, Frame, K
<1>6. Ring \in Seq(Rows)
  BY <1>2, RingIs
<1>7. TrimTyped'
  BY <1>1, <1>2, <1>3, <1>4, <1>6 DEF TrimTyped, Frame
<1>8. Untried' /\ Iterating'
  BY <1>1, <1>3 DEF Untried, Iterating, Untrained
<1>9. Remembered'
  <2>1. \A row \in Source : row[1] \in DOMAIN measured /\ row[2] <= measured[row[1]]
    <3>1. \A row \in Source : row[1] \in DOMAIN measured /\ row[2] = measured[row[1]]
      BY <1>3, SourceIs, PointsAre
    <3>2. \A p \in DOMAIN measured : measured[p] \in Nat
      BY <1>3 DEF TrimTyped
    <3>. QED
      BY <3>1, <3>2
  <2>2. \A row \in initialSource : row[1] \in DOMAIN measured /\ row[2] <= measured[row[1]]
    BY DEF TrimInv, Remembered
  <2>3. \A i \in 1 .. Len(Ring) : Ring[i][1] \in DOMAIN measured
    BY <1>2, RingIsKnown
  <2>. QED
    BY <1>1, <1>2, <1>5, <2>1, <2>2, <2>3 DEF Remembered
<1>10. Enough'
  BY <1>1, <1>3, <1>5 DEF TrimInv, Enough, Frame
<1>11. Ended'
  <2>1. Len(models') >= 2 * K'
    BY <1>1, <1>2, <1>3, <1>5
  <2>. QED
    BY <1>1, <1>2, <1>3, <1>5, <2>1 DEF Ended
<1>. QED
  BY <1>2, <1>7, <1>8, <1>9, <1>10, <1>11 DEF TrimInv

\* The final model is trained on what the last one knew, or more.
LEMMA FinalizeModelKeeps ==
  ASSUME TrimSpaceIs, TrimInv, Frame, FinalizeModel
  PROVE  TrimInv'
<1>1. /\ stage = "finalizing" /\ stage' = "done" /\ finalModel' = Source
      /\ UNCHANGED <<measured, others, budget, plan, sampled, measuring,
                     initialSource, previousSource, yieldedRows, models>>
  BY DEF FinalizeModel, walkVars
<1>2. /\ TrimTyped /\ Source # {} /\ Len(models) >= 2 * K
      /\ others = 0 => Source = models[Len(models)].source
  BY <1>1 DEF TrimInv, Ended
<1>3. Points' = Points /\ Rows' = Rows /\ Trained' = Trained /\ Requests' = Requests
  BY PointsStay DEF Frame
<1>4. Source' = Source /\ K' = K /\ params' = params
  BY <1>1 DEF Source, Frame, K
<1>5. TrimTyped'
  BY <1>1, <1>2, <1>3 DEF TrimTyped, Frame
<1>6. Untried' /\ Iterating'
  BY <1>1 DEF Untried, Iterating
<1>7. Remembered'
  BY <1>1, <1>4 DEF TrimInv, Remembered
<1>8. Cardinality(Source) >= params.minPoints /\ Enough'
  BY <1>1, <1>4 DEF TrimInv, Enough
<1>9. Ended'
  <2>1. BudgetWellSpent'
    BY <1>1, <1>2, <1>4, <1>8 DEF BudgetWellSpent, Untrained
  <2>. QED
    BY <1>1, <2>1 DEF Ended
<1>10. NewestIsUnseen'
  BY <1>1, ModelsStay DEF Frame
<1>. QED
  BY <1>5, <1>6, <1>7, <1>8, <1>9, <1>10 DEF TrimInv

\* Or there is none, and the walk is at its end.
LEMMA IterationDoneKeeps ==
  ASSUME TrimSpaceIs, TrimInv, Frame, IterationDone
  PROVE  TrimInv'
<1>1. /\ stage = "iterating" /\ stage' = "done" /\ (sampled = budget \/ sampled = Len(plan))
      /\ UNCHANGED <<measured, others, budget, plan, sampled, measuring,
                     initialSource, previousSource, yieldedRows, models, finalModel>>
  BY DEF IterationDone, walkVars, modelVars
<1>2. TrimTyped /\ finalModel = Untrained
  BY <1>1 DEF TrimInv, Untried
<1>3. Points' = Points /\ Rows' = Rows /\ Trained' = Trained /\ Requests' = Requests
  BY PointsStay DEF Frame
<1>4. Source' = Source /\ K' = K /\ params' = params
  BY <1>1 DEF Source, Frame, K
<1>5. TrimTyped'
  BY <1>1, <1>2, <1>3 DEF TrimTyped, Frame
<1>6. Untried' /\ Iterating'
  BY <1>1, <1>2 DEF Untried, Iterating
<1>7. Remembered'
  BY <1>1, <1>4 DEF TrimInv, Remembered
<1>8. Cardinality(Source) >= params.minPoints /\ Enough'
  BY <1>1, <1>4 DEF TrimInv, Enough
<1>9. Ended'
  <2>1. BudgetWellSpent'
    BY <1>1, <1>2, <1>4, <1>8 DEF BudgetWellSpent, Untrained
  <2>. QED
    BY <1>1, <2>1 DEF Ended
<1>10. NewestIsUnseen'
  BY <1>1, ModelsStay DEF Frame
<1>. QED
  BY <1>5, <1>6, <1>7, <1>8, <1>9, <1>10 DEF TrimInv

\* A request is taken away, from the only one nothing is left.
LEMMA FinishedTyped ==
  ASSUME TrimTyped, NEW k \in DOMAIN measuring, Finishes(k)
  PROVE  /\ measuring' \in Seq(Requests)
         /\ measuring[k] \in Requests
         /\ Len(measuring) = 1 => measuring' = <<>>
<1>1. measuring \in Seq(Requests) /\ k \in 1 .. Len(measuring)
  BY DEF TrimTyped
<1>2. measuring' \in Seq(Requests)
  BY <1>1, RemovedTyped DEF Finishes
<1>3. ASSUME Len(measuring) = 1
      PROVE  measuring' = <<>>
  <2>1. k = 1
    BY <1>1, <1>3
  <2>2. measuring' = SubSeq(measuring, 1, 0) \o SubSeq(measuring, 2, 1)
    BY <1>3, <2>1 DEF Finishes, RemoveAt
  <2>3. SubSeq(measuring, 1, 0) = <<>> /\ SubSeq(measuring, 2, 1) = <<>>
    BY <1>1
  <2>. QED
    BY <2>2, <2>3
<1>. QED
  BY <1>1, <1>2, <1>3

\* The parts of the invariant that say nothing of a walk alone.
LEMMA TableKeeps ==
  ASSUME TrimSpaceIs, TrimInv, Frame, Grown, stage \in {"noPriors", "iterating", "finalizing"},
         UNCHANGED <<stage, plan, sampled, modelVars>>,
         others' \in Nat, measuring' \in Seq(Requests), others' = 0 => others = 0,
         stage = "finalizing" => others' # 0,
         stage = "iterating" /\ others' = 0 =>
           (\A j \in sampled + 1 .. Len(plan) : plan[j] \in Target') /\ Alone'
  PROVE  TrimInv'
<1>1. /\ TrimTyped
      /\ UNCHANGED <<initialSource, previousSource, yieldedRows, models, finalModel>>
  BY DEF TrimInv, modelVars
<1>2. K' = K /\ params' = params
  BY DEF Frame, K
<1>3. TrimTyped'
  <2>1. DOMAIN measured' \subseteq Points /\ measured' \in [DOMAIN measured' -> Nat]
    BY DEF Grown
  <2>. QED
    BY <1>1, <2>1, TypedOf, TypedStays
<1>4. Untried'
  BY <1>1 DEF TrimInv, Untried, Untrained
<1>5. Remembered'
  BY <1>1, RememberedStays DEF TrimInv
<1>6. /\ Cardinality(Source) <= Cardinality(Source') /\ Cardinality(Source) \in Nat
      /\ Cardinality(Source') \in Nat
      /\ Source # {} => Source' # {}
  <2>1. IsFiniteSet(Points) /\ IsFiniteSet(Points')
    BY PointsAre, PointsStay DEF Frame
  <2>. QED
    BY <1>1, <2>1, EnoughStays, SourceIs
<1>7. Enough'
  <2>1. params.minPoints \in Nat
    BY <1>1, ParametersTyped
  <2>. QED
    BY <1>2, <1>6, <2>1 DEF TrimInv, Enough
<1>8. Iterating'
  <2>1. CASE stage = "iterating"
    <3>1. /\ IsInjective(plan) /\ sampled <= Len(plan) /\ Source # {}
          /\ Len(models) = IF sampled < K THEN 0 ELSE sampled - K
      BY <2>1 DEF TrimInv, Iterating
    <3>. QED
      BY <1>1, <1>2, <1>6, <2>1, <3>1 DEF Iterating
  <2>2. CASE stage # "iterating"
    BY <2>2 DEF Iterating
  <2>. QED
    BY <2>1, <2>2
<1>9. Ended'
  BY <1>1, <1>2, <1>6 DEF TrimInv, Ended
<1>10. NewestIsUnseen'
  BY <1>1, <1>2, ModelsStay
<1>. QED
  BY <1>3, <1>4, <1>5, <1>7, <1>8, <1>9, <1>10 DEF TrimInv

\* A table that stays is one that grows by nothing.
LEMMA GrownByNothing ==
  ASSUME TrimTyped, measured' = measured
  PROVE  Grown
<1>1. DOMAIN measured \subseteq Points /\ measured \in [DOMAIN measured -> Nat]
  BY DEF TrimTyped
<1>. QED
  BY <1>1 DEF Grown

\* What is being measured for the iterations, if nobody else measures.
LEMMA OneIsMeasured ==
  ASSUME TrimSpaceIs, TrimInv, stage = "iterating", others = 0, measuring # <<>>
  PROVE  /\ sampled \in 1 .. Len(plan) /\ plan[sampled] \in Points
         /\ measuring = <<[point |-> plan[sampled], replayed |-> FALSE]>>
         /\ Source = previousSource
         /\ plan[sampled] \notin DOMAIN measured
<1>1. /\ Alone /\ TrimTyped /\ IsInjective(plan) /\ sampled <= Len(plan)
  BY DEF TrimInv, Iterating
<1>2. plan \in Seq(Points) /\ sampled \in Nat
  BY <1>1 DEF TrimTyped
<1>3. sampled # 0
  BY <1>1 DEF Alone
<1>4. sampled \in 1 .. Len(plan) /\ plan[sampled] \in Points
  BY <1>1, <1>2, <1>3
<1>5. /\ previousSource = initialSource \cup RowsOf(1, sampled - 1)
      /\ Source = previousSource
      /\ measuring = <<[point |-> plan[sampled], replayed |-> FALSE]>>
      /\ \A j \in 1 .. Len(plan) : plan[j] \notin PointsIn(initialSource)
  BY <1>1, <1>3 DEF Alone
<1>6. plan[sampled] \notin DOMAIN measured
  <2>. SUFFICES ASSUME plan[sampled] \in DOMAIN measured
                PROVE  FALSE
    OBVIOUS
  <2>1. <<plan[sampled], measured[plan[sampled]]>> \in Source
    BY DEF Source
  <2>2. CASE <<plan[sampled], measured[plan[sampled]]>> \in initialSource
    <3>1. plan[sampled] \in PointsIn(initialSource)
      BY <2>2 DEF PointsIn
    <3>. QED
      BY <1>4, <1>5, <3>1
  <2>3. CASE <<plan[sampled], measured[plan[sampled]]>> \in RowsOf(1, sampled - 1)
    <3>1. PICK j \in 1 .. sampled - 1 :
            <<plan[sampled], measured[plan[sampled]]>> = <<plan[j], 1>>
      BY <2>3 DEF RowsOf
    <3>2. plan[sampled] = plan[j] /\ j \in DOMAIN plan /\ sampled \in DOMAIN plan /\ j # sampled
      BY <1>2, <1>4, <3>1
    <3>. QED
      BY <1>1, <3>2 DEF IsInjective
  <2>. QED
    BY <1>5, <2>1, <2>2, <2>3
<1>. QED
  BY <1>4, <1>5, <1>6

\* A measurement that ends without a value of the target changes no table.
LEMMA MeasurementHasNoTargetKeeps ==
  ASSUME TrimSpaceIs, TrimInv, Frame, NEW k \in DOMAIN measuring, MeasurementHasNoTarget(k)
  PROVE  TrimInv'
<1>1. /\ stage \in {"noPriors", "iterating"} /\ Finishes(k) /\ TrimTyped
      /\ UNCHANGED <<stage, measured, others, plan, sampled, modelVars>>
  BY DEF MeasurementHasNoTarget, MayFinish, TrimInv
<1>2. measuring' \in Seq(Requests) /\ (Len(measuring) = 1 => measuring' = <<>>)
  BY <1>1, FinishedTyped
<1>3. Grown /\ others \in Nat
  BY <1>1, GrownByNothing DEF TrimTyped
<1>4. ASSUME stage = "iterating", others' = 0
      PROVE  (\A j \in sampled + 1 .. Len(plan) : plan[j] \in Target') /\ Alone'
  <2>1. /\ Alone /\ \A j \in sampled + 1 .. Len(plan) : plan[j] \in Target
    BY <1>1, <1>4 DEF TrimInv, Iterating
  <2>2. Source' = Source /\ Target' = Target /\ K' = K
    BY <1>1, PointsStay DEF Source, Target, Frame, K
  <2>3. measuring # <<>> /\ others = 0
    BY <1>1, <1>4
  <2>4. measuring' = <<>> /\ sampled' # 0
    <3>1. Len(measuring) = 1 /\ sampled # 0
      BY <1>1, <1>4, <2>3, OneIsMeasured
    <3>. QED
      BY <1>1, <1>2, <3>1
  <2>5. Alone'
    <3>1. /\ UNCHANGED <<plan, sampled, initialSource, previousSource, yieldedRows>>
      BY <1>1 DEF modelVars
    <3>2. /\ RowsOf(1, sampled - 1)' = RowsOf(1, sampled - 1)
          /\ RowsOf(sampled, sampled)' = RowsOf(sampled, sampled)
          /\ PointsIn(initialSource)' = PointsIn(initialSource)
          /\ IsWindow(yieldedRows, sampled - 1)' <=> IsWindow(yieldedRows, sampled - 1)
      BY <2>2, <3>1 DEF RowsOf, PointsIn, IsWindow
    <3>. QED
      BY <2>1, <2>2, <2>4, <3>1, <3>2 DEF Alone
  <2>. QED
    BY <2>1, <2>2, <2>5
<1>. QED
  BY <1>1, <1>2, <1>3, <1>4, TableKeeps

\* A measurement that succeeds is a row more, or another mean.
LEMMA MeasurementSucceedsKeeps ==
  ASSUME TrimSpaceIs, TrimInv, Frame, NEW k \in DOMAIN measuring, MeasurementSucceeds(k)
  PROVE  TrimInv'
<1>1. /\ stage \in {"noPriors", "iterating"} /\ Finishes(k) /\ TrimTyped
      /\ UNCHANGED <<stage, others, plan, sampled, modelVars>>
      /\ measured' = IF measuring[k].replayed THEN measured
                       ELSE WithMeasurement(measuring[k].point)
  BY DEF MeasurementSucceeds, MayFinish, TrimInv
<1>2. /\ measuring' \in Seq(Requests) /\ (Len(measuring) = 1 => measuring' = <<>>)
      /\ measuring[k].point \in Points
  BY <1>1, FinishedTyped DEF Requests
<1>3. Grown /\ others \in Nat
  <2>1. CASE measuring[k].replayed
    BY <1>1, <2>1, GrownByNothing DEF TrimTyped
  <2>2. CASE ~measuring[k].replayed
    BY <1>1, <1>2, <2>2, TableGrows DEF TrimTyped
  <2>. QED
    BY <2>1, <2>2
<1>4. ASSUME stage = "iterating", others' = 0
      PROVE  (\A j \in sampled + 1 .. Len(plan) : plan[j] \in Target') /\ Alone'
  <2>1. /\ Alone /\ IsInjective(plan)
        /\ \A j \in sampled + 1 .. Len(plan) : plan[j] \in Target
    BY <1>1, <1>4 DEF TrimInv, Iterating
  <2>2. measuring # <<>> /\ others = 0
    BY <1>1, <1>4
  <2>3. /\ sampled \in 1 .. Len(plan) /\ plan[sampled] \in Points
        /\ measuring = <<[point |-> plan[sampled], replayed |-> FALSE]>>
        /\ Source = previousSource /\ plan[sampled] \notin DOMAIN measured
    BY <1>4, <2>2, OneIsMeasured
  <2>4. measured' = WithMeasurement(plan[sampled]) /\ measuring' = <<>>
    <3>1. k = 1 /\ Len(measuring) = 1
      BY <2>3
    <3>. QED
      BY <1>1, <1>2, <2>3, <3>1
  <2>5. /\ Source' = Source \cup {<<plan[sampled], 1>>}
        /\ DOMAIN measured' = DOMAIN measured \cup {plan[sampled]}
    BY <1>1, <2>3, <2>4, TableGrows
  <2>6. \A j \in sampled + 1 .. Len(plan) : plan[j] \in Target'
    <3>. SUFFICES ASSUME NEW j \in sampled + 1 .. Len(plan)
                  PROVE  plan[j] \in Target'
      OBVIOUS
    <3>1. plan \in Seq(Points) /\ sampled \in Nat
      BY <1>1 DEF TrimTyped
    <3>2. j \in DOMAIN plan /\ sampled \in DOMAIN plan /\ j # sampled
      BY <2>3, <3>1
    <3>3. plan[j] # plan[sampled]
      BY <2>1, <3>2 DEF IsInjective
    <3>4. Points' = Points
      BY PointsStay DEF Frame
    <3>. QED
      BY <2>1, <2>5, <3>3, <3>4 DEF Target
  <2>7. Alone'
    <3>1. /\ UNCHANGED <<plan, sampled, initialSource, previousSource, yieldedRows>>
          /\ sampled # 0 /\ K' = K
      BY <1>1, <2>3 DEF modelVars, Frame, K
    <3>2. /\ RowsOf(1, sampled - 1)' = RowsOf(1, sampled - 1)
          /\ RowsOf(sampled, sampled)' = RowsOf(sampled, sampled)
          /\ PointsIn(initialSource)' = PointsIn(initialSource)
          /\ IsWindow(yieldedRows, sampled - 1)' <=> IsWindow(yieldedRows, sampled - 1)
      BY <3>1 DEF RowsOf, PointsIn, IsWindow
    <3>3. RowsOf(sampled, sampled) = {<<plan[sampled], 1>>}
      <4>1. sampled .. sampled = {sampled}
        BY <2>3
      <4>. QED
        BY <4>1 DEF RowsOf
    <3>4. /\ previousSource = initialSource \cup RowsOf(1, sampled - 1)
          /\ \A j \in 1 .. Len(plan) : plan[j] \notin PointsIn(initialSource)
          /\ IsWindow(yieldedRows, sampled - 1)
      BY <2>1, <3>1 DEF Alone
    <3>5. Source' = previousSource' \cup RowsOf(sampled, sampled)'
      BY <2>3, <2>5, <3>1, <3>2, <3>3
    <3>. QED
      BY <2>4, <3>1, <3>2, <3>4, <3>5 DEF Alone
  <2>. QED
    BY <2>6, <2>7
<1>. QED
  BY <1>1, <1>2, <1>3, <1>4, TableKeeps

\* Other operations measure in the same space.
LEMMA OtherMeasuresKeeps ==
  ASSUME TrimSpaceIs, TrimInv, Frame, NEW p \in Points, OtherMeasures(p)
  PROVE  TrimInv'
<1>1. /\ TrimTyped /\ stage \notin {"done", "raised"} /\ measured' = WithMeasurement(p)
      /\ others' = others + 1
      /\ UNCHANGED <<stage, plan, sampled, measuring, modelVars>>
  BY DEF OtherMeasures, walkVars, TrimInv
<1>2. Grown /\ others' \in Nat /\ others' # 0 /\ measuring' \in Seq(Requests)
  <2>1. others \in Nat /\ measuring \in Seq(Requests)
    BY <1>1 DEF TrimTyped
  <2>2. Grown
    BY <1>1, TableGrows
  <2>. QED
    BY <1>1, <2>1, <2>2
<1>3. CASE stage \in {"noPriors", "iterating", "finalizing"}
  BY <1>1, <1>2, <1>3, TableKeeps
<1>4. CASE stage \in {"assessing", "sampler", "planning"}
  <2>1. TrimTyped'
    <3>1. DOMAIN measured' \subseteq Points /\ measured' \in [DOMAIN measured' -> Nat]
      BY <1>2 DEF Grown
    <3>. QED
      BY <1>1, <1>2, <3>1, TypedOf, TypedStays
  <2>2. stage \in {"sampler", "planning"} => sampled = 0 /\ measuring = <<>>
    BY DEF TrimInv, Untried
  <2>3. Untried' /\ Remembered' /\ Iterating' /\ Ended' /\ NewestIsUnseen'
    BY <1>1, <1>4, <2>2, EarlyKept
  <2>4. Enough'
    <3>1. IsFiniteSet(Points) /\ IsFiniteSet(Points')
      BY PointsAre, PointsStay DEF Frame
    <3>2. /\ Cardinality(Source) <= Cardinality(Source')
          /\ Cardinality(Source) \in Nat /\ Cardinality(Source') \in Nat
      BY <1>1, <1>2, <3>1, EnoughStays, SourceIs
    <3>3. params.minPoints \in Nat /\ params' = params
      BY <1>1, ParametersTyped DEF Frame
    <3>. QED
      BY <1>1, <1>4, <3>2, <3>3 DEF TrimInv, Enough
  <2>. QED
    BY <2>1, <2>3, <2>4 DEF TrimInv
<1>5. CASE stage \notin {"noPriors", "iterating", "finalizing", "assessing", "sampler", "planning"}
  <2>1. TrimTyped'
    <3>1. DOMAIN measured' \subseteq Points /\ measured' \in [DOMAIN measured' -> Nat]
      BY <1>2 DEF Grown
    <3>. QED
      BY <1>1, <1>2, <3>1, TypedOf, TypedStays
  <2>2. Untried' /\ Enough' /\ Iterating' /\ Ended'
    BY <1>1, <1>5 DEF TrimInv, Untried, Enough, Iterating, Ended, modelVars, Untrained
  <2>3. Remembered'
    BY <1>1, <1>2, RememberedStays DEF TrimInv, modelVars
  <2>4. NewestIsUnseen'
    BY <1>1, <1>2, ModelsStay DEF Frame, modelVars
  <2>. QED
    BY <2>1, <2>2, <2>3, <2>4 DEF TrimInv
<1>. QED
  BY <1>3, <1>4, <1>5

\* TRIM starts in a state of the invariant.
LEMMA TrimInvInit ==
  ASSUME TrimInit
  PROVE  TrimInv
<1>1. /\ space \in TrimSpaces /\ phase = "trim" /\ params \in TrimParameters
      /\ stage = "assessing" /\ others = 0 /\ sampled = 0 /\ plan = <<>> /\ measuring = <<>>
      /\ initialSource = {} /\ previousSource = {} /\ yieldedRows = <<>> /\ models = <<>>
      /\ finalModel = Untrained
  BY DEF TrimInit
<1>2. PICK points \in SUBSET Points : measured = [p \in points |-> 1]
  BY DEF TrimInit
<1>3. DOMAIN measured \subseteq Points /\ measured \in [DOMAIN measured -> Nat]
  BY <1>2
<1>4. TrimTyped
  BY <1>1, <1>3 DEF TrimTyped
<1>5. Untried /\ Remembered /\ Enough /\ Iterating /\ Ended
  BY <1>1 DEF Untried, Remembered, Enough, Iterating, Ended
<1>6. NewestIsUnseen
  <2>1. DOMAIN models = {}
    BY <1>1
  <2>. QED
    BY <2>1 DEF NewestIsUnseen
<1>. QED
  BY <1>4, <1>5, <1>6 DEF TrimInv

\* Every step preserves the invariant.
LEMMA TrimInvNext ==
  ASSUME WithoutRepetition(TrimSpaces), TrimInv, [TrimNext]_<<spaceVars, trimVars>>
  PROVE  TrimInv'
<1>1. TrimSpaceIs
  BY TrimSpaceTyped DEF TrimInv, TrimTyped
<1>2. CASE UNCHANGED <<spaceVars, trimVars>>
  <2>1. /\ Frame
        /\ UNCHANGED <<stage, measured, others, budget, plan, sampled, measuring,
                       initialSource, previousSource, yieldedRows, models, finalModel>>
    BY <1>2 DEF spaceVars, trimVars, walkVars, modelVars, Frame
  <2>2. /\ Points' = Points /\ Rows' = Rows /\ Trained' = Trained /\ Requests' = Requests
        /\ Source' = Source /\ Target' = Target /\ K' = K
    BY <2>1, PointsStay DEF Frame, Source, Target, K
  <2>3. TrimTyped'
    BY <2>1, <2>2 DEF TrimInv, TrimTyped, Frame
  <2>4. Untried' /\ Remembered' /\ Enough'
    BY <2>1, <2>2 DEF TrimInv, Untried, Remembered, Enough, Frame
  <2>5. Alone' <=> Alone
    BY <2>1, <2>2 DEF Alone, RowsOf, PointsIn, IsWindow
  <2>6. Iterating'
    BY <2>1, <2>2, <2>5 DEF TrimInv, Iterating
  <2>7. Ended'
    BY <2>1, <2>2 DEF TrimInv, Ended, BudgetWellSpent, Frame
  <2>8. NewestIsUnseen'
    BY <2>1, ModelsStay DEF Frame
  <2>. QED
    BY <2>3, <2>4, <2>6, <2>7, <2>8 DEF TrimInv
<1>3. CASE TrimNext
  <2>1. TrimStep /\ UNCHANGED <<space, experiments, phase>>
    BY <1>3 DEF TrimNext, spaceVars
  <2>2. params' = params
    BY <2>1 DEF TrimStep, Assess, NoPriorsPlans, NoPriorsNext, NoPriorsDone, IterationPlans,
                FirstEntity, NotOneRow, NextEntity, NothingToTrainOn, Continues, Stops,
                FinalizeModel, IterationDone, MeasurementSucceeds, MeasurementHasNoTarget,
                OtherMeasures
  <2>3. Frame
    BY <2>1, <2>2 DEF Frame
  <2>4. CASE NotOneRow \/ NothingToTrainOn
    BY <2>3, <2>4, RaiseKeeps DEF NotOneRow, NothingToTrainOn, Asks
  <2>5. CASE \E k \in DOMAIN measuring : MeasurementSucceeds(k) \/ MeasurementHasNoTarget(k)
    BY <1>1, <2>3, <2>5, MeasurementSucceedsKeeps, MeasurementHasNoTargetKeeps
  <2>6. CASE \E p \in Points : OtherMeasures(p)
    BY <1>1, <2>3, <2>6, OtherMeasuresKeeps
  <2>. QED
    BY <1>1, <2>1, <2>3, <2>4, <2>5, <2>6, AssessKeeps, NoPriorsPlansKeeps, NoPriorsNextKeeps,
       NoPriorsDoneKeeps, IterationPlansKeeps, FirstEntityKeeps, NextEntityKeeps,
       ContinuesKeeps, StopsKeeps, FinalizeModelKeeps, IterationDoneKeeps DEF TrimStep
<1>. QED
  BY <1>2, <1>3

\* The budget is spent as it should, in the iterations and at the end.
LEMMA BudgetIsWellSpent ==
  ASSUME TrimInv
  PROVE  BudgetWellSpent
<1>1. CASE stage = "done"
  BY <1>1 DEF TrimInv, Ended
<1>2. CASE stage # "done"
  BY <1>2 DEF TrimInv, Iterating, BudgetWellSpent
<1>. QED
  BY <1>1, <1>2

(***************************************************************************)
(* For any discrete spaces, any parameters, and whatever other operations  *)
(* measure meanwhile: the first model of TRIM has seen nothing of its      *)
(* holdout set, and every later one all points of it but the newest.       *)
(***************************************************************************)
THEOREM NewestIsUnseenCorrect == WithoutRepetition(TrimSpaces) => (TrimSpec => []NewestIsUnseen)
<1>. SUFFICES ASSUME WithoutRepetition(TrimSpaces)
              PROVE  TrimSpec => []NewestIsUnseen
  OBVIOUS
<1>1. TrimInv /\ [TrimNext]_<<spaceVars, trimVars>> => TrimInv'
  BY TrimInvNext
<1>2. TrimInv => NewestIsUnseen
  BY DEF TrimInv
<1>. QED
  BY <1>1, <1>2, TrimInvInit, PTL DEF TrimSpec

(***************************************************************************)
(* Nor does it spend its budget on points that it knows, and it ends only  *)
(* with enough points, and after two windows of models and with a final    *)
(* one on all that they knew, or with its budget or its plan used up.      *)
(***************************************************************************)
THEOREM BudgetCorrect == WithoutRepetition(TrimSpaces) => (TrimSpec => []BudgetWellSpent)
<1>. SUFFICES ASSUME WithoutRepetition(TrimSpaces)
              PROVE  TrimSpec => []BudgetWellSpent
  OBVIOUS
<1>1. TrimInv /\ [TrimNext]_<<spaceVars, trimVars>> => TrimInv'
  BY TrimInvNext
<1>2. TrimInv => BudgetWellSpent
  BY BudgetIsWellSpent
<1>. QED
  BY <1>1, <1>2, TrimInvInit, PTL DEF TrimSpec

=============================================================================
