--------------------------- MODULE ActuatorProofs ---------------------------
(***************************************************************************)
(* Proofs about the actuators that share hardware among their requests.     *)
(*                                                                         *)
(* The environments of the vLLM actuator, for any number of requests,       *)
(* entities, definitions, models and environments: the bound on             *)
(* deployments is kept, an environment is never shared, and the first       *)
(* download of a model is alone while nothing fails.                        *)
(*                                                                         *)
(* The sfttrainer actuator, for any requests, points, machines, clocks,     *)
(* contents of the data set and tokens: whatever crashes, fails or is       *)
(* killed, an answer has the status that it should have and a measurement   *)
(* says what was trained.  Its sums, clocks and tokens come first, then     *)
(* its cache, then its requests, one kind of step after the other.          *)
(***************************************************************************)
EXTENDS VllmEnvironments, SFTTrainer, FiniteSetTheorems, SequenceTheorems,
        WellFoundedInduction, TLAPS


-----------------------------------------------------------------------------
(* The inductive invariant.                                                *)

\* The labels of a task that was given an environment and has not given it
\* back yet.
Holding == {"start", "waitModel", "woken", "lost", "create", "deploying",
            "failed", "bench"}

\* A task that goes on has an entity to measure and, while it creates its
\* environment, an attempt left.
WorkLeft ==
  \A r \in Requests :
    /\ pc[r] # "done" => results[r] < Len(Entities[r])
    /\ pc[r] \in Holding \ {"failed", "bench"} => attempt[r] < Attempts

\* env[r] is the environment of r exactly while r holds one.
Held == \A r \in Requests : env[r] # None <=> pc[r] \in Holding

\* What is held has a definition, and is ready once it is used.
HeldIsConfigured ==
  \A r \in Requests :
    /\ env[r] # None => configuration[env[r]] # None
    /\ pc[r] = "bench" => env[r] \in ready

\* The queue holds tasks that wait in it, each of them once.
Distinct(s) == \A i, j \in DOMAIN s : s[i] = s[j] => i = j
QueuedOnce ==
  /\ \A i \in DOMAIN envQueue : pc[envQueue[i]] = "queued"
  /\ Distinct(envQueue)

Slots ==
  /\ Held /\ NotShared /\ HeldIsConfigured /\ FreeIsReady /\ QueuedOnce
  /\ IsFiniteSet(in_use) /\ DeploymentsBounded

IInv == VllmTypeOK /\ WorkLeft /\ Slots

\* While nothing fails: a model is downloaded by the task whose environment is
\* its waiter, which has no deployment before it is created; whoever waits for
\* the model waits for that task; and nobody fails.
InTurn(r) ==
  LET m == Model(r) IN
  /\ pc[r] = "start" => m \in downloaded \/ waiter[m] # None
  /\ pc[r] \in {"create", "deploying"} => m \in downloaded \/ waiter[m] = env[r]
  /\ pc[r] = "waitModel" => waitFor[r] # None
  /\ pc[r] \in {"start", "waitModel", "woken", "create"} => env[r] \notin deployments
  /\ pc[r] = "deploying" => env[r] \in deployments
  /\ pc[r] \notin {"failed", "lost"}
DownloadsInTurn == \A r \in Requests : InTurn(r)

\* Nobody waits for a model that is downloaded.
NoWaiterAfterDownload == \A m \in downloaded : waiter[m] = None
HealthyInv == NoWaiterAfterDownload /\ (Healthy => DownloadsInTurn)

-----------------------------------------------------------------------------
(* Sequences, first matches and names.                                     *)

\* Removing an element takes only that one out of a sequence without duplicates.
LEMMA RemoveAtProperties ==
  ASSUME NEW S, NEW s \in Seq(S), NEW i \in DOMAIN s, Distinct(s)
  PROVE  /\ RemoveAt(s, i) \in Seq(S)
         /\ Len(RemoveAt(s, i)) = Len(s) - 1
         /\ Range(RemoveAt(s, i)) = Range(s) \ {s[i]}
         /\ Distinct(RemoveAt(s, i))
<1>. DEFINE t == RemoveAt(s, i)
<1>1. /\ t \in Seq(S) /\ Len(t) = Len(s) - 1
      /\ \A j \in 1 .. Len(t) : t[j] = IF j < i THEN s[j] ELSE s[j + 1]
  <2>. DEFINE a == SubSeq(s, 1, i - 1)
              b == SubSeq(s, i + 1, Len(s))
  <2>1. /\ a \in Seq(S) /\ Len(a) = i - 1
        /\ \A j \in 1 .. Len(a) : a[j] = s[j]
    OBVIOUS
  <2>2. /\ b \in Seq(S) /\ Len(b) = Len(s) - i
        /\ \A j \in 1 .. Len(b) : b[j] = s[j + i]
    OBVIOUS
  <2>3. t = a \o b
    BY DEF RemoveAt
  <2>. HIDE DEF t, a, b
  <2>4. /\ t \in Seq(S) /\ Len(t) = Len(a) + Len(b)
        /\ \A j \in 1 .. Len(t) : t[j] = IF j <= Len(a) THEN a[j] ELSE b[j - Len(a)]
    BY <2>1, <2>2, <2>3, ConcatProperties
  <2>5. i \in 1 .. Len(s) /\ Len(s) \in Nat
    OBVIOUS
  <2>6. Len(t) = Len(s) - 1
    BY <2>1, <2>2, <2>4, <2>5
  <2>7. ASSUME NEW j \in 1 .. Len(t)
        PROVE  t[j] = IF j < i THEN s[j] ELSE s[j + 1]
    <3>1. CASE j < i
      BY <3>1, <2>1, <2>4, <2>5, <2>6
    <3>2. CASE ~(j < i)
      <4>1. j - (i - 1) \in 1 .. Len(b) /\ j - (i - 1) + i = j + 1
        BY <3>2, <2>2, <2>5, <2>6
      <4>2. t[j] = b[j - (i - 1)]
        BY <3>2, <2>1, <2>4, <2>5
      <4>3. b[j - (i - 1)] = s[j - (i - 1) + i]
        BY <4>1, <2>2
      <4>. QED
        BY <3>2, <4>1, <4>2, <4>3
    <3>. QED
      BY <3>1, <3>2
  <2>. QED
    BY <2>4, <2>6, <2>7
<1>. HIDE DEF t
<1>2. \A j \in DOMAIN t : t[j] \in Range(s) \ {s[i]}
  <2>. TAKE j \in DOMAIN t
  <2>1. \E k \in DOMAIN s : k # i /\ t[j] = s[k]
    BY <1>1
  <2>. QED
    BY <2>1 DEF Distinct, Range
<1>3. \A k \in DOMAIN s : k # i => \E j \in DOMAIN t : t[j] = s[k]
  <2>. TAKE k \in DOMAIN s
  <2>. HAVE k # i
  <2>1. CASE k < i
    <3>1. k \in DOMAIN t /\ t[k] = s[k]
      BY <1>1, <2>1
    <3>. QED
      BY <3>1
  <2>2. CASE k > i
    <3>1. k - 1 \in DOMAIN t /\ t[k - 1] = s[k]
      BY <1>1, <2>2
    <3>. QED
      BY <3>1
  <2>. QED
    BY <2>1, <2>2
<1>4. Range(t) = Range(s) \ {s[i]}
  BY <1>2, <1>3 DEF Range
<1>5. Distinct(t)
  <2>. SUFFICES ASSUME NEW j \in 1 .. Len(t), NEW k \in 1 .. Len(t), t[j] = t[k]
                PROVE  j = k
    BY <1>1 DEF Distinct
  <2>1. \A x, y \in 1 .. Len(s) : s[x] = s[y] => x = y
    BY DEF Distinct
  <2>. QED
    BY <1>1, <2>1
<1>. QED
  BY <1>1, <1>4, <1>5 DEF t

\* Appending a new element adds only that one.
LEMMA AppendDistinct ==
  ASSUME NEW S, NEW s \in Seq(S), NEW e \in S, Distinct(s), e \notin Range(s)
  PROVE  /\ Append(s, e) \in Seq(S)
         /\ Len(Append(s, e)) = Len(s) + 1
         /\ Range(Append(s, e)) = Range(s) \cup {e}
         /\ Distinct(Append(s, e))
<1>1. /\ Append(s, e) \in Seq(S) /\ Len(Append(s, e)) = Len(s) + 1
      /\ \A i \in DOMAIN s : Append(s, e)[i] = s[i]
      /\ Append(s, e)[Len(s) + 1] = e
      /\ DOMAIN Append(s, e) = DOMAIN s \cup {Len(s) + 1}
  OBVIOUS
<1>2. Range(Append(s, e)) = Range(s) \cup {e}
  BY <1>1 DEF Range
<1>3. Distinct(Append(s, e))
  BY <1>1 DEF Distinct, Range
<1>. QED
  BY <1>1, <1>2, <1>3

\* The tail of a sequence without duplicates does not hold its head.
LEMMA TailDistinct ==
  ASSUME NEW S, NEW s \in Seq(S), s # <<>>, Distinct(s)
  PROVE  /\ Tail(s) \in Seq(S) /\ Head(s) \in S /\ Distinct(Tail(s))
         /\ \A i \in DOMAIN Tail(s) : /\ i + 1 \in DOMAIN s
                                      /\ Tail(s)[i] = s[i + 1]
                                      /\ Tail(s)[i] # Head(s)
<1>1. /\ Tail(s) \in Seq(S) /\ Head(s) = s[1] /\ 1 \in DOMAIN s
      /\ \A i \in DOMAIN Tail(s) : i + 1 \in DOMAIN s /\ Tail(s)[i] = s[i + 1]
  OBVIOUS
<1>. QED
  BY <1>1 DEF Distinct

\* Every set of naturals has a least member: so the first match exists.
LEMMA NatWellFounded ==
  IsWellFoundedOn({pair \in Nat \X Nat : pair[1] < pair[2]}, Nat)
BY NatLessThanWellFounded DEF OpToRel

\* get_matching_free_environment finds a free environment of the definition
\* if there is one.
LEMMA FirstMatchMatches ==
  ASSUME VllmTypeOK, NEW d, Matching(d) # {}
  PROVE  FirstMatch(d) \in Matching(d)
<1>. DEFINE Smaller == {pair \in Nat \X Nat : pair[1] < pair[2]}
<1>1. IsWellFoundedOn(Smaller, Nat)
  BY NatWellFounded
<1>2. Matching(d) \subseteq Nat
  BY DEF Matching, VllmTypeOK
<1>3. PICK i \in Matching(d) : \A j \in Matching(d) : <<j, i>> \notin Smaller
  <2>. HIDE DEF Smaller
  <2>. QED
    BY <1>1, <1>2, WFMin
<1>4. ASSUME NEW j \in Matching(d)
      PROVE  i <= j
  <2>1. j \in Nat /\ i \in Nat
    BY <1>2
  <2>2. ~(j < i)
    BY <1>3, <2>1
  <2>. QED
    BY <2>1, <2>2
<1>. QED
  BY <1>4 DEF FirstMatch

\* The name that a new environment gets is one that no environment has.
LEMMA NewNameIsUnused ==
  ASSUME Unused # {}
  PROVE  NewName \in Unused
BY DEF NewName

-----------------------------------------------------------------------------
(* Types, and the work that is left.                                       *)

\* No environment and no task has done anything yet.
LEMMA InitInv == VllmInit => IInv
<1>. SUFFICES ASSUME VllmInit
              PROVE  IInv
  OBVIOUS
<1>. USE DEF VllmInit
<1>1. VllmTypeOK
  <2>1. "get" \in Labels /\ 0 \in 0 .. Attempts /\ 0 \in Nat
    BY AttemptsAssumption DEF Labels
  <2>2. /\ \A S : <<>> \in Seq(S)
        /\ free = <<>> /\ envQueue = <<>>
    OBVIOUS
  <2>3. /\ free \in Seq(Names) /\ envQueue \in Seq(Requests)
        /\ max_concurrent \in MaxEnvironments
        /\ in_use \subseteq Names /\ ready \subseteq Names
        /\ downloaded \subseteq Models /\ deployments \subseteq Names
        /\ faulty \in BOOLEAN /\ cleaned \in BOOLEAN
    BY <2>2, Zenon
  <2>4. /\ configuration \in [Names -> Definitions \cup {None}]
        /\ waiter \in [Models -> Names \cup {None}]
        /\ env \in [Requests -> Names \cup {None}]
        /\ waitFor \in [Requests -> Names \cup {None}]
    OBVIOUS
  <2>5. /\ pc \in [Requests -> Labels]
        /\ attempt \in [Requests -> 0 .. Attempts]
        /\ results \in [Requests -> Nat]
        /\ missed \in [Requests -> BOOLEAN]
    BY <2>1
  <2>. QED
    BY <2>3, <2>4, <2>5 DEF VllmTypeOK
<1>2. WorkLeft
  BY EntitiesAssumption, AttemptsAssumption DEF WorkLeft, Holding
<1>3. Held /\ HeldIsConfigured /\ QueuedOnce
  BY DEF Held, HeldIsConfigured, QueuedOnce, Holding, Distinct
<1>4. Range(free) = {}
  BY DEF Range
<1>5. NotShared /\ FreeIsReady
  BY <1>4 DEF NotShared, FreeIsReady
<1>6. IsFiniteSet(in_use) /\ Cardinality(in_use) = 0
  BY FS_EmptySet
<1>7. DeploymentsBounded
  BY <1>1, <1>6, MaxAssumption DEF DeploymentsBounded, VllmTypeOK
<1>. QED
  BY <1>1, <1>2, <1>3, <1>5, <1>6, <1>7 DEF IInv, Slots

\* A task that goes on needs a definition of a model.
LEMMA DefinitionType ==
  ASSUME IInv, NEW r \in Requests, pc[r] # "done"
  PROVE  Definition(r) \in Definitions /\ Model(r) \in Models
<1>1. /\ Entities[r] \in Seq(Definitions) /\ results[r] \in Nat
      /\ results[r] < Len(Entities[r])
  BY EntitiesAssumption DEF IInv, VllmTypeOK, WorkLeft
<1>2. Definition(r) \in Definitions
  BY <1>1 DEF Definition
<1>. QED
  BY <1>2, ModelAssumption DEF Model

\* After a result, the task has another entity to measure or is done.
LEMMA NextLabelType ==
  ASSUME IInv, NEW r \in Requests, pc[r] # "done"
  PROVE  /\ NextLabel(r) \in {"get", "done"}
         /\ results[r] + 1 \in Nat
         /\ NextLabel(r) # "done" => results[r] + 1 < Len(Entities[r])
BY DEF IInv, VllmTypeOK, NextLabel

\* Setting the events of a model changes the labels of waiting tasks only.
LEMMA SignalLabels ==
  ASSUME NEW m, NEW n, NEW labels \in [Requests -> Labels]
  PROVE  /\ LabelsAfterSignal(m, n, labels) \in [Requests -> Labels]
         /\ \A q \in Requests :
              LET label == LabelsAfterSignal(m, n, labels)[q] IN
              \/ label = labels[q]
              \/ labels[q] = "waitModel" /\ label \in {"woken", "lost"}
BY DEF LabelsAfterSignal, Labels

\* Waking the next in the queue changes no other label.
LEMMA SignalQueue ==
  ASSUME IInv, NEW labels \in [Requests -> Labels], SignalNext(labels)
  PROVE  /\ pc' \in [Requests -> Labels]
         /\ envQueue' \in Seq(Requests)
         /\ missed' \in [Requests -> BOOLEAN]
         /\ \A q \in Requests :
              \/ pc'[q] = labels[q]
              \/ pc'[q] = "get" /\ envQueue # <<>> /\ q = Head(envQueue)
         /\ \A i \in DOMAIN envQueue' : \E j \in DOMAIN envQueue :
              /\ envQueue'[i] = envQueue[j]
              /\ pc'[envQueue'[i]] = labels[envQueue'[i]]
         /\ Distinct(envQueue')
<1>. USE DEF IInv, Slots, VllmTypeOK, QueuedOnce
<1>1. missed' \in [Requests -> BOOLEAN]
  BY DEF SignalNext
<1>2. CASE envQueue = <<>>
  BY <1>1, <1>2 DEF SignalNext, Distinct
<1>3. CASE envQueue # <<>>
  <2>1. /\ Tail(envQueue) \in Seq(Requests) /\ Head(envQueue) \in Requests
        /\ Distinct(Tail(envQueue))
        /\ \A i \in DOMAIN Tail(envQueue) : /\ i + 1 \in DOMAIN envQueue
                                         /\ Tail(envQueue)[i] = envQueue[i + 1]
                                         /\ Tail(envQueue)[i] # Head(envQueue)
    BY <1>3, TailDistinct
  <2>2. envQueue' = Tail(envQueue) /\ pc' = [labels EXCEPT ![Head(envQueue)] = "get"]
    BY <1>3 DEF SignalNext
  <2>3. pc' \in [Requests -> Labels]
    BY <2>1, <2>2 DEF Labels
  <2>4. \A q \in Requests : \/ pc'[q] = labels[q]
                            \/ pc'[q] = "get" /\ q = Head(envQueue)
    BY <2>1, <2>2
  <2>5. \A i \in DOMAIN envQueue' : \E j \in DOMAIN envQueue :
          envQueue'[i] = envQueue[j] /\ pc'[envQueue'[i]] = labels[envQueue'[i]]
    <3>. SUFFICES ASSUME NEW i \in DOMAIN envQueue'
                  PROVE  \E j \in DOMAIN envQueue :
                           envQueue'[i] = envQueue[j] /\ pc'[envQueue'[i]] = labels[envQueue'[i]]
      OBVIOUS
    <3>1. envQueue'[i] \in Requests /\ envQueue'[i] # Head(envQueue)
      BY <2>1, <2>2
    <3>2. pc'[envQueue'[i]] = labels[envQueue'[i]]
      BY <2>2, <3>1
    <3>3. i + 1 \in DOMAIN envQueue /\ envQueue'[i] = envQueue[i + 1]
      BY <2>1, <2>2
    <3>. QED
      BY <3>2, <3>3
  <2>. QED
    BY <1>1, <1>3, <2>1, <2>2, <2>3, <2>4, <2>5
<1>. QED
  BY <1>2, <1>3

LEMMA WaiterType ==
  ASSUME IInv, NEW m \in Models, NEW n \in Names
  PROVE  WaiterAfterAdding(m, n) \in [Models -> Names \cup {None}]
BY DEF IInv, VllmTypeOK, WaiterAfterAdding

\* What handing out an environment leaves well-typed.
LEMMA HandOutType ==
  ASSUME IInv, NEW r \in Requests, pc[r] = "get", NEW n \in Names, HandOut(r, n)
  PROVE  /\ max_concurrent' \in MaxEnvironments /\ in_use' \subseteq Names
         /\ envQueue' \in Seq(Requests)
         /\ waiter' \in [Models -> Names \cup {None}] /\ downloaded' \subseteq Models
         /\ faulty' \in BOOLEAN /\ cleaned' \in BOOLEAN
         /\ env' \in [Requests -> Names \cup {None}]
         /\ waitFor' \in [Requests -> Names \cup {None}]
         /\ attempt' \in [Requests -> 0 .. Attempts]
         /\ results' \in [Requests -> Nat]
         /\ missed' \in [Requests -> BOOLEAN]
         /\ \A label \in {"start", "bench"} :
              pc' = [pc EXCEPT ![r] = label] => pc' \in [Requests -> Labels] /\ WorkLeft'
<1>1. 0 \in 0 .. Attempts /\ 0 < Attempts
  BY AttemptsAssumption
<1>2. waiter' \in [Models -> Names \cup {None}]
  BY DefinitionType, WaiterType DEF HandOut
<1>3. /\ env' \in [Requests -> Names \cup {None}]
      /\ attempt' \in [Requests -> 0 .. Attempts]
  BY <1>1 DEF HandOut, IInv, VllmTypeOK
<1>4. ASSUME NEW label \in {"start", "bench"}, pc' = [pc EXCEPT ![r] = label]
      PROVE  pc' \in [Requests -> Labels] /\ WorkLeft'
  <2>1. pc' \in [Requests -> Labels]
    BY <1>4 DEF IInv, VllmTypeOK, Labels
  <2>2. \A q \in Requests : /\ q # r => pc'[q] = pc[q] /\ attempt'[q] = attempt[q]
                            /\ pc'[r] = label /\ attempt'[r] = 0
                            /\ results' = results
    BY <1>4 DEF IInv, VllmTypeOK, HandOut
  <2>3. WorkLeft'
    BY <1>1, <2>2 DEF IInv, WorkLeft
  <2>. QED
    BY <2>1, <2>3
<1>. QED
  BY <1>2, <1>3, <1>4 DEF HandOut, IInv, VllmTypeOK

\* What recording a result leaves well-typed: the task goes on with the next
\* entity, and no other task is anywhere else than it was, or is taken from
\* where it waited.
LEMMA RecordType ==
  ASSUME IInv, NEW r \in Requests, pc[r] # "done", Record(r),
         UNCHANGED attempt,
         pc' \in [Requests -> Labels],
         pc'[r] = NextLabel(r),
         \A q \in Requests : \/ q = r
                             \/ pc'[q] = pc[q]
                             \/ pc[q] = "waitModel" /\ pc'[q] \in {"woken", "lost"}
                             \/ pc[q] = "queued" /\ pc'[q] = "get"
  PROVE  results' \in [Requests -> Nat] /\ WorkLeft'
<1>1. /\ results' \in [Requests -> Nat]
      /\ results'[r] = results[r] + 1
      /\ \A q \in Requests : q # r => results'[q] = results[q]
  BY DEF Record, IInv, VllmTypeOK
<1>2. pc'[r] \in {"get", "done"} /\ (pc'[r] # "done" => results'[r] < Len(Entities[r]))
  BY <1>1, NextLabelType
<1>3. WorkLeft'
  <2>. SUFFICES ASSUME NEW q \in Requests
                PROVE  /\ pc'[q] # "done" => results'[q] < Len(Entities[q])
                       /\ pc'[q] \in Holding \ {"failed", "bench"} => attempt'[q] < Attempts
    BY DEF WorkLeft
  <2>1. CASE q = r
    BY <1>2, <2>1 DEF Holding
  <2>2. CASE q # r
    <3>1. /\ pc[q] # "done" => results[q] < Len(Entities[q])
          /\ pc[q] \in Holding \ {"failed", "bench"} => attempt[q] < Attempts
      BY DEF IInv, WorkLeft
    <3>. QED
      BY <1>1, <2>2, <3>1 DEF Holding
  <2>. QED
    BY <2>1, <2>2
<1>. QED
  BY <1>1, <1>3

\* Labels after the next in the queue was woken: the task that gave back goes
\* on, tasks that waited for its model may be woken, as may be the next one.
LEMMA WakeLabels ==
  ASSUME IInv, NEW r \in Requests, pc[r] # "done", NEW labels \in [Requests -> Labels],
         SignalNext(labels), labels[r] = NextLabel(r), pc[r] # "queued",
         \A q \in Requests : \/ q = r
                             \/ labels[q] = pc[q]
                             \/ pc[q] = "waitModel" /\ labels[q] \in {"woken", "lost"}
  PROVE  /\ pc' \in [Requests -> Labels] /\ pc'[r] = NextLabel(r)
         /\ envQueue' \in Seq(Requests) /\ missed' \in [Requests -> BOOLEAN]
         /\ \A q \in Requests : \/ q = r
                                \/ pc'[q] = pc[q]
                                \/ pc[q] = "waitModel" /\ pc'[q] \in {"woken", "lost"}
                                \/ pc[q] = "queued" /\ pc'[q] = "get"
         /\ QueuedOnce'
<1>1. /\ pc' \in [Requests -> Labels]
      /\ envQueue' \in Seq(Requests) /\ missed' \in [Requests -> BOOLEAN]
      /\ \A q \in Requests : \/ pc'[q] = labels[q]
                             \/ pc'[q] = "get" /\ envQueue # <<>> /\ q = Head(envQueue)
      /\ \A i \in DOMAIN envQueue' : \E j \in DOMAIN envQueue :
           envQueue'[i] = envQueue[j] /\ pc'[envQueue'[i]] = labels[envQueue'[i]]
      /\ Distinct(envQueue')
  BY SignalQueue
<1>2. \A j \in DOMAIN envQueue : pc[envQueue[j]] = "queued" /\ envQueue[j] \in Requests
  BY DEF IInv, Slots, VllmTypeOK, QueuedOnce
<1>3. envQueue # <<>> => pc[Head(envQueue)] = "queued" /\ Head(envQueue) \in Requests
  <2>. SUFFICES ASSUME envQueue # <<>>
                PROVE  pc[Head(envQueue)] = "queued" /\ Head(envQueue) \in Requests
    OBVIOUS
  <2>1. 1 \in DOMAIN envQueue /\ Head(envQueue) = envQueue[1]
    BY DEF IInv, VllmTypeOK
  <2>. QED
    BY <1>2, <2>1
<1>4. \A q \in Requests : q # r /\ pc[q] = "queued" => labels[q] = "queued"
  OBVIOUS
<1>5. \A i \in DOMAIN envQueue' : pc'[envQueue'[i]] = "queued"
  BY <1>1, <1>2, <1>4
<1>6. pc'[r] = NextLabel(r)
  BY <1>1, <1>3
<1>7. \A q \in Requests : \/ q = r
                          \/ pc'[q] = pc[q]
                          \/ pc[q] = "waitModel" /\ pc'[q] \in {"woken", "lost"}
                          \/ pc[q] = "queued" /\ pc'[q] = "get"
  BY <1>1, <1>3
<1>. QED
  BY <1>1, <1>5, <1>6, <1>7 DEF QueuedOnce

\* A step of a task keeps the types, and the work that is left decreases.
LEMMA TypeTask ==
  ASSUME IInv, NEW r \in Requests, Task(r)
  PROVE  VllmTypeOK' /\ WorkLeft'
<1>. USE DEF manager, conflicts, cluster, tasks
<1>1. CASE GetMatching(r)
  <2>. DEFINE i == FirstMatch(Definition(r))
  <2>1. i \in DOMAIN free
    BY <1>1, FirstMatchMatches DEF GetMatching, IInv, Matching
  <2>2. free[i] \in Names /\ free' \in Seq(Names)
    BY <1>1, <2>1, RemoveAtProperties DEF GetMatching, FreeWithout, IInv, Slots, VllmTypeOK,
                                          NotShared, Distinct
  <2>3. HandOut(r, free[i]) /\ pc[r] = "get"
    BY <1>1 DEF GetMatching
  <2>4. PICK label \in {"start", "bench"} : pc' = [pc EXCEPT ![r] = label]
    BY <1>1 DEF GetMatching
  <2>5. UNCHANGED <<configuration, ready, deployments>>
    BY <1>1 DEF GetMatching
  <2>. HIDE DEF i
  <2>6. pc' \in [Requests -> Labels] /\ WorkLeft'
    BY <2>2, <2>3, <2>4, HandOutType
  <2>. QED
    BY <2>2, <2>3, <2>5, <2>6, HandOutType DEF VllmTypeOK, IInv
<1>2. CASE GetNew(r)
  <2>1. NewName \in Names
    BY <1>2, NewNameIsUnused DEF GetNew, Unused
  <2>2. configuration' \in [Names -> Definitions \cup {None}]
    BY <1>2, <2>1, DefinitionType DEF GetNew, VllmTypeOK, IInv
  <2>3. HandOut(r, NewName) /\ pc[r] = "get" /\ pc' = [pc EXCEPT ![r] = "start"]
    BY <1>2 DEF GetNew
  <2>4. pc' \in [Requests -> Labels] /\ WorkLeft'
    BY <2>1, <2>3, HandOutType
  <2>. QED
    BY <1>2, <2>1, <2>2, <2>3, <2>4, HandOutType DEF GetNew, VllmTypeOK, IInv
<1>3. CASE GetEvicting(r)
  <2>1. NewName \in Names
    BY <1>3, NewNameIsUnused DEF GetEvicting, Unused
  <2>2. PICK i \in DOMAIN free :
          /\ deployments' = DeploymentsWithout(free[i])
          /\ free' = RemoveAt(free, i)
          /\ ready' = ready \ {free[i]}
          /\ configuration' = [configuration EXCEPT ![free[i]] = None,
                                                    ![NewName] = Definition(r)]
    BY <1>3 DEF GetEvicting
  <2>3. free' \in Seq(Names)
    BY <2>2, RemoveAtProperties DEF IInv, Slots, VllmTypeOK, NotShared, Distinct
  <2>4. configuration' \in [Names -> Definitions \cup {None}]
    BY <1>3, <2>1, <2>2, DefinitionType DEF GetEvicting, VllmTypeOK, IInv
  <2>5. HandOut(r, NewName) /\ pc[r] = "get" /\ pc' = [pc EXCEPT ![r] = "start"]
    BY <1>3 DEF GetEvicting
  <2>6. pc' \in [Requests -> Labels] /\ WorkLeft'
    BY <2>1, <2>5, HandOutType
  <2>7. deployments' \subseteq Names /\ ready' \subseteq Names
    BY <2>2 DEF IInv, VllmTypeOK, DeploymentsWithout
  <2>. QED
    BY <2>1, <2>3, <2>4, <2>5, <2>6, <2>7, HandOutType DEF VllmTypeOK, IInv
<1>4. CASE GetNothing(r)
  BY <1>4 DEF GetNothing, IInv, VllmTypeOK, WorkLeft, Labels, Holding
<1>5. CASE GetRaises(r)
  <2>1. pc' \in [Requests -> Labels] /\ pc'[r] = NextLabel(r)
    BY <1>5, NextLabelType DEF GetRaises, IInv, VllmTypeOK, Labels
  <2>2. \A q \in Requests : q # r => pc'[q] = pc[q]
    BY <1>5 DEF GetRaises, IInv, VllmTypeOK
  <2>3. results' \in [Requests -> Nat] /\ WorkLeft'
    BY <1>5, <2>1, <2>2, RecordType DEF GetRaises
  <2>. QED
    BY <1>5, <2>1, <2>3 DEF GetRaises, IInv, VllmTypeOK
<1>6. CASE WaitForEnv(r)
  BY <1>6 DEF WaitForEnv, IInv, VllmTypeOK, WorkLeft, Labels, Holding
<1>7. CASE WaitDeployment(r)
  <2>1. waiter[Model(r)] \in Names \cup {None}
    BY <1>7, DefinitionType DEF WaitDeployment, IInv, VllmTypeOK
  <2>. QED
    BY <1>7, <2>1 DEF WaitDeployment, IInv, VllmTypeOK, WorkLeft, Labels, Holding
<1>8. CASE WakeUp(r)
  <2>1. Model(r) \in Models /\ env[r] \in Names
    BY <1>8, DefinitionType DEF WakeUp, IInv, Slots, VllmTypeOK, Held, Holding
  <2>2. WaiterAfterAdding(Model(r), env[r]) \in [Models -> Names \cup {None}]
    BY <2>1, WaiterType
  <2>3. waiter' \in [Models -> Names \cup {None}]
    BY <1>8, <2>2 DEF WakeUp, IInv, VllmTypeOK
  <2>4. waitFor' \in [Requests -> Names \cup {None}]
    <3>1. /\ waitFor \in [Requests -> Names \cup {None}]
          /\ waiter[Model(r)] \in Names \cup {None}
      BY <2>1 DEF IInv, VllmTypeOK
    <3>2. \E n \in Names \cup {None} : waitFor' = [waitFor EXCEPT ![r] = n]
      BY <1>8, <3>1 DEF WakeUp
    <3>. QED
      BY <3>1, <3>2
  <2>5. pc' \in [Requests -> Labels] /\ WorkLeft'
    BY <1>8 DEF WakeUp, IInv, VllmTypeOK, WorkLeft, Labels, Holding
  <2>. QED
    BY <1>8, <2>3, <2>4, <2>5 DEF WakeUp, IInv, VllmTypeOK
<1>9. CASE CreateDeployment(r)
  BY <1>9 DEF CreateDeployment, IInv, Slots, VllmTypeOK, WorkLeft, Labels, Holding, Held
<1>10. CASE DoneCreating(r)
  <2>. DEFINE m == Model(r)
              labels == [pc EXCEPT ![r] = "bench"]
  <2>1. m \in Models /\ env[r] \in Names
    BY <1>10, DefinitionType DEF DoneCreating, IInv, Slots, VllmTypeOK, Held, Holding
  <2>2. labels \in [Requests -> Labels]
    BY DEF IInv, VllmTypeOK, Labels
  <2>3. pc' = LabelsAfterSignal(m, env[r], labels)
    BY <1>10 DEF DoneCreating
  <2>4. /\ waiter' \in [Models -> Names \cup {None}] /\ downloaded' \subseteq Models
        /\ ready' \subseteq Names
    BY <1>10, <2>1 DEF DoneCreating, IInv, VllmTypeOK
  <2>5. \A q \in Requests : labels[q] = IF q = r THEN "bench" ELSE pc[q]
    BY DEF IInv, VllmTypeOK
  <2>. HIDE DEF m, labels
  <2>6. /\ pc' \in [Requests -> Labels]
        /\ \A q \in Requests :
             \/ pc'[q] = labels[q]
             \/ labels[q] = "waitModel" /\ pc'[q] \in {"woken", "lost"}
    BY <2>2, <2>3, SignalLabels
  <2>7. pc'[r] = "bench" /\ \A q \in Requests : q # r => labels[q] = pc[q]
    BY <2>6, <2>5
  <2>8. UNCHANGED <<results, attempt>>
    BY <1>10 DEF DoneCreating
  <2>9. pc[r] # "done"
    BY <1>10 DEF DoneCreating
  <2>10. WorkLeft'
    BY <2>6, <2>7, <2>8, <2>9 DEF IInv, WorkLeft, Holding
  <2>. QED
    BY <1>10, <2>4, <2>6, <2>10 DEF DoneCreating, IInv, VllmTypeOK
<1>11. CASE AttemptFails(r)
  <2>1. pc[r] \in {"create", "deploying"}
    BY <1>11 DEF AttemptFails
  <2>2. attempt[r] < Attempts /\ attempt[r] \in Nat
    <3>1. attempt[r] \in 0 .. Attempts
      BY DEF IInv, VllmTypeOK
    <3>2. attempt[r] < Attempts
      BY <2>1 DEF IInv, WorkLeft, Holding
    <3>. QED
      BY <3>1, <3>2, AttemptsAssumption
  <2>3. attempt[r] + 1 \in 0 .. Attempts
    BY <2>2, AttemptsAssumption
  <2>4. attempt' \in [Requests -> 0 .. Attempts]
    BY <1>11, <2>3 DEF AttemptFails, IInv, VllmTypeOK
  <2>5. pc' \in [Requests -> Labels]
    BY <1>11 DEF AttemptFails, IInv, VllmTypeOK, LabelAfterAttempts, Labels
  <2>6. WorkLeft'
    BY <1>11, <2>1, <2>2, <2>3 DEF AttemptFails, IInv, VllmTypeOK, WorkLeft, LabelAfterAttempts, Holding
  <2>. QED
    BY <1>11, <2>4, <2>5, <2>6 DEF AttemptFails, IInv, VllmTypeOK
<1>12. CASE CleanupFailedDeployment(r)
  <2>. DEFINE m == Model(r)
              n == env[r]
              next == [pc EXCEPT ![r] = NextLabel(r)]
              labels == LabelsAfterSignal(m, n, next)
  <2>1. m \in Models /\ n \in Names /\ pc[r] = "failed"
    BY <1>12, DefinitionType DEF CleanupFailedDeployment, IInv, Slots, VllmTypeOK, Held, Holding
  <2>2. NextLabel(r) \in Labels /\ NextLabel(r) # "waitModel"
    BY <2>1, NextLabelType DEF Labels
  <2>3. next \in [Requests -> Labels] /\ next[r] = NextLabel(r)
        /\ \A q \in Requests : q # r => next[q] = pc[q]
    BY <2>2 DEF IInv, VllmTypeOK
  <2>4. SignalNext(labels) /\ Record(r)
    BY <1>12 DEF CleanupFailedDeployment
  <2>5. /\ waiter' \in [Models -> Names \cup {None}]
        /\ in_use' \subseteq Names /\ deployments' \subseteq Names
        /\ configuration' \in [Names -> Definitions \cup {None}]
        /\ env' \in [Requests -> Names \cup {None}]
    BY <1>12, <2>1 DEF CleanupFailedDeployment, IInv, VllmTypeOK, DeploymentsWithout
  <2>. HIDE DEF m, n, next
  <2>6. /\ labels \in [Requests -> Labels]
        /\ \A q \in Requests :
             \/ labels[q] = next[q]
             \/ next[q] = "waitModel" /\ labels[q] \in {"woken", "lost"}
    BY <2>3, SignalLabels
  <2>. HIDE DEF labels
  <2>7. labels[r] = NextLabel(r)
    BY <2>2, <2>3, <2>6
  <2>8. \A q \in Requests : \/ q = r
                            \/ labels[q] = pc[q]
                            \/ pc[q] = "waitModel" /\ labels[q] \in {"woken", "lost"}
    BY <2>3, <2>6
  <2>9. /\ pc' \in [Requests -> Labels] /\ pc'[r] = NextLabel(r)
        /\ envQueue' \in Seq(Requests) /\ missed' \in [Requests -> BOOLEAN]
        /\ \A q \in Requests : \/ q = r
                               \/ pc'[q] = pc[q]
                               \/ pc[q] = "waitModel" /\ pc'[q] \in {"woken", "lost"}
                               \/ pc[q] = "queued" /\ pc'[q] = "get"
    BY <2>1, <2>4, <2>6, <2>7, <2>8, WakeLabels
  <2>10. results' \in [Requests -> Nat] /\ WorkLeft'
    BY <1>12, <2>1, <2>4, <2>9, RecordType DEF CleanupFailedDeployment
  <2>. QED
    BY <1>12, <2>5, <2>9, <2>10 DEF CleanupFailedDeployment, IInv, VllmTypeOK
<1>13. CASE CleanupFailedRaises(r)
  <2>1. pc' \in [Requests -> Labels] /\ pc'[r] = NextLabel(r)
    BY <1>13, NextLabelType DEF CleanupFailedRaises, IInv, VllmTypeOK, Labels
  <2>2. \A q \in Requests : q # r => pc'[q] = pc[q]
    BY <1>13 DEF CleanupFailedRaises, IInv, VllmTypeOK
  <2>3. results' \in [Requests -> Nat] /\ WorkLeft'
    BY <1>13, <2>1, <2>2, RecordType DEF CleanupFailedRaises
  <2>. QED
    BY <1>13, <2>1, <2>3 DEF CleanupFailedRaises, IInv, VllmTypeOK
<1>14. CASE DoneUsing(r)
  <2>. DEFINE labels == [pc EXCEPT ![r] = NextLabel(r)]
  <2>1. env[r] \in Names /\ pc[r] = "bench"
    BY <1>14 DEF DoneUsing, IInv, Slots, VllmTypeOK, Held, Holding
  <2>2. NextLabel(r) \in Labels
    BY <2>1, NextLabelType DEF Labels
  <2>3. labels \in [Requests -> Labels] /\ labels[r] = NextLabel(r)
        /\ \A q \in Requests : q # r => labels[q] = pc[q]
    BY <2>2 DEF IInv, VllmTypeOK
  <2>4. SignalNext(labels) /\ Record(r)
    BY <1>14 DEF DoneUsing
  <2>5. /\ in_use' \subseteq Names /\ free' \in Seq(Names)
        /\ env' \in [Requests -> Names \cup {None}]
    BY <1>14, <2>1 DEF DoneUsing, IInv, VllmTypeOK
  <2>. HIDE DEF labels
  <2>6. /\ pc' \in [Requests -> Labels] /\ pc'[r] = NextLabel(r)
        /\ envQueue' \in Seq(Requests) /\ missed' \in [Requests -> BOOLEAN]
        /\ \A q \in Requests : \/ q = r
                               \/ pc'[q] = pc[q]
                               \/ pc[q] = "waitModel" /\ pc'[q] \in {"woken", "lost"}
                               \/ pc[q] = "queued" /\ pc'[q] = "get"
    BY <2>1, <2>3, <2>4, WakeLabels
  <2>7. results' \in [Requests -> Nat] /\ WorkLeft'
    BY <1>14, <2>1, <2>4, <2>6, RecordType DEF DoneUsing
  <2>. QED
    BY <1>14, <2>5, <2>6, <2>7 DEF DoneUsing, IInv, VllmTypeOK
<1>. QED
  BY <1>1, <1>2, <1>3, <1>4, <1>5, <1>6, <1>7, <1>8, <1>9, <1>10, <1>11, <1>12,
     <1>13, <1>14 DEF Task

-----------------------------------------------------------------------------
(* Environments: who holds them, and how many there are.                   *)

\* A step that neither hands out nor takes back an environment.
LEMMA KeepSlots ==
  ASSUME IInv,
         UNCHANGED <<max_concurrent, in_use, free, configuration, env>>,
         ready \subseteq ready', deployments' \subseteq Tracked,
         \A q \in Requests :
           /\ pc'[q] \in Holding <=> pc[q] \in Holding
           /\ pc'[q] = "bench" => pc[q] = "bench" \/ env[q] \in ready',
         QueuedOnce'
  PROVE  Slots'
<1>. USE DEF IInv, Slots
<1>1. Held' /\ NotShared'
  BY DEF Held, NotShared
<1>2. HeldIsConfigured' /\ FreeIsReady'
  BY DEF HeldIsConfigured, FreeIsReady
<1>3. DeploymentsBounded'
  BY DEF DeploymentsBounded, Tracked
<1>. QED
  BY <1>1, <1>2, <1>3

\* Environment n, which nobody uses, is handed to r.
LEMMA HandOutSlots ==
  ASSUME IInv, NEW r \in Requests, pc[r] = "get", NEW n \in Names, HandOut(r, n),
         n \notin in_use, n \notin Range(free'), Distinct(free'),
         Range(free') \subseteq Range(free), Len(free') \in Nat,
         Cardinality(in_use) + Len(free') < max_concurrent,
         configuration'[n] # None,
         \A k \in in_use \cup Range(free') :
           configuration'[k] = configuration[k] /\ (k \in ready => k \in ready'),
         deployments' \subseteq in_use \cup {n} \cup Range(free'),
         NEW label \in {"start", "bench"}, pc' = [pc EXCEPT ![r] = label],
         label = "bench" => n \in ready'
  PROVE  Slots'
<1>. USE DEF IInv, Slots
<1>1. /\ in_use' = in_use \cup {n} /\ max_concurrent' = max_concurrent
      /\ envQueue' = envQueue
      /\ env'[r] = n /\ pc'[r] = label
      /\ \A q \in Requests : q # r => env'[q] = env[q] /\ pc'[q] = pc[q]
      /\ n # None
  BY NoneAssumption DEF HandOut, VllmTypeOK
<1>2. Held'
  BY <1>1 DEF Held, Holding
<1>3. \A q \in Requests : env[q] # None => env[q] \in in_use
  BY DEF NotShared
<1>4. NotShared'
  <2>1. \A q \in Requests : q # r => env'[q] # n
    BY <1>1, <1>3
  <2>2. \A q, p \in Requests : env'[q] # None /\ env'[q] = env'[p] => q = p
    BY <1>1, <2>1 DEF NotShared
  <2>3. \A q \in Requests : env'[q] # None => env'[q] \in in_use'
    BY <1>1, <1>3
  <2>4. in_use' \cap Range(free') = {}
    BY <1>1 DEF NotShared
  <2>. QED
    BY <2>2, <2>3, <2>4 DEF NotShared, Distinct
<1>5. HeldIsConfigured'
  <2>1. \A q \in Requests : pc[q] = "bench" => env[q] \in in_use
    BY <1>3 DEF Held, Holding
  <2>. QED
    BY <1>1, <1>3, <2>1 DEF HeldIsConfigured
<1>6. FreeIsReady'
  BY DEF FreeIsReady
<1>7. QueuedOnce'
  <2>1. \A i \in DOMAIN envQueue : envQueue[i] \in Requests /\ pc[envQueue[i]] = "queued"
    BY DEF QueuedOnce, VllmTypeOK
  <2>. QED
    BY <1>1, <2>1 DEF QueuedOnce
<1>8. IsFiniteSet(in_use') /\ Cardinality(in_use') = Cardinality(in_use) + 1
  BY <1>1, FS_AddElement
<1>9. DeploymentsBounded'
  <2>1. Cardinality(in_use) \in Nat /\ max_concurrent \in Nat
    BY FS_CardinalityType, MaxAssumption DEF VllmTypeOK
  <2>2. Cardinality(in_use') + Len(free') <= max_concurrent'
    BY <1>1, <1>8, <2>1
  <2>. QED
    BY <1>1, <2>2 DEF DeploymentsBounded, Tracked
<1>. QED
  BY <1>2, <1>4, <1>5, <1>6, <1>7, <1>8, <1>9

\* The environment of r is no longer in use: it is among the free ones, ready,
\* or it is gone.
LEMMA GiveBackSlots ==
  ASSUME IInv, NEW r \in Requests, env[r] # None,
         in_use' = in_use \ {env[r]}, env' = [env EXCEPT ![r] = None],
         UNCHANGED <<max_concurrent, ready>>,
         \A q \in Requests :
           /\ pc'[q] \in Holding <=> q # r /\ pc[q] \in Holding
           /\ pc'[q] = "bench" => pc[q] = "bench",
         QueuedOnce',
         \/ /\ free' = free
            /\ configuration' = [configuration EXCEPT ![env[r]] = None]
            /\ deployments' \subseteq deployments \ {env[r]}
         \/ /\ free' = Append(free, env[r]) /\ pc[r] = "bench"
            /\ UNCHANGED <<configuration, deployments>>
  PROVE  Slots'
<1>. USE DEF IInv, Slots
<1>1. /\ env'[r] = None
      /\ \A q \in Requests : q # r => env'[q] = env[q]
  BY DEF VllmTypeOK
<1>2. Held'
  BY <1>1 DEF Held
<1>3. /\ env[r] \in in_use /\ env[r] \in Names
      /\ env[r] \notin Range(free) /\ Distinct(free) /\ free \in Seq(Names)
      /\ \A q \in Requests : q # r /\ env[q] # None => env[q] \in in_use'
      /\ \A q, p \in Requests : env[q] # None /\ env[q] = env[p] => q = p
      /\ in_use \cap Range(free) = {}
  BY DEF NotShared, VllmTypeOK, Distinct
<1>4. /\ IsFiniteSet(in_use') /\ Cardinality(in_use') = Cardinality(in_use) - 1
      /\ Cardinality(in_use) \in Nat /\ max_concurrent \in Nat /\ Len(free) \in Nat
  BY <1>3, FS_RemoveElement, FS_CardinalityType, MaxAssumption DEF VllmTypeOK
<1>5. deployments \subseteq in_use \cup Range(free)
      /\ Cardinality(in_use) + Len(free) <= max_concurrent
  BY DEF DeploymentsBounded, Tracked
<1>6. CASE /\ free' = free
           /\ configuration' = [configuration EXCEPT ![env[r]] = None]
           /\ deployments' \subseteq deployments \ {env[r]}
  <2>1. \A n \in Names : n # env[r] => configuration'[n] = configuration[n]
    BY <1>6 DEF VllmTypeOK
  <2>2. Range(free) \subseteq Names
    BY <1>3, RangeOfSeq
  <2>3. NotShared'
    BY <1>1, <1>3, <1>6 DEF NotShared, Distinct
  <2>4. HeldIsConfigured'
    BY <1>1, <1>3, <2>1 DEF HeldIsConfigured, VllmTypeOK, Holding, Held
  <2>5. FreeIsReady'
    BY <1>3, <1>6, <2>1, <2>2 DEF FreeIsReady
  <2>6. DeploymentsBounded'
    BY <1>4, <1>5, <1>6 DEF DeploymentsBounded, Tracked
  <2>. QED
    BY <1>2, <1>4, <2>3, <2>4, <2>5, <2>6
<1>7. CASE /\ free' = Append(free, env[r]) /\ pc[r] = "bench"
           /\ UNCHANGED <<configuration, deployments>>
  <2>1. /\ Len(free') = Len(free) + 1 /\ Range(free') = Range(free) \cup {env[r]}
        /\ Distinct(free')
    BY <1>3, <1>7, AppendDistinct
  <2>2. NotShared'
    <3>1. in_use' \cap Range(free') = {}
      BY <1>3, <2>1
    <3>. QED
      BY <1>1, <1>3, <2>1, <3>1 DEF NotShared, Distinct
  <2>3. HeldIsConfigured'
    BY <1>1, <1>7 DEF HeldIsConfigured, Holding
  <2>4. FreeIsReady'
    BY <1>7, <2>1 DEF FreeIsReady, HeldIsConfigured
  <2>5. DeploymentsBounded'
    <3>1. deployments' \subseteq in_use' \cup Range(free')
      BY <1>5, <1>7, <2>1
    <3>2. Cardinality(in_use') + Len(free') <= max_concurrent'
      BY <1>4, <1>5, <2>1
    <3>. QED
      BY <3>1, <3>2 DEF DeploymentsBounded, Tracked
  <2>. QED
    BY <1>2, <1>4, <2>2, <2>3, <2>4, <2>5
<1>. QED
  BY <1>6, <1>7

\* A step of r that leaves the queue alone, and r where it is not in it.
LEMMA KeepQueue ==
  ASSUME IInv, NEW r \in Requests, pc[r] # "queued", envQueue' = envQueue,
         \A q \in Requests : \/ q = r
                             \/ pc'[q] = pc[q]
                             \/ pc[q] = "waitModel" /\ pc'[q] \in {"woken", "lost"}
  PROVE  QueuedOnce'
<1>1. \A i \in DOMAIN envQueue : envQueue[i] \in Requests /\ pc[envQueue[i]] = "queued"
  BY DEF IInv, Slots, VllmTypeOK, QueuedOnce
<1>2. \A i \in DOMAIN envQueue : pc'[envQueue[i]] = "queued"
  BY <1>1
<1>. QED
  BY <1>2 DEF IInv, Slots, QueuedOnce

\* A step of a task takes and gives back slots as the label says.
LEMMA SlotsTask ==
  ASSUME IInv, NEW r \in Requests, Task(r)
  PROVE  Slots'
<1>. USE DEF manager, conflicts, cluster, tasks
<1>0. /\ free \in Seq(Names) /\ Len(free) \in Nat /\ Distinct(free)
      /\ in_use \cap Range(free) = {}
      /\ \A i \in DOMAIN free : free[i] \in Names /\ free[i] \in Range(free)
      /\ IsFiniteSet(in_use) /\ Cardinality(in_use) \in Nat /\ max_concurrent \in Nat
      /\ Cardinality(in_use) + Len(free) <= max_concurrent
      /\ deployments \subseteq in_use \cup Range(free)
      /\ \A q \in Requests : env[q] # None => env[q] \in in_use /\ env[q] \in Names
      /\ in_use \subseteq Names /\ Range(free) \subseteq Names
  <2>1. Range(free) \subseteq Names
    BY RangeOfSeq DEF IInv, VllmTypeOK
  <2>. QED
    BY <2>1, FS_CardinalityType, MaxAssumption
       DEF IInv, Slots, VllmTypeOK, NotShared, Distinct, DeploymentsBounded, Tracked, Range
<1>a. Unused # {} =>
        /\ NewName \in Names /\ NewName \notin in_use /\ NewName \notin Range(free)
        /\ NewName \notin deployments
  BY NewNameIsUnused DEF Unused, Tracked
<1>b. pc[r] = "get" => Definition(r) # None /\ Definition(r) \in Definitions
  BY DefinitionType, NoneAssumption
<1>1. CASE GetMatching(r)
  <2>. DEFINE i == FirstMatch(Definition(r))
  <2>1. i \in DOMAIN free /\ configuration[free[i]] = Definition(r)
    BY <1>1, FirstMatchMatches DEF GetMatching, IInv, Matching
  <2>2. /\ HandOut(r, free[i]) /\ pc[r] = "get" /\ free' = RemoveAt(free, i)
        /\ pc' = [pc EXCEPT ![r] = IF free[i] \in ready THEN "bench" ELSE "start"]
        /\ UNCHANGED <<configuration, ready, deployments>>
    BY <1>1 DEF GetMatching, FreeWithout
  <2>. HIDE DEF i
  <2>3. /\ Len(free') = Len(free) - 1 /\ Range(free') = Range(free) \ {free[i]}
        /\ Distinct(free') /\ free' \in Seq(Names)
    BY <1>0, <2>1, <2>2, RemoveAtProperties
  <2>4. PICK label \in {"start", "bench"} : /\ pc' = [pc EXCEPT ![r] = label]
                                            /\ label = "bench" => free[i] \in ready'
    BY <2>2
  <2>5. free[i] \in Names /\ free[i] \notin in_use /\ free[i] \notin Range(free')
    BY <1>0, <2>1, <2>3
  <2>6. Range(free') \subseteq Range(free) /\ Len(free') \in Nat
        /\ Cardinality(in_use) + Len(free') < max_concurrent
    BY <1>0, <2>3
  <2>7. configuration'[free[i]] # None
    BY <1>b, <2>1, <2>2
  <2>8. deployments' \subseteq in_use \cup {free[i]} \cup Range(free')
    BY <1>0, <2>2, <2>3
  <2>. QED
    BY <2>2, <2>3, <2>4, <2>5, <2>6, <2>7, <2>8, HandOutSlots
<1>2. CASE GetNew(r)
  <2>1. /\ HandOut(r, NewName) /\ pc[r] = "get" /\ pc' = [pc EXCEPT ![r] = "start"]
        /\ configuration' = [configuration EXCEPT ![NewName] = Definition(r)]
        /\ UNCHANGED <<free, ready, deployments>> /\ Unused # {}
        /\ Cardinality(in_use) + Len(free) < max_concurrent
    BY <1>2 DEF GetNew, ActiveEnvironments
  <2>2. configuration'[NewName] # None
        /\ \A k \in in_use \cup Range(free') : configuration'[k] = configuration[k]
    BY <1>0, <1>a, <1>b, <2>1 DEF IInv, VllmTypeOK
  <2>. QED
    BY <1>0, <1>a, <2>1, <2>2, HandOutSlots
<1>3. CASE GetEvicting(r)
  <2>1. /\ HandOut(r, NewName) /\ pc[r] = "get" /\ pc' = [pc EXCEPT ![r] = "start"]
        /\ Unused # {}
    BY <1>3 DEF GetEvicting
  <2>2. PICK i \in DOMAIN free :
          /\ deployments' = deployments \ {free[i]}
          /\ free' = RemoveAt(free, i)
          /\ ready' = ready \ {free[i]}
          /\ configuration' = [configuration EXCEPT ![free[i]] = None,
                                                    ![NewName] = Definition(r)]
    BY <1>3 DEF GetEvicting, DeploymentsWithout
  <2>3. /\ Len(free') = Len(free) - 1 /\ Range(free') = Range(free) \ {free[i]}
        /\ Distinct(free')
    BY <1>0, <2>2, RemoveAtProperties
  <2>4. free[i] \notin in_use
    BY <1>0
  <2>5. configuration'[NewName] # None
    BY <1>a, <1>b, <2>1, <2>2 DEF IInv, VllmTypeOK
  <2>6. \A k \in in_use \cup Range(free') :
          configuration'[k] = configuration[k] /\ (k \in ready => k \in ready')
    BY <1>0, <1>a, <2>1, <2>2, <2>3, <2>4 DEF IInv, VllmTypeOK
  <2>7. Len(free') \in Nat /\ Cardinality(in_use) + Len(free') < max_concurrent
    BY <1>0, <2>3
  <2>8. deployments' \subseteq in_use \cup {NewName} \cup Range(free')
    BY <1>0, <2>2, <2>3
  <2>. QED
    BY <1>0, <1>a, <2>1, <2>3, <2>5, <2>6, <2>7, <2>8, HandOutSlots
<1>4. CASE GetNothing(r)
  <2>1. QueuedOnce'
    BY <1>4, KeepQueue DEF GetNothing, IInv, VllmTypeOK
  <2>2. \A q \in Requests : /\ pc'[q] \in Holding <=> pc[q] \in Holding
                            /\ pc'[q] = "bench" => pc[q] = "bench"
    BY <1>4 DEF GetNothing, IInv, VllmTypeOK, Holding
  <2>. QED
    BY <1>0, <1>4, <2>1, <2>2, KeepSlots DEF GetNothing, Tracked
<1>5. CASE GetRaises(r)
  <2>0. NextLabel(r) \in {"get", "done"}
    BY <1>5, NextLabelType DEF GetRaises
  <2>1. QueuedOnce'
    BY <1>5, KeepQueue DEF GetRaises, IInv, VllmTypeOK
  <2>2. \A q \in Requests : /\ pc'[q] \in Holding <=> pc[q] \in Holding
                            /\ pc'[q] = "bench" => pc[q] = "bench"
    BY <1>5, <2>0 DEF GetRaises, IInv, VllmTypeOK, Holding
  <2>. QED
    BY <1>0, <1>5, <2>1, <2>2, KeepSlots DEF GetRaises, Tracked
<1>6. CASE WaitForEnv(r)
  <2>1. r \notin Range(envQueue) /\ envQueue \in Seq(Requests) /\ Distinct(envQueue)
        /\ \A i \in DOMAIN envQueue : pc[envQueue[i]] = "queued"
    BY <1>6 DEF WaitForEnv, IInv, Slots, VllmTypeOK, QueuedOnce, Range
  <2>2. /\ envQueue' = Append(envQueue, r) /\ pc[r] = "denied" /\ pc'[r] = "queued"
        /\ \A q \in Requests : q # r => pc'[q] = pc[q]
    BY <1>6 DEF WaitForEnv, IInv, VllmTypeOK
  <2>3. Range(envQueue') = Range(envQueue) \cup {r} /\ Distinct(envQueue')
    BY <2>1, <2>2, AppendDistinct
  <2>4. \A q \in Range(envQueue) : q \in Requests /\ pc[q] = "queued"
    BY <2>1 DEF Range
  <2>5. \A i \in DOMAIN envQueue' : envQueue'[i] \in Range(envQueue')
    BY DEF Range
  <2>6. QueuedOnce'
    BY <2>2, <2>3, <2>4, <2>5 DEF QueuedOnce
  <2>7. \A q \in Requests : /\ pc'[q] \in Holding <=> pc[q] \in Holding
                            /\ pc'[q] = "bench" => pc[q] = "bench"
    BY <2>2 DEF Holding
  <2>. QED
    BY <1>0, <1>6, <2>6, <2>7, KeepSlots DEF WaitForEnv, Tracked
<1>7. CASE WaitDeployment(r)
  <2>1. QueuedOnce'
    BY <1>7, KeepQueue DEF WaitDeployment, IInv, VllmTypeOK
  <2>2. \A q \in Requests : /\ pc'[q] \in Holding <=> pc[q] \in Holding
                            /\ pc'[q] = "bench" => pc[q] = "bench"
    BY <1>7 DEF WaitDeployment, IInv, VllmTypeOK, Holding
  <2>. QED
    BY <1>0, <1>7, <2>1, <2>2, KeepSlots DEF WaitDeployment, Tracked
<1>8. CASE WakeUp(r)
  <2>1. QueuedOnce'
    BY <1>8, KeepQueue DEF WakeUp, IInv, VllmTypeOK
  <2>2. \A q \in Requests : /\ pc'[q] \in Holding <=> pc[q] \in Holding
                            /\ pc'[q] = "bench" => pc[q] = "bench"
    BY <1>8 DEF WakeUp, IInv, VllmTypeOK, Holding
  <2>. QED
    BY <1>0, <1>8, <2>1, <2>2, KeepSlots DEF WakeUp, Tracked
<1>9. CASE CreateDeployment(r)
  <2>1. QueuedOnce'
    BY <1>9, KeepQueue DEF CreateDeployment, IInv, VllmTypeOK
  <2>2. \A q \in Requests : /\ pc'[q] \in Holding <=> pc[q] \in Holding
                            /\ pc'[q] = "bench" => pc[q] = "bench"
    BY <1>9 DEF CreateDeployment, IInv, VllmTypeOK, Holding
  <2>3. env[r] \in in_use
    BY <1>0, <1>9 DEF CreateDeployment, IInv, Slots, Held, Holding
  <2>. QED
    BY <1>0, <1>9, <2>1, <2>2, <2>3, KeepSlots DEF CreateDeployment, Tracked
<1>10. CASE DoneCreating(r)
  <2>. DEFINE labels == [pc EXCEPT ![r] = "bench"]
              m == Model(r)
  <2>1. labels \in [Requests -> Labels]
    BY DEF IInv, VllmTypeOK, Labels
  <2>2. /\ pc' = LabelsAfterSignal(m, env[r], labels) /\ pc[r] = "deploying"
        /\ ready' = ready \cup {env[r]} /\ envQueue' = envQueue
        /\ UNCHANGED <<max_concurrent, in_use, free, configuration, env, deployments>>
    BY <1>10 DEF DoneCreating
  <2>3. \A q \in Requests : labels[q] = IF q = r THEN "bench" ELSE pc[q]
    BY DEF IInv, VllmTypeOK
  <2>. HIDE DEF labels, m
  <2>4. \A q \in Requests :
          \/ pc'[q] = labels[q]
          \/ labels[q] = "waitModel" /\ pc'[q] \in {"woken", "lost"}
    BY <2>1, <2>2, SignalLabels
  <2>5. \A q \in Requests : \/ q = r
                            \/ pc'[q] = pc[q]
                            \/ pc[q] = "waitModel" /\ pc'[q] \in {"woken", "lost"}
    BY <2>3, <2>4
  <2>6. pc'[r] = "bench"
    BY <2>3, <2>4
  <2>7. QueuedOnce'
    BY <2>2, <2>5, KeepQueue
  <2>8. \A q \in Requests : /\ pc'[q] \in Holding <=> pc[q] \in Holding
                            /\ pc'[q] = "bench" => pc[q] = "bench" \/ env[q] \in ready'
    BY <2>2, <2>5, <2>6 DEF Holding
  <2>. QED
    BY <1>0, <2>2, <2>7, <2>8, KeepSlots DEF Tracked
<1>11. CASE AttemptFails(r)
  <2>1. QueuedOnce'
    BY <1>11, KeepQueue DEF AttemptFails, IInv, VllmTypeOK
  <2>2. \A q \in Requests : /\ pc'[q] \in Holding <=> pc[q] \in Holding
                            /\ pc'[q] = "bench" => pc[q] = "bench"
    BY <1>11 DEF AttemptFails, IInv, VllmTypeOK, Holding, LabelAfterAttempts
  <2>. QED
    BY <1>0, <1>11, <2>1, <2>2, KeepSlots DEF AttemptFails, Tracked
<1>12. CASE CleanupFailedDeployment(r)
  <2>. DEFINE m == Model(r)
              n == env[r]
              next == [pc EXCEPT ![r] = NextLabel(r)]
              labels == LabelsAfterSignal(m, n, next)
  <2>1. n # None /\ pc[r] = "failed"
    BY <1>12 DEF CleanupFailedDeployment, IInv, Slots, Held, Holding
  <2>2. NextLabel(r) \in {"get", "done"}
    BY <2>1, NextLabelType
  <2>3. next \in [Requests -> Labels] /\ next[r] = NextLabel(r)
        /\ \A q \in Requests : q # r => next[q] = pc[q]
    BY <2>2 DEF IInv, VllmTypeOK, Labels
  <2>4. /\ SignalNext(labels)
        /\ in_use' = in_use \ {n} /\ env' = [env EXCEPT ![r] = None]
        /\ configuration' = [configuration EXCEPT ![n] = None]
        /\ deployments' = deployments \ {n}
        /\ UNCHANGED <<max_concurrent, free, ready>>
    BY <1>12 DEF CleanupFailedDeployment, DeploymentsWithout
  <2>. HIDE DEF m, next
  <2>5. /\ labels \in [Requests -> Labels]
        /\ \A q \in Requests :
             \/ labels[q] = next[q]
             \/ next[q] = "waitModel" /\ labels[q] \in {"woken", "lost"}
    BY <2>3, SignalLabels
  <2>. HIDE DEF labels
  <2>6. labels[r] = NextLabel(r)
        /\ \A q \in Requests : \/ q = r
                               \/ labels[q] = pc[q]
                               \/ pc[q] = "waitModel" /\ labels[q] \in {"woken", "lost"}
    BY <2>2, <2>3, <2>5
  <2>7. /\ pc'[r] = NextLabel(r) /\ QueuedOnce'
        /\ \A q \in Requests : \/ q = r
                               \/ pc'[q] = pc[q]
                               \/ pc[q] = "waitModel" /\ pc'[q] \in {"woken", "lost"}
                               \/ pc[q] = "queued" /\ pc'[q] = "get"
    BY <2>1, <2>4, <2>5, <2>6, WakeLabels
  <2>8. \A q \in Requests : /\ pc'[q] \in Holding <=> q # r /\ pc[q] \in Holding
                            /\ pc'[q] = "bench" => pc[q] = "bench"
    BY <2>2, <2>7 DEF Holding
  <2>. QED
    BY <2>1, <2>4, <2>7, <2>8, GiveBackSlots
<1>13. CASE CleanupFailedRaises(r)
  <2>1. NextLabel(r) \in {"get", "done"} /\ pc[r] = "failed"
    BY <1>13, NextLabelType DEF CleanupFailedRaises
  <2>2. /\ pc'[r] = NextLabel(r) /\ env'[r] = None
        /\ \A q \in Requests : q # r => pc'[q] = pc[q] /\ env'[q] = env[q]
        /\ UNCHANGED <<manager, conflicts, cluster>>
    BY <1>13 DEF CleanupFailedRaises, IInv, VllmTypeOK
  <2>3. QueuedOnce'
    BY <2>1, <2>2, KeepQueue
  <2>4. Held' /\ HeldIsConfigured' /\ NotShared'
    BY <2>1, <2>2 DEF IInv, Slots, Held, HeldIsConfigured, NotShared, Holding
  <2>. QED
    BY <2>2, <2>3, <2>4
       DEF IInv, Slots, FreeIsReady, DeploymentsBounded, Tracked
<1>14. CASE DoneUsing(r)
  <2>. DEFINE labels == [pc EXCEPT ![r] = NextLabel(r)]
  <2>1. env[r] # None /\ pc[r] = "bench"
    BY <1>14 DEF DoneUsing, IInv, Slots, Held, Holding
  <2>2. NextLabel(r) \in {"get", "done"}
    BY <2>1, NextLabelType
  <2>3. labels \in [Requests -> Labels] /\ labels[r] = NextLabel(r)
        /\ \A q \in Requests : q # r => labels[q] = pc[q]
    BY <2>2 DEF IInv, VllmTypeOK, Labels
  <2>4. /\ SignalNext(labels)
        /\ in_use' = in_use \ {env[r]} /\ env' = [env EXCEPT ![r] = None]
        /\ free' = Append(free, env[r])
        /\ UNCHANGED <<max_concurrent, ready, configuration, deployments>>
    BY <1>14 DEF DoneUsing
  <2>. HIDE DEF labels
  <2>5. /\ pc'[r] = NextLabel(r) /\ QueuedOnce'
        /\ \A q \in Requests : \/ q = r
                               \/ pc'[q] = pc[q]
                               \/ pc[q] = "waitModel" /\ pc'[q] \in {"woken", "lost"}
                               \/ pc[q] = "queued" /\ pc'[q] = "get"
    BY <2>1, <2>3, <2>4, WakeLabels
  <2>6. \A q \in Requests : /\ pc'[q] \in Holding <=> q # r /\ pc[q] \in Holding
                            /\ pc'[q] = "bench" => pc[q] = "bench"
    BY <2>2, <2>5 DEF Holding
  <2>. QED
    BY <2>1, <2>4, <2>5, <2>6, GiveBackSlots
<1>. QED
  BY <1>1, <1>2, <1>3, <1>4, <1>5, <1>6, <1>7, <1>8, <1>9, <1>10, <1>11, <1>12,
     <1>13, <1>14 DEF Task

\* So does every step: clean-up only takes deployments away.
LEMMA NextInv ==
  ASSUME IInv, [VllmNext]_vllmVars
  PROVE  IInv'
<1>1. ASSUME NEW r \in Requests, Task(r)
      PROVE  IInv'
  BY <1>1, TypeTask, SlotsTask DEF IInv
<1>2. CASE Cleanup
  <2>1. deployments' \subseteq deployments
    BY <1>2 DEF Cleanup
  <2>2. /\ cleaned' \in BOOLEAN
        /\ UNCHANGED <<manager, conflicts, faulty, tasks>>
    BY <1>2 DEF Cleanup
  <2>3. VllmTypeOK' /\ WorkLeft'
    BY <2>1, <2>2 DEF IInv, VllmTypeOK, WorkLeft, manager, conflicts, tasks
  <2>4. Held' /\ NotShared' /\ HeldIsConfigured' /\ FreeIsReady' /\ QueuedOnce'
    BY <2>2 DEF IInv, Slots, Held, NotShared, HeldIsConfigured, FreeIsReady,
                QueuedOnce, manager, tasks
  <2>5. DeploymentsBounded' /\ IsFiniteSet(in_use')
    BY <2>1, <2>2 DEF IInv, Slots, DeploymentsBounded, Tracked, manager
  <2>. QED
    BY <2>3, <2>4, <2>5 DEF IInv, Slots
<1>3. CASE UNCHANGED vllmVars
  <2>. USE <1>3 DEF vllmVars, manager, conflicts, cluster, tasks
  <2>1. VllmTypeOK' /\ WorkLeft'
    BY DEF IInv, VllmTypeOK, WorkLeft
  <2>2. Held' /\ NotShared' /\ HeldIsConfigured' /\ FreeIsReady' /\ QueuedOnce'
    BY DEF IInv, Slots, Held, NotShared, HeldIsConfigured, FreeIsReady, QueuedOnce
  <2>3. DeploymentsBounded' /\ IsFiniteSet(in_use')
    BY DEF IInv, Slots, DeploymentsBounded, Tracked
  <2>. QED
    BY <2>1, <2>2, <2>3 DEF IInv, Slots
<1>. QED
  BY <1>1, <1>2, <1>3 DEF VllmNext, Terminated

\* The inductive invariant holds after every step of every task, whatever
\* fails: a task holds an environment exactly while its label says so.
THEOREM InductiveInvariant == VllmSpec => []IInv
<1>1. IInv /\ [VllmNext]_vllmVars => IInv'
  BY NextInv
<1>. QED
  BY InitInv, <1>1, PTL DEF VllmSpec

\* The environments are consistent at every step of every task: deployments
\* stay within max_environments, no environment is shared or offered while it
\* is used, and what is offered is ready.
THEOREM EnvironmentsConsistent == VllmSpec => []EnvironmentsKept
<1>1. IInv => EnvironmentsKept
  BY DEF IInv, Slots, EnvironmentsKept
<1>. QED
  BY InductiveInvariant, <1>1, PTL

-----------------------------------------------------------------------------
(* Downloads.                                                              *)

\* A waiter that is set stays, and a model has one unless it is downloaded.
LEMMA WaiterAdded ==
  ASSUME IInv, NEW m \in Models, NEW n \in Names
  PROVE  /\ \A k \in Models : waiter[k] # None => WaiterAfterAdding(m, n)[k] = waiter[k]
         /\ \A k \in downloaded : WaiterAfterAdding(m, n)[k] = waiter[k]
         /\ m \in downloaded \/ WaiterAfterAdding(m, n)[m] # None
         /\ Addable(m) => WaiterAfterAdding(m, n)[m] = n
BY NoneAssumption DEF IInv, VllmTypeOK, WaiterAfterAdding, Addable

\* A task that another's step leaves alone stays in turn.
LEMMA StaysInTurn ==
  ASSUME IInv, NEW q \in Requests, InTurn(q),
         UNCHANGED <<pc[q], env[q], waitFor[q], results[q]>>,
         downloaded \subseteq downloaded',
         \A m \in Models :
           \/ m \in downloaded'
           \/ waiter[m] # None => waiter'[m] = waiter[m],
         env[q] \in Names => (env[q] \in deployments' <=> env[q] \in deployments)
  PROVE  InTurn(q)'
<1>1. Model(q)' = Model(q)
  BY DEF Model, Definition
<1>2. pc[q] # "done" => Model(q) \in Models
  BY DefinitionType
<1>3. pc[q] \in Holding => env[q] # None /\ env[q] \in Names
  BY DEF IInv, Slots, Held, VllmTypeOK
<1>. QED
  BY <1>1, <1>2, <1>3 DEF InTurn, Holding

\* A task that is handed an environment of a model nobody waits for becomes
\* the one that downloads it.
LEMMA HandOutInTurn ==
  ASSUME IInv, HealthyInv, NEW r \in Requests, pc[r] = "get",
         NEW n \in Names, HandOut(r, n)
  PROVE  /\ NoWaiterAfterDownload'
         /\ Model(r)' = Model(r) /\ env'[r] = n
         /\ Model(r) \in downloaded' \/ waiter'[Model(r)] # None
         /\ downloaded \subseteq downloaded'
         /\ \A m \in Models : waiter[m] # None => waiter'[m] = waiter[m]
         /\ \A q \in Requests : q # r => UNCHANGED <<env[q], waitFor[q], results[q]>>
<1>1. Model(r) \in Models
  BY DefinitionType
<1>2. UNCHANGED <<downloaded, results, waitFor>>
      /\ waiter' = WaiterAfterAdding(Model(r), n)
      /\ env' = [env EXCEPT ![r] = n]
  BY DEF HandOut
<1>3. NoWaiterAfterDownload'
  BY <1>1, <1>2, WaiterAdded DEF HealthyInv, NoWaiterAfterDownload
<1>4. Model(r)' = Model(r)
  BY <1>2 DEF Model, Definition
<1>. QED
  BY <1>1, <1>2, <1>3, <1>4, WaiterAdded DEF IInv, VllmTypeOK

\* While nothing fails, a step of a task keeps downloads in turn.
LEMMA HealthyTask ==
  ASSUME IInv, HealthyInv, NEW r \in Requests, Task(r)
  PROVE  HealthyInv'
<1>. USE DEF manager, conflicts, cluster, tasks
<1>0. /\ \A q \in Requests : env[q] # None => env[q] \in in_use /\ env[q] \in Names
      /\ \A q, p \in Requests : env[q] # None /\ env[q] = env[p] => q = p
      /\ \A q \in Requests : env[q] # None <=> pc[q] \in Holding
      /\ None \notin Names
  BY NoneAssumption DEF IInv, Slots, VllmTypeOK, NotShared, Held
<1>a. Healthy => \A q \in Requests : InTurn(q)
  BY DEF HealthyInv, DownloadsInTurn
<1>b. ASSUME NoWaiterAfterDownload',
             Healthy => \A q \in Requests : InTurn(q)'
      PROVE  HealthyInv'
  <2>1. UNCHANGED <<faulty, cleaned>>
    BY DEF Task, GetMatching, GetNew, GetEvicting, GetNothing, GetRaises, WaitForEnv,
           WaitDeployment, WakeUp, CreateDeployment, DoneCreating, AttemptFails,
           CleanupFailedDeployment, CleanupFailedRaises, DoneUsing, HandOut
  <2>. QED
    BY <1>b, <2>1 DEF HealthyInv, DownloadsInTurn, Healthy
<1>c. ASSUME UNCHANGED <<waiter, downloaded>>
      PROVE  NoWaiterAfterDownload'
  BY <1>c DEF HealthyInv, NoWaiterAfterDownload
<1>1. CASE GetMatching(r)
  <2>. DEFINE i == FirstMatch(Definition(r))
  <2>1. i \in DOMAIN free
    BY <1>1, FirstMatchMatches DEF GetMatching, IInv, Matching
  <2>2. /\ HandOut(r, free[i]) /\ pc[r] = "get"
        /\ pc' = [pc EXCEPT ![r] = IF free[i] \in ready THEN "bench" ELSE "start"]
        /\ deployments' = deployments
    BY <1>1 DEF GetMatching
  <2>. HIDE DEF i
  <2>3. free[i] \in Names /\ free[i] \in ready
    BY <2>1 DEF IInv, Slots, VllmTypeOK, FreeIsReady, Range
  <2>4. pc'[r] = "bench" /\ \A q \in Requests : q # r => pc'[q] = pc[q]
    BY <2>2, <2>3 DEF IInv, VllmTypeOK
  <2>5. InTurn(r)'
    BY <2>4 DEF InTurn
  <2>6. \A q \in Requests : q # r /\ InTurn(q) => InTurn(q)'
    BY <2>2, <2>3, <2>4, HandOutInTurn, StaysInTurn
  <2>. QED
    BY <1>a, <1>b, <2>2, <2>3, <2>5, <2>6, HandOutInTurn
<1>2. CASE GetNew(r)
  <2>1. /\ HandOut(r, NewName) /\ pc[r] = "get" /\ deployments' = deployments
        /\ pc'[r] = "start" /\ \A q \in Requests : q # r => pc'[q] = pc[q]
    BY <1>2 DEF GetNew, IInv, VllmTypeOK
  <2>2. NewName \in Names /\ NewName \notin deployments
    BY <1>2, NewNameIsUnused DEF GetNew, Unused
  <2>3. InTurn(r)'
    BY <2>1, <2>2, HandOutInTurn DEF InTurn
  <2>4. \A q \in Requests : q # r /\ InTurn(q) => InTurn(q)'
    BY <2>1, <2>2, HandOutInTurn, StaysInTurn
  <2>. QED
    BY <1>a, <1>b, <2>1, <2>2, <2>3, <2>4, HandOutInTurn
<1>3. CASE GetEvicting(r)
  <2>1. /\ HandOut(r, NewName) /\ pc[r] = "get"
        /\ pc'[r] = "start" /\ \A q \in Requests : q # r => pc'[q] = pc[q]
    BY <1>3 DEF GetEvicting, IInv, VllmTypeOK
  <2>2. NewName \in Names /\ NewName \notin deployments
    BY <1>3, NewNameIsUnused DEF GetEvicting, Unused
  <2>3. PICK i \in DOMAIN free : deployments' = deployments \ {free[i]}
    BY <1>3 DEF GetEvicting, DeploymentsWithout
  <2>4. free[i] \notin in_use /\ free[i] \in Names
    BY DEF IInv, Slots, NotShared, VllmTypeOK, Range
  <2>5. InTurn(r)'
    BY <2>1, <2>2, <2>3, HandOutInTurn DEF InTurn
  <2>6. \A q \in Requests : q # r /\ InTurn(q) => InTurn(q)'
    BY <1>0, <2>1, <2>2, <2>3, <2>4, HandOutInTurn, StaysInTurn
  <2>. QED
    BY <1>a, <1>b, <2>1, <2>2, <2>5, <2>6, HandOutInTurn
<1>4. CASE GetNothing(r) \/ GetRaises(r) \/ WaitForEnv(r) \/ CleanupFailedRaises(r)
  <2>1. /\ UNCHANGED <<waiter, downloaded, deployments, waitFor>>
        /\ \A q \in Requests : q # r => UNCHANGED <<pc[q], env[q], results[q]>>
    BY <1>4 DEF GetNothing, GetRaises, WaitForEnv, CleanupFailedRaises, Record, IInv, VllmTypeOK
  <2>2. pc[r] # "done"
    BY <1>4 DEF GetNothing, GetRaises, WaitForEnv, CleanupFailedRaises
  <2>3. pc'[r] \in {"denied", "queued", "get", "done"}
    BY <1>4, <2>2, NextLabelType
       DEF GetNothing, GetRaises, WaitForEnv, CleanupFailedRaises, IInv, VllmTypeOK
  <2>4. InTurn(r)'
    BY <2>3 DEF InTurn
  <2>5. \A q \in Requests : q # r /\ InTurn(q) => InTurn(q)'
    BY <2>1, StaysInTurn
  <2>. QED
    BY <1>a, <1>b, <1>c, <2>1, <2>4, <2>5
<1>5. CASE WaitDeployment(r)
  <2>. DEFINE w == waiter[Model(r)]
  <2>1. /\ UNCHANGED <<waiter, downloaded, deployments, env, results>> /\ pc[r] = "start"
        /\ \A q \in Requests : q # r => UNCHANGED <<pc[q], waitFor[q]>>
    BY <1>5 DEF WaitDeployment, IInv, VllmTypeOK
  <2>2. \/ w \in {None, env[r]} /\ pc'[r] = "create"
        \/ w \notin {None, env[r]} /\ pc'[r] = "waitModel" /\ waitFor'[r] = w
    BY <1>5 DEF WaitDeployment, IInv, VllmTypeOK
  <2>3. Model(r)' = Model(r)
    BY <2>1 DEF Model, Definition
  <2>4. InTurn(r) => InTurn(r)'
    BY <2>1, <2>2, <2>3 DEF InTurn
  <2>5. \A q \in Requests : q # r /\ InTurn(q) => InTurn(q)'
    BY <2>1, StaysInTurn
  <2>. QED
    BY <1>a, <1>b, <1>c, <2>1, <2>4, <2>5
<1>6. CASE WakeUp(r)
  <2>. DEFINE m == Model(r)
  <2>1. /\ UNCHANGED <<downloaded, deployments, env, results>> /\ pc[r] = "woken"
        /\ \A q \in Requests : q # r => UNCHANGED <<pc[q], waitFor[q]>>
    BY <1>6 DEF WakeUp, IInv, VllmTypeOK
  <2>2. m \in Models /\ env[r] \in Names
    BY <1>0, <2>1, DefinitionType DEF Holding
  <2>3. \/ /\ m \in downloaded \/ Addable(m)
           /\ pc'[r] = "create" /\ waiter' = WaiterAfterAdding(m, env[r])
        \/ /\ m \notin downloaded /\ ~Addable(m) /\ waiter' = waiter
           /\ pc'[r] = "waitModel" /\ waitFor'[r] = waiter[m]
    BY <1>6 DEF WakeUp, IInv, VllmTypeOK
  <2>4. m' = m
    BY <2>1 DEF Model, Definition
  <2>. HIDE DEF m
  <2>5. /\ \A k \in Models : waiter[k] # None => waiter'[k] = waiter[k]
        /\ \A k \in downloaded : waiter'[k] = waiter[k]
        /\ pc'[r] = "create" => m \in downloaded \/ waiter'[m] = env[r]
        /\ pc'[r] = "waitModel" => waitFor'[r] # None
    BY <2>2, <2>3, WaiterAdded DEF Addable
  <2>6. NoWaiterAfterDownload'
    BY <2>1, <2>5 DEF HealthyInv, NoWaiterAfterDownload
  <2>7. InTurn(r) => InTurn(r)'
    BY <2>1, <2>3, <2>4, <2>5 DEF InTurn, m
  <2>8. \A q \in Requests : q # r /\ InTurn(q) => InTurn(q)'
    BY <2>1, <2>5, StaysInTurn
  <2>. QED
    BY <1>a, <1>b, <2>6, <2>7, <2>8
<1>7. CASE CreateDeployment(r)
  <2>1. /\ UNCHANGED <<waiter, downloaded, env, results, waitFor>> /\ pc[r] = "create"
        /\ deployments' = deployments \cup {env[r]} /\ pc'[r] = "deploying"
        /\ \A q \in Requests : q # r => UNCHANGED pc[q]
    BY <1>7 DEF CreateDeployment, IInv, VllmTypeOK
  <2>2. Model(r)' = Model(r)
    BY <2>1 DEF Model, Definition
  <2>3. InTurn(r) => InTurn(r)'
    BY <2>1, <2>2 DEF InTurn
  <2>4. \A q \in Requests : q # r /\ env[q] \in Names => env[q] # env[r]
    BY <1>0
  <2>5. \A q \in Requests : q # r /\ InTurn(q) => InTurn(q)'
    BY <2>1, <2>4, StaysInTurn
  <2>. QED
    BY <1>a, <1>b, <1>c, <2>1, <2>3, <2>5
<1>8. CASE DoneCreating(r)
  <2>. DEFINE m == Model(r)
              labels == [pc EXCEPT ![r] = "bench"]
  <2>1. /\ UNCHANGED <<deployments, env, results, waitFor>> /\ pc[r] = "deploying"
        /\ waiter' = [waiter EXCEPT ![m] = None]
        /\ downloaded' = IF waiter[m] = env[r] THEN downloaded \cup {m} ELSE downloaded
        /\ pc' = LabelsAfterSignal(m, env[r], labels)
    BY <1>8 DEF DoneCreating
  <2>2. m \in Models /\ env[r] # None
    BY <1>0, <2>1, DefinitionType DEF Holding
  <2>3. \A q \in Requests : labels[q] = IF q = r THEN "bench" ELSE pc[q]
    BY DEF IInv, VllmTypeOK
  <2>4. \A q \in Requests :
          pc'[q] = IF labels[q] = "waitModel" /\ Model(q) = m /\ waitFor[q] = waiter[m]
                   THEN IF waiter[m] = env[r] THEN "woken" ELSE "lost"
                   ELSE labels[q]
    BY <2>1 DEF LabelsAfterSignal
  <2>. HIDE DEF m, labels
  <2>5. /\ waiter'[m] = None /\ \A k \in Models : k # m => waiter'[k] = waiter[k]
    BY <2>1, <2>2 DEF IInv, VllmTypeOK
  <2>6. NoWaiterAfterDownload'
    BY <2>1, <2>2, <2>5 DEF HealthyInv, NoWaiterAfterDownload, IInv, VllmTypeOK
  <2>7. InTurn(r) => m \in downloaded' /\ (waiter[m] # env[r] => waiter[m] = None)
    BY <2>1 DEF InTurn, HealthyInv, NoWaiterAfterDownload, m
  <2>8. InTurn(r)'
    BY <2>3, <2>4 DEF InTurn
  <2>9. ASSUME InTurn(r), NEW q \in Requests, q # r, InTurn(q)
        PROVE  InTurn(q)'
    <3>1. CASE pc'[q] = pc[q]
      BY <2>1, <2>5, <2>7, <2>9, <3>1, StaysInTurn
    <3>2. CASE pc'[q] # pc[q]
      <4>1. pc[q] = "waitModel" /\ waitFor[q] = waiter[m]
        BY <2>3, <2>4, <2>9, <3>2
      <4>2. waiter[m] = env[r]
        BY <2>7, <2>9, <4>1 DEF InTurn
      <4>3. pc'[q] = "woken"
        BY <2>3, <2>4, <2>9, <3>2, <4>2
      <4>. QED
        BY <2>1, <2>9, <4>1, <4>3 DEF InTurn
    <3>. QED
      BY <3>1, <3>2
  <2>. QED
    BY <1>a, <1>b, <2>6, <2>8, <2>9
<1>9. CASE AttemptFails(r)
  <2>1. UNCHANGED <<waiter, downloaded>>
    BY <1>9 DEF AttemptFails
  <2>2. Healthy => ~InTurn(r)
    BY <1>9 DEF AttemptFails, InTurn, Healthy
  <2>. QED
    BY <1>a, <1>b, <1>c, <2>1, <2>2
<1>10. CASE CleanupFailedDeployment(r)
  <2>1. /\ waiter' = [waiter EXCEPT ![Model(r)] = None] /\ downloaded' = downloaded
        /\ pc[r] = "failed"
    BY <1>10 DEF CleanupFailedDeployment
  <2>2. NoWaiterAfterDownload'
    BY <2>1, DefinitionType DEF HealthyInv, NoWaiterAfterDownload, IInv, VllmTypeOK
  <2>3. ~InTurn(r)
    BY <2>1 DEF InTurn
  <2>. QED
    BY <1>a, <1>b, <2>2, <2>3
<1>11. CASE DoneUsing(r)
  <2>. DEFINE labels == [pc EXCEPT ![r] = NextLabel(r)]
  <2>1. /\ UNCHANGED <<waiter, downloaded, deployments, waitFor>> /\ pc[r] = "bench"
        /\ SignalNext(labels)
        /\ \A q \in Requests : q # r => UNCHANGED <<env[q], results[q]>>
    BY <1>11 DEF DoneUsing, Record, IInv, VllmTypeOK
  <2>2. NextLabel(r) \in {"get", "done"}
    BY <2>1, NextLabelType
  <2>3. labels \in [Requests -> Labels] /\ labels[r] = NextLabel(r)
        /\ \A q \in Requests : q # r => labels[q] = pc[q]
    BY <2>2 DEF IInv, VllmTypeOK, Labels
  <2>. HIDE DEF labels
  <2>4. /\ pc'[r] = NextLabel(r)
        /\ \A q \in Requests : \/ q = r
                               \/ pc'[q] = pc[q]
                               \/ pc[q] = "waitModel" /\ pc'[q] \in {"woken", "lost"}
                               \/ pc[q] = "queued" /\ pc'[q] = "get"
        /\ \A q \in Requests : pc'[q] = labels[q] \/ pc'[q] = "get"
    BY <2>1, <2>3, WakeLabels, SignalQueue
  <2>5. InTurn(r)'
    BY <2>2, <2>4 DEF InTurn
  <2>6. ASSUME NEW q \in Requests, q # r, InTurn(q)
        PROVE  InTurn(q)'
    <3>1. CASE pc'[q] = "get"
      BY <3>1 DEF InTurn
    <3>2. CASE pc'[q] = pc[q]
      BY <2>1, <2>6, <3>2, StaysInTurn
    <3>. QED
      BY <2>3, <2>4, <2>6, <3>1, <3>2
  <2>. QED
    BY <1>a, <1>b, <1>c, <2>1, <2>5, <2>6
<1>. QED
  BY <1>1, <1>2, <1>3, <1>4, <1>5, <1>6, <1>7, <1>8, <1>9, <1>10, <1>11 DEF Task

\* So does every step.
LEMMA HealthyNext ==
  ASSUME IInv, HealthyInv, [VllmNext]_vllmVars
  PROVE  HealthyInv'
<1>1. CASE Cleanup
  BY <1>1 DEF Cleanup, HealthyInv, NoWaiterAfterDownload, Healthy, conflicts
<1>2. CASE UNCHANGED vllmVars
  BY <1>2 DEF vllmVars, manager, conflicts, cluster, tasks, HealthyInv,
              NoWaiterAfterDownload, Healthy, DownloadsInTurn, InTurn, Model, Definition
<1>. QED
  BY <1>1, <1>2, HealthyTask DEF VllmNext, Terminated

\* At first there is nothing to wait for.
LEMMA HealthyInit == VllmInit => HealthyInv
BY DEF VllmInit, HealthyInv, NoWaiterAfterDownload, DownloadsInTurn, InTurn

\* While nothing fails, no two deployments of a model are created before one
\* of them has downloaded it, and no task waits for an event nobody will set.
THEOREM FirstDownload == VllmSpec => []FirstDownloadAloneIfHealthy
<1>1. IInv /\ HealthyInv => FirstDownloadAloneIfHealthy
  <2>. SUFFICES ASSUME IInv, HealthyInv, Healthy
                PROVE  FirstDownloadAlone /\ \A r \in Requests : pc[r] # "lost"
    BY DEF FirstDownloadAloneIfHealthy
  <2>1. \A r \in Requests : InTurn(r)
    BY DEF HealthyInv, DownloadsInTurn
  <2>2. \A r \in Requests : pc[r] # "lost"
    BY <2>1 DEF InTurn
  <2>3. ASSUME NEW m \in Models, m \notin downloaded
        PROVE  Cardinality(Downloading(m)) <= 1
    <3>1. \A r \in Downloading(m) : /\ r \in Requests /\ env[r] = waiter[m]
                                    /\ env[r] # None
      BY <2>1, <2>3 DEF Downloading, InTurn, IInv, Slots, Held, Holding
    <3>2. \A r, q \in Downloading(m) : r = q
      BY <3>1 DEF IInv, Slots, NotShared
    <3>3. Downloading(m) = {} \/ \E r : Downloading(m) = {r}
      BY <3>2
    <3>. QED
      BY <3>3, FS_EmptySet, FS_Singleton
  <2>. QED
    BY <2>2, <2>3 DEF FirstDownloadAlone
<1>2. IInv /\ HealthyInv /\ [VllmNext]_vllmVars => HealthyInv'
  BY HealthyNext
<1>. QED
  BY InductiveInvariant, HealthyInit, <1>1, <1>2, PTL DEF VllmSpec

-----------------------------------------------------------------------------
(* Sums.                                                                    *)

\* Induction over the naturals, for the set of those that a lemma is about.
LEMMA NaturalsByInduction ==
  ASSUME NEW S \in SUBSET Nat, 0 \in S, \A n \in S : n + 1 \in S
  PROVE  S = Nat
<1>. DEFINE Smaller == {pair \in Nat \X Nat : pair[1] < pair[2]}
            Rest == Nat \ S
<1>1. IsWellFoundedOn(Smaller, Nat)
  BY NatLessThanWellFounded DEF OpToRel
<1>2. SUFFICES ASSUME Rest # {} PROVE FALSE
  OBVIOUS
<1>3. PICK i \in Rest : \A j \in Rest : <<j, i>> \notin Smaller
  <2>1. Rest \subseteq Nat
    OBVIOUS
  <2>. HIDE DEF Smaller, Rest
  <2>. QED
    BY <1>1, <1>2, <2>1, WFMin
<1>4. i \in Nat /\ i # 0
  BY <1>3
<1>5. i - 1 \in Nat /\ <<i - 1, i>> \in Smaller
  BY <1>4
<1>6. i - 1 \in S
  BY <1>3, <1>5
<1>7. (i - 1) + 1 \in S
  BY <1>6
<1>8. (i - 1) + 1 = i
  BY <1>4
<1>. QED
  BY <1>3, <1>7, <1>8

\* A sum has one more summand after every element.
Sums(seq, sum) == sum = [k \in Nat |-> IF k = 0 THEN 0 ELSE sum[k - 1] + seq[k]]

LEMMA SumsExist ==
  ASSUME NEW seq
  PROVE  \E sum : Sums(seq, sum)
<1>. DEFINE UpTo(n, f) == /\ f[0] = 0
                          /\ \A k \in 1 .. n : f[k] = f[k - 1] + seq[k]
            S == {n \in Nat : \E f : UpTo(n, f)}
<1>1. 0 \in S
  <2>1. UpTo(0, [k \in Nat |-> 0])
    OBVIOUS
  <2>. QED
    BY <2>1
<1>2. ASSUME NEW n \in S PROVE n + 1 \in S
  <2>1. PICK f : UpTo(n, f)
    OBVIOUS
  <2>. DEFINE g == [k \in Nat |-> IF k = n + 1 THEN f[n] + seq[n + 1] ELSE f[k]]
  <2>2. \A k \in Nat : g[k] = IF k = n + 1 THEN f[n] + seq[n + 1] ELSE f[k]
    OBVIOUS
  <2>. HIDE DEF g
  <2>3. n \in Nat
    OBVIOUS
  <2>4. g[0] = 0
    BY <2>1, <2>2, <2>3
  <2>5. ASSUME NEW k \in 1 .. n + 1 PROVE g[k] = g[k - 1] + seq[k]
    <3>1. CASE k = n + 1
      <4>1. g[k] = f[n] + seq[n + 1] /\ g[k - 1] = f[n]
        BY <2>2, <2>3, <3>1
      <4>. QED
        BY <4>1, <3>1
    <3>2. CASE k # n + 1
      <4>1. k \in 1 .. n
        BY <2>3, <3>2
      <4>2. g[k] = f[k] /\ g[k - 1] = f[k - 1]
        BY <2>2, <2>3, <4>1
      <4>. QED
        BY <2>1, <4>1, <4>2
    <3>. QED
      BY <3>1, <3>2
  <2>6. UpTo(n + 1, g)
    BY <2>4, <2>5
  <2>. QED
    BY <2>3, <2>6
<1>3. S = Nat
  <2>1. S \in SUBSET Nat
    OBVIOUS
  <2>. HIDE DEF S
  <2>. QED
    BY <1>1, <1>2, <2>1, NaturalsByInduction
<1>. DEFINE Some(n) == CHOOSE f : UpTo(n, f)
            sum == [n \in Nat |-> Some(n)[n]]
<1>4. \A n \in Nat : UpTo(n, Some(n))
  BY <1>3
\* What two of them say of a number that both reach is the same.
<1>5. ASSUME NEW n \in Nat PROVE Some(n)[n] = Some(n + 1)[n]
  <2>. DEFINE R == {k \in Nat : k <= n => Some(n)[k] = Some(n + 1)[k]}
  <2>1. UpTo(n, Some(n)) /\ UpTo(n + 1, Some(n + 1))
    BY <1>4
  <2>. HIDE DEF Some
  <2>2. 0 \in R
    BY <2>1
  <2>3. ASSUME NEW k \in R PROVE k + 1 \in R
    <3>1. CASE k + 1 <= n
      <4>1. k \in Nat /\ k <= n /\ k + 1 \in 1 .. n /\ k + 1 \in 1 .. n + 1 /\ (k + 1) - 1 = k
        BY <3>1
      <4>2. Some(n)[k] = Some(n + 1)[k]
        BY <4>1
      <4>3. Some(n)[k + 1] = Some(n)[k] + seq[k + 1]
        BY <2>1, <4>1
      <4>4. Some(n + 1)[k + 1] = Some(n + 1)[k] + seq[k + 1]
        BY <2>1, <4>1
      <4>. QED
        BY <4>1, <4>2, <4>3, <4>4
    <3>2. CASE ~(k + 1 <= n)
      BY <3>2
    <3>. QED
      BY <3>1, <3>2
  <2>4. R = Nat
    <3>1. R \in SUBSET Nat
      OBVIOUS
    <3>. HIDE DEF R
    <3>. QED
      BY <2>2, <2>3, <3>1, NaturalsByInduction
  <2>. QED
    BY <2>4
<1>. HIDE DEF Some
<1>6. \A n \in Nat : sum[n] = Some(n)[n]
  OBVIOUS
<1>7. ASSUME NEW k \in Nat
      PROVE  sum[k] = IF k = 0 THEN 0 ELSE sum[k - 1] + seq[k]
  <2>1. CASE k = 0
    BY <2>1, <1>4, <1>6
  <2>2. CASE k # 0
    <3>1. k - 1 \in Nat /\ (k - 1) + 1 = k /\ k \in 1 .. k
      BY <2>2
    <3>2. Some(k)[k] = Some(k)[k - 1] + seq[k]
      BY <1>4, <3>1
    <3>3. Some(k - 1)[k - 1] = Some(k)[k - 1]
      BY <1>5, <3>1
    <3>. QED
      BY <1>6, <3>1, <3>2, <3>3, <2>2
  <2>. QED
    BY <2>1, <2>2
<1>8. Sums(seq, sum)
  <2>1. sum = [n \in Nat |-> sum[n]]
    OBVIOUS
  <2>. HIDE DEF sum
  <2>2. [n \in Nat |-> sum[n]] = [k \in Nat |-> IF k = 0 THEN 0 ELSE sum[k - 1] + seq[k]]
    BY <1>7
  <2>. QED
    BY <2>1, <2>2 DEF Sums
<1>. QED
  BY <1>8

LEMMA SumToStep ==
  ASSUME NEW seq
  PROVE  /\ SumTo(seq, 0) = 0
         /\ \A n \in Nat : SumTo(seq, n + 1) = SumTo(seq, n) + seq[n + 1]
<1>. DEFINE sum == CHOOSE sum : Sums(seq, sum)
<1>1. Sums(seq, sum)
  BY SumsExist
<1>2. \A n : SumTo(seq, n) = sum[n]
  BY DEF SumTo, Sums
<1>. HIDE DEF sum
<1>3. sum = [k \in Nat |-> IF k = 0 THEN 0 ELSE sum[k - 1] + seq[k]]
  BY <1>1 DEF Sums
<1>4. \A k \in Nat : sum[k] = IF k = 0 THEN 0 ELSE sum[k - 1] + seq[k]
  BY <1>3
<1>5. ASSUME NEW n \in Nat PROVE sum[n + 1] = sum[n] + seq[n + 1]
  <2>1. n + 1 \in Nat /\ n + 1 # 0 /\ (n + 1) - 1 = n
    OBVIOUS
  <2>. QED
    BY <1>4, <2>1
<1>. QED
  BY <1>2, <1>4, <1>5

-----------------------------------------------------------------------------
(* When a training stops.                                                   *)

Durations == [1 .. MaxSteps -> Nat]

LEMMA LeastOfNaturals ==
  ASSUME NEW I \in SUBSET Nat, I # {}
  PROVE  \E i \in I : \A j \in I : i <= j
<1>. DEFINE Smaller == {pair \in Nat \X Nat : pair[1] < pair[2]}
<1>1. IsWellFoundedOn(Smaller, Nat)
  BY NatLessThanWellFounded DEF OpToRel
<1>2. PICK i \in I : \A j \in I : <<j, i>> \notin Smaller
  <2>. HIDE DEF Smaller
  <2>. QED
    BY <1>1, WFMin
<1>3. ASSUME NEW j \in I PROVE i <= j
  <2>1. ~(j < i)
    BY <1>2
  <2>. QED
    BY <2>1
<1>. QED
  BY <1>3

\* A clock does not run backwards.
LEMMA RunningForType ==
  ASSUME NEW clock \in Durations
  PROVE  \A s \in 0 .. MaxSteps : RunningFor(clock, s) \in Nat
<1>. USE AutoStopAssumption
<1>. DEFINE S == {s \in Nat : s <= MaxSteps => RunningFor(clock, s) \in Nat}
<1>1. 0 \in S
  BY SumToStep DEF RunningFor
<1>2. ASSUME NEW s \in S PROVE s + 1 \in S
  <2>1. s \in Nat /\ RunningFor(clock, s + 1) = RunningFor(clock, s) + clock[s + 1]
    BY SumToStep DEF RunningFor
  <2>2. s + 1 <= MaxSteps => clock[s + 1] \in Nat
    BY <2>1 DEF Durations
  <2>. QED
    BY <2>1, <2>2
<1>3. S = Nat
  <2>1. S \in SUBSET Nat
    OBVIOUS
  <2>. HIDE DEF S
  <2>. QED
    BY <1>1, <1>2, <2>1, NaturalsByInduction
<1>. QED
  BY <1>3

LEMMA RunningForMonotonic ==
  ASSUME NEW clock \in Durations, NEW t \in 0 .. MaxSteps, NEW s \in 0 .. t
  PROVE  RunningFor(clock, s) <= RunningFor(clock, t)
<1>. USE AutoStopAssumption
<1>. DEFINE S == {n \in Nat : s + n <= MaxSteps =>
                    RunningFor(clock, s) <= RunningFor(clock, s + n)}
<1>1. 0 \in S
  BY RunningForType
<1>2. ASSUME NEW n \in S PROVE n + 1 \in S
  <2>1. CASE s + n + 1 <= MaxSteps
    <3>1. n \in Nat /\ s + n \in Nat /\ s + n + 1 = s + (n + 1)
      OBVIOUS
    <3>2. RunningFor(clock, s + n + 1) = RunningFor(clock, s + n) + clock[s + n + 1]
      BY <3>1, SumToStep DEF RunningFor
    <3>3. clock[s + n + 1] \in Nat
      BY <2>1, <3>1 DEF Durations
    <3>4. RunningFor(clock, s) \in Nat /\ RunningFor(clock, s + n) \in Nat
      BY <2>1, RunningForType
    <3>5. RunningFor(clock, s) <= RunningFor(clock, s + n)
      BY <2>1
    <3>6. RunningFor(clock, s) <= RunningFor(clock, s + n + 1)
      BY <3>2, <3>3, <3>4, <3>5
    <3>. QED
      BY <3>1, <3>6
  <2>2. CASE ~(s + n + 1 <= MaxSteps)
    BY <2>2
  <2>. QED
    BY <2>1, <2>2
<1>3. S = Nat
  <2>1. S \in SUBSET Nat
    OBVIOUS
  <2>. HIDE DEF S
  <2>. QED
    BY <1>1, <1>2, <2>1, NaturalsByInduction
<1>4. t - s \in Nat /\ s + (t - s) = t
  OBVIOUS
<1>5. t - s \in S
  BY <1>3, <1>4
<1>. QED
  BY <1>4, <1>5

\* The steps that end within the warm-up are the first ones.
LEMMA EndInWarmup ==
  ASSUME NEW clock \in Durations, NEW steps \in 0 .. MaxSteps
  PROVE  \E k \in 0 .. steps :
           /\ \A s \in 0 .. steps : RunningFor(clock, s) <= WarmupTime <=> s <= k
           /\ FirstAfterWarmup(clock, steps) = k + 1
<1>. USE AutoStopAssumption
<1>. DEFINE Within == {s \in 1 .. steps : RunningFor(clock, s) <= WarmupTime}
            After == {s \in 1 .. steps : ~(RunningFor(clock, s) <= WarmupTime)}
<1>1. RunningFor(clock, 0) = 0
  BY SumToStep DEF RunningFor
<1>2. PICK k \in 0 .. steps :
        \A s \in 0 .. steps : RunningFor(clock, s) <= WarmupTime <=> s <= k
  <2>1. CASE After = {}
    BY <1>1, <2>1
  <2>2. CASE After # {}
    <3>1. PICK first \in After : \A s \in After : first <= s
      <4>1. After \in SUBSET Nat
        OBVIOUS
      <4>. HIDE DEF After
      <4>. QED
        BY <2>2, <4>1, LeastOfNaturals
    <3>2. first - 1 \in 0 .. steps
      BY <3>1
    <3>3. ASSUME NEW s \in 0 .. steps
          PROVE  RunningFor(clock, s) <= WarmupTime <=> s <= first - 1
      <4>1. CASE s <= first - 1
        BY <1>1, <3>1, <4>1
      <4>2. CASE first <= s
        <5>1. RunningFor(clock, first) <= RunningFor(clock, s)
          BY <3>1, <4>2, RunningForMonotonic
        <5>2. RunningFor(clock, first) \in Nat /\ RunningFor(clock, s) \in Nat
          BY <3>1, RunningForType
        <5>. QED
          BY <3>1, <4>2, <5>1, <5>2
      <4>. QED
        BY <4>1, <4>2
    <3>. QED
      BY <3>2, <3>3
  <2>. QED
    BY <2>1, <2>2
<1>3. Within = 1 .. k
  BY <1>2
<1>4. Cardinality(1 .. k) = k
  <2>1. 1 \in Int /\ k \in Int
    OBVIOUS
  <2>. QED
    BY <2>1, FS_Interval
<1>5. FirstAfterWarmup(clock, steps) = k + 1
  BY <1>3, <1>4 DEF FirstAfterWarmup
<1>. QED
  BY <1>2, <1>5

LEMMA CardinalityOfInterval ==
  ASSUME NEW a \in Nat, NEW b \in Nat, a <= b + 1
  PROVE  Cardinality(a .. b) = (b + 1) - a
<1>1. a \in Int /\ b \in Int
  OBVIOUS
<1>2. Cardinality(a .. b) = IF a > b THEN 0 ELSE b - a + 1
  BY <1>1, FS_Interval
<1>. QED
  BY <1>2

\* A node has gathered enough when the documentation says so, and its warm-up
\* is then the one that the documentation means.
LEMMA GatheredIsEnough ==
  ASSUME NEW clock \in Durations, NEW steps \in 0 .. MaxSteps
  PROVE  /\ HasGatheredEnoughSamples(clock, steps) <=> Enough(clock, steps)
         /\ Enough(clock, steps) =>
              /\ Cardinality(Warmup(clock, steps)) = FirstAfterWarmup(clock, steps)
              /\ FirstAfterWarmup(clock, steps) \in 0 .. steps
<1>. USE AutoStopAssumption
<1>1. PICK k \in 0 .. steps :
        /\ \A s \in 0 .. steps : RunningFor(clock, s) <= WarmupTime <=> s <= k
        /\ FirstAfterWarmup(clock, steps) = k + 1
  BY EndInWarmup
<1>2. CASE k + 1 < steps
  <2>1. Warmup(clock, steps) = 1 .. k + 1
    <3>1. ASSUME NEW s \in 1 .. steps PROVE BeginsAt(clock, s) <= WarmupTime <=> s <= k + 1
      <4>1. s - 1 \in 0 .. steps
        OBVIOUS
      <4>. QED
        BY <1>1, <4>1 DEF BeginsAt
    <3>. QED
      BY <1>2, <3>1 DEF Warmup
  <2>2. Sampled(clock, steps) = k + 2 .. steps
    BY <2>1, <1>2 DEF Sampled
  <2>3. /\ Cardinality(Warmup(clock, steps)) = k + 1
        /\ Cardinality(Sampled(clock, steps)) = steps - (k + 1)
    <3>1. /\ 1 \in Nat /\ k + 1 \in Nat /\ 1 <= (k + 1) + 1
          /\ k + 2 \in Nat /\ steps \in Nat /\ k + 2 <= steps + 1
      BY <1>2
    <3>2. /\ Cardinality(1 .. k + 1) = ((k + 1) + 1) - 1
          /\ Cardinality(k + 2 .. steps) = (steps + 1) - (k + 2)
      BY <3>1, CardinalityOfInterval
    <3>. QED
      BY <2>1, <2>2, <3>2
  <2>4. Enough(clock, steps) <=>
          /\ steps - (k + 1) >= SampleSteps
          /\ RunningFor(clock, steps) - RunningFor(clock, k + 1) >= SampleTime
    <3>1. \A f \in k + 2 .. steps : (\A s \in k + 2 .. steps : f <= s) <=> f = k + 2
      BY <1>2
    <3>2. BeginsAt(clock, k + 2) = RunningFor(clock, k + 1)
      <4>1. (k + 2) - 1 = k + 1
        OBVIOUS
      <4>. QED
        BY <4>1 DEF BeginsAt
    <3>3. k + 2 \in k + 2 .. steps
      BY <1>2
    <3>4. (\E f \in k + 2 .. steps :
             /\ \A s \in k + 2 .. steps : f <= s
             /\ RunningFor(clock, steps) - BeginsAt(clock, f) >= SampleTime)
            <=> RunningFor(clock, steps) - RunningFor(clock, k + 1) >= SampleTime
      BY <3>1, <3>2, <3>3
    <3>. QED
      BY <2>2, <2>3, <3>4 DEF Enough
  <2>5. RunningFor(clock, k + 1) > WarmupTime
    <3>1. k + 1 \in 0 .. steps /\ RunningFor(clock, k + 1) \in Nat
      BY <1>2, RunningForType
    <3>. QED
      BY <1>1, <3>1
  <2>6. RunningFor(clock, steps) \in Nat /\ RunningFor(clock, k + 1) \in Nat
    BY <1>2, RunningForType
  <2>7. HasGatheredEnoughSamples(clock, steps) <=>
          /\ steps - (k + 1) >= SampleSteps
          /\ RunningFor(clock, steps) - RunningFor(clock, k + 1) >= SampleTime
    BY <1>1, <1>2, <2>5, <2>6 DEF HasGatheredEnoughSamples
  <2>. QED
    BY <1>1, <1>2, <2>3, <2>4, <2>7
<1>3. CASE ~(k + 1 < steps)
  <2>1. ~HasGatheredEnoughSamples(clock, steps)
    BY <1>1, <1>3 DEF HasGatheredEnoughSamples
  <2>2. Sampled(clock, steps) = {}
    <3>1. ASSUME NEW s \in 1 .. steps PROVE BeginsAt(clock, s) <= WarmupTime
      <4>1. s - 1 \in 0 .. steps /\ s - 1 <= k
        BY <1>3
      <4>. QED
        BY <1>1, <4>1 DEF BeginsAt
    <3>. QED
      BY <3>1 DEF Sampled, Warmup
  <2>3. ~Enough(clock, steps)
    BY <2>2 DEF Enough
  <2>. QED
    BY <2>1, <2>3
<1>. QED
  BY <1>2, <1>3

\* The training stops when every node has enough, and not before.
LEMMA StopsWhenAllHaveEnough ==
  ASSUME NEW N, NEW cs \in [N -> Durations]
  PROVE  /\ StopsAfter(cs) \in 1 .. MaxSteps
         /\ \/ \A n \in N : Enough(cs[n], StopsAfter(cs))
            \/ StopsAfter(cs) = MaxSteps
         /\ \A s \in 1 .. StopsAfter(cs) - 1 : ~(\A n \in N : Enough(cs[n], s))
<1>. USE AutoStopAssumption
<1>. DEFINE agreed == {s \in 1 .. MaxSteps :
                         \A n \in DOMAIN cs : HasGatheredEnoughSamples(cs[n], s)}
            All(s) == \A n \in N : Enough(cs[n], s)
<1>1. \A s \in 1 .. MaxSteps : s \in agreed <=> All(s)
  <2>1. \A s \in 1 .. MaxSteps, n \in N :
          HasGatheredEnoughSamples(cs[n], s) <=> Enough(cs[n], s)
    <3>1. \A n \in N : cs[n] \in Durations
      OBVIOUS
    <3>2. \A s \in 1 .. MaxSteps : s \in 0 .. MaxSteps
      OBVIOUS
    <3>. QED
      BY <3>1, <3>2, GatheredIsEnough
  <2>2. DOMAIN cs = N
    OBVIOUS
  <2>. QED
    BY <2>1, <2>2
<1>2. CASE agreed = {}
  <2>1. StopsAfter(cs) = MaxSteps
    BY <1>2 DEF StopsAfter
  <2>. QED
    BY <1>1, <1>2, <2>1
<1>3. CASE agreed # {}
  <2>. DEFINE least == CHOOSE s \in agreed : \A t \in agreed : s <= t
  <2>1. StopsAfter(cs) = least
    BY <1>3 DEF StopsAfter
  <2>2. agreed \in SUBSET Nat
    OBVIOUS
  <2>3. agreed \subseteq 1 .. MaxSteps
    OBVIOUS
  <2>. HIDE DEF agreed
  <2>4. least \in agreed /\ \A t \in agreed : least <= t
    BY <1>3, <2>2, LeastOfNaturals
  <2>. HIDE DEF least
  <2>5. \A s \in 1 .. least - 1 : s \in 1 .. MaxSteps /\ s \notin agreed
    BY <2>3, <2>4
  <2>6. least \in 1 .. MaxSteps
    BY <2>3, <2>4
  <2>. QED
    BY <1>1, <2>1, <2>4, <2>5, <2>6
<1>. QED
  BY <1>2, <1>3

LEMMA WarmupStepsOfEnough ==
  ASSUME NEW clock \in Durations, NEW steps \in 1 .. MaxSteps
  PROVE  /\ WarmupSteps(clock, steps) \in Nat
         /\ steps - WarmupSteps(clock, steps) \in Nat
         /\ Enough(clock, steps) =>
              WarmupSteps(clock, steps) = Cardinality(Warmup(clock, steps))
<1>. USE AutoStopAssumption
<1>. DEFINE enough == {s \in 1 .. steps : HasGatheredEnoughSamples(clock, s)}
<1>1. CASE enough = {}
  <2>1. WarmupSteps(clock, steps) = 0
    BY <1>1 DEF WarmupSteps
  <2>2. ~HasGatheredEnoughSamples(clock, steps)
    BY <1>1
  <2>3. ~Enough(clock, steps)
    BY <2>2, GatheredIsEnough
  <2>. QED
    BY <2>1, <2>3
<1>2. CASE enough # {}
  <2>1. WarmupSteps(clock, steps) = FirstAfterWarmup(clock, steps)
    BY <1>2 DEF WarmupSteps
  <2>2. PICK s \in 1 .. steps : HasGatheredEnoughSamples(clock, s)
    BY <1>2
  <2>3. PICK k \in 0 .. steps :
          /\ \A t \in 0 .. steps : RunningFor(clock, t) <= WarmupTime <=> t <= k
          /\ FirstAfterWarmup(clock, steps) = k + 1
    BY EndInWarmup
  <2>4. RunningFor(clock, s) > WarmupTime
    <3>1. RunningFor(clock, s) \in Nat
      BY RunningForType
    <3>. QED
      BY <2>2, <3>1 DEF HasGatheredEnoughSamples
  <2>5. RunningFor(clock, s) \in Nat /\ s \in 0 .. steps
    BY RunningForType
  <2>6. k < s
    BY <2>3, <2>4, <2>5
  <2>. QED
    BY <2>1, <2>3, <2>6, GatheredIsEnough
<1>. QED
  BY <1>1, <1>2

-----------------------------------------------------------------------------
(* The tokens of a training.                                                *)

LEMMA NextRemainder ==
  ASSUME NEW n \in Nat, NEW m \in Nat \ {0}
  PROVE  /\ n % m \in 0 .. m - 1 /\ n \div m \in Nat
         /\ (n % m) + 1 < m => (n + 1) % m = (n % m) + 1 /\ (n + 1) \div m = n \div m
         /\ (n % m) + 1 = m => (n + 1) % m = 0 /\ (n + 1) \div m = n \div m + 1
OBVIOUS

LEMMA TokensOfStep ==
  ASSUME NEW tokens \in Seq(Nat)
  PROVE  /\ TokensOf(tokens, 0) = 0
         /\ \A n \in 0 .. Len(tokens) - 1 :
              TokensOf(tokens, n + 1) = TokensOf(tokens, n) + Shorter(tokens[n + 1])
         /\ \A n \in 0 .. Len(tokens) : TokensOf(tokens, n) \in Nat
<1>. DEFINE short == [i \in DOMAIN tokens |-> Shorter(tokens[i])]
            S == {n \in Nat : n <= Len(tokens) => SumTo(short, n) \in Nat}
<1>1. \A n : TokensOf(tokens, n) = SumTo(short, n)
  BY DEF TokensOf
<1>2. /\ SumTo(short, 0) = 0
      /\ \A n \in Nat : SumTo(short, n + 1) = SumTo(short, n) + short[n + 1]
  BY SumToStep
<1>3. \A i \in 1 .. Len(tokens) : short[i] = Shorter(tokens[i]) /\ short[i] \in Nat
  BY AutoStopAssumption DEF Shorter
<1>. HIDE DEF short
<1>4. 0 \in S
  BY <1>2
<1>5. ASSUME NEW n \in S PROVE n + 1 \in S
  <2>1. n \in Nat /\ SumTo(short, n + 1) = SumTo(short, n) + short[n + 1]
    BY <1>2
  <2>2. n + 1 <= Len(tokens) => short[n + 1] \in Nat
    BY <1>3, <2>1
  <2>. QED
    BY <2>1, <2>2
<1>6. S = Nat
  <2>1. S \in SUBSET Nat
    OBVIOUS
  <2>. HIDE DEF S
  <2>. QED
    BY <1>4, <1>5, <2>1, NaturalsByInduction
<1>7. \A n \in 0 .. Len(tokens) : SumTo(short, n) \in Nat
  BY <1>6
<1>8. ASSUME NEW n \in 0 .. Len(tokens) - 1
      PROVE  SumTo(short, n + 1) = SumTo(short, n) + Shorter(tokens[n + 1])
  <2>1. n \in Nat /\ n + 1 \in 1 .. Len(tokens)
    OBVIOUS
  <2>. QED
    BY <1>2, <1>3, <2>1
<1>. QED
  BY <1>1, <1>2, <1>7, <1>8

\* One more sample is the next one of the data set, or its first one again.
LEMMA AggregateStep ==
  ASSUME NEW tokens \in Seq(Nat), tokens # <<>>, NEW n \in Nat
  PROVE  /\ AggregateTokensOfSamples(tokens, n) \in Nat
         /\ AggregateTokensOfSamples(tokens, n + 1) =
              AggregateTokensOfSamples(tokens, n) + Shorter(tokens[(n % Len(tokens)) + 1])
<1>. DEFINE L == Len(tokens)
            T(k) == TokensOf(tokens, k)
            q == n \div L
            r == n % L
<1>1. L \in Nat \ {0}
  OBVIOUS
<1>2. /\ T(0) = 0
      /\ \A k \in 0 .. L - 1 : T(k + 1) = T(k) + Shorter(tokens[k + 1])
      /\ \A k \in 0 .. L : T(k) \in Nat
  BY TokensOfStep
<1>3. /\ AggregateTokensOfSamples(tokens, n) = T(L) * q + T(r)
      /\ AggregateTokensOfSamples(tokens, n + 1) = T(L) * ((n + 1) \div L) + T((n + 1) % L)
  BY DEF AggregateTokensOfSamples
<1>4. /\ r \in 0 .. L - 1 /\ q \in Nat
      /\ r + 1 < L => (n + 1) % L = r + 1 /\ (n + 1) \div L = q
      /\ r + 1 = L => (n + 1) % L = 0 /\ (n + 1) \div L = q + 1
  <2>. HIDE DEF L
  <2>. QED
    BY <1>1, NextRemainder
<1>. HIDE DEF L, T, q, r
<1>5. T(L) \in Nat /\ T(r) \in Nat
  BY <1>1, <1>2, <1>4
<1>6. T(L) * q \in Nat
  BY <1>4, <1>5
<1>7. T(L) * (q + 1) = T(L) * q + T(L)
  BY <1>4, <1>5
<1>8. T(r + 1) = T(r) + Shorter(tokens[r + 1])
  BY <1>2, <1>4
<1>. DEFINE Goal == AggregateTokensOfSamples(tokens, n + 1) =
                      AggregateTokensOfSamples(tokens, n) + Shorter(tokens[r + 1])
<1>9. ASSUME r + 1 < L PROVE Goal
  <2>1. AggregateTokensOfSamples(tokens, n + 1) = T(L) * q + T(r + 1)
    BY <1>3, <1>4, <1>9
  <2>2. Shorter(tokens[r + 1]) \in Int
    <3>1. r + 1 \in 1 .. L
      BY <1>1, <1>4
    <3>2. tokens[r + 1] \in Nat
      BY <3>1 DEF L
    <3>. QED
      BY <3>2, AutoStopAssumption DEF Shorter
  <2>. QED
    BY <2>1, <2>2, <1>3, <1>5, <1>6, <1>8
<1>10. ASSUME r + 1 = L PROVE Goal
  <2>1. AggregateTokensOfSamples(tokens, n + 1) = T(L) * (q + 1) + T(0)
    BY <1>3, <1>4, <1>10
  <2>2. Shorter(tokens[r + 1]) \in Int
    <3>1. r + 1 \in 1 .. L
      BY <1>1, <1>4
    <3>2. tokens[r + 1] \in Nat
      BY <3>1 DEF L
    <3>. QED
      BY <3>2, AutoStopAssumption DEF Shorter
  <2>3. T(L) = T(r) + Shorter(tokens[r + 1])
    BY <1>8, <1>10
  <2>4. AggregateTokensOfSamples(tokens, n + 1) = T(L) * q + T(L)
    BY <2>1, <1>2, <1>5, <1>6, <1>7
  <2>5. AggregateTokensOfSamples(tokens, n + 1) =
          T(L) * q + (T(r) + Shorter(tokens[r + 1]))
    BY <2>3, <2>4
  <2>. QED
    BY <2>2, <2>5, <1>3, <1>5, <1>6
<1>11. Goal
  <2>1. r + 1 < L \/ r + 1 = L
    BY <1>1, <1>4
  <2>. QED
    BY <2>1, <1>9, <1>10
<1>12. AggregateTokensOfSamples(tokens, n) \in Nat
  BY <1>3, <1>5, <1>6
<1>. QED
  BY <1>11, <1>12 DEF r, L

\* The tokens of a training are those of the samples after its warm-up, the data
\* set being repeated as often as needed.
LEMMA TokensAreCounted ==
  ASSUME NEW tokens \in Seq(Nat), tokens # <<>>,
         NEW skip \in Nat, NEW entries \in Nat, skip <= entries
  PROVE  /\ TokenizeText(tokens, entries, skip) = TokensBetween(tokens, skip, entries)
         /\ TokenizeText(tokens, entries, skip) \in Int
<1>. DEFINE L == Len(tokens)
            A(n) == AggregateTokensOfSamples(tokens, n)
            samples == [i \in 1 .. (entries - skip) |->
                          Shorter(tokens[((skip + i - 1) % L) + 1])]
            S == {n \in Nat : n <= entries - skip =>
                              /\ SumTo(samples, n) \in Int
                              /\ A(skip + n) = A(skip) + SumTo(samples, n)}
<1>1. \A n \in Nat : /\ A(n) \in Nat
                     /\ A(n + 1) = A(n) + Shorter(tokens[(n % L) + 1])
  BY AggregateStep
<1>2. /\ SumTo(samples, 0) = 0
      /\ \A n \in Nat : SumTo(samples, n + 1) = SumTo(samples, n) + samples[n + 1]
  BY SumToStep
<1>3. \A n \in 0 .. (entries - skip) - 1 :
        samples[n + 1] = Shorter(tokens[((skip + n) % L) + 1])
  <2>1. ASSUME NEW n \in 0 .. (entries - skip) - 1
        PROVE  samples[n + 1] = Shorter(tokens[((skip + n) % L) + 1])
    <3>1. n + 1 \in 1 .. (entries - skip) /\ skip + (n + 1) - 1 = skip + n
      OBVIOUS
    <3>. QED
      BY <3>1
  <2>. QED
    BY <2>1
<1>4. \A n \in Nat : Shorter(tokens[(n % L) + 1]) \in Int
  <2>1. ASSUME NEW n \in Nat PROVE Shorter(tokens[(n % L) + 1]) \in Int
    <3>1. L \in Nat \ {0}
      OBVIOUS
    <3>2. n % L \in 0 .. L - 1
      <4>. HIDE DEF L
      <4>. QED
        BY <3>1, NextRemainder
    <3>3. (n % L) + 1 \in 1 .. L
      BY <3>1, <3>2
    <3>4. tokens[(n % L) + 1] \in Nat
      BY <3>3
    <3>. QED
      BY <3>4, AutoStopAssumption DEF Shorter
  <2>. QED
    BY <2>1
<1>5. TokensBetween(tokens, skip, entries) = SumTo(samples, entries - skip)
  BY DEF TokensBetween
<1>. HIDE DEF samples, A, L
<1>6. 0 \in S
  <2>1. skip + 0 = skip
    OBVIOUS
  <2>2. A(skip) \in Nat
    BY <1>1
  <2>3. A(skip + 0) = A(skip)
    BY <2>1
  <2>4. SumTo(samples, 0) = 0 /\ SumTo(samples, 0) \in Int
    BY <1>2
  <2>5. A(skip) + 0 = A(skip)
    BY <2>2
  <2>6. A(skip + 0) = A(skip) + SumTo(samples, 0)
    BY <2>3, <2>4, <2>5
  <2>. QED
    BY <2>4, <2>6
<1>7. ASSUME NEW n \in S PROVE n + 1 \in S
  <2>1. CASE n + 1 <= entries - skip
    <3>1. n \in Nat /\ n \in 0 .. (entries - skip) - 1 /\ skip + n \in Nat
          /\ skip + (n + 1) = (skip + n) + 1
      BY <2>1
    <3>2. SumTo(samples, n) \in Int /\ A(skip + n) = A(skip) + SumTo(samples, n)
      BY <3>1
    <3>3. A((skip + n) + 1) = A(skip + n) + samples[n + 1]
      BY <1>1, <1>3, <3>1
    <3>4. SumTo(samples, n + 1) = SumTo(samples, n) + samples[n + 1]
      BY <1>2, <3>1
    <3>5. A(skip) \in Nat /\ samples[n + 1] \in Int /\ A(skip + n) \in Nat
      BY <1>1, <1>3, <1>4, <3>1
    <3>. QED
      BY <3>1, <3>2, <3>3, <3>4, <3>5
  <2>2. CASE ~(n + 1 <= entries - skip)
    BY <2>2
  <2>. QED
    BY <2>1, <2>2
<1>8. S = Nat
  <2>1. S \in SUBSET Nat
    OBVIOUS
  <2>. HIDE DEF S
  <2>. QED
    BY <1>6, <1>7, <2>1, NaturalsByInduction
<1>9. entries - skip \in Nat /\ skip + (entries - skip) = entries
  OBVIOUS
<1>10. A(entries) = A(skip) + SumTo(samples, entries - skip)
       /\ SumTo(samples, entries - skip) \in Int
  BY <1>8, <1>9
<1>11. TokenizeText(tokens, entries, skip) = A(entries) - A(skip)
  BY DEF TokenizeText, A
<1>12. A(skip) \in Nat
  BY <1>1
<1>. QED
  BY <1>5, <1>10, <1>11, <1>12

-----------------------------------------------------------------------------
(* The invariant of the sfttrainer actuator.                                *)

TrainerStages ==
  {"new", "refused", "prepare", "dead", "file", "place", "port", "run", "answered"}
Tallies == [oom : Nat, other : Nat, none : Nat]

TrainerTypesOK ==
  /\ TokenTypeOK
  /\ typed \in BOOLEAN /\ point \in Points
  /\ crashes \in 0..MaxCrashes
  /\ stage \in [Trainings -> TrainerStages]
  /\ machines \in [Trainings -> Seq(Machines)]
  /\ task \in [Trainings -> Seq(TaskStates)]
  /\ metrics \in [Trainings -> Seq(Metrics)]
  /\ tally \in [Trainings -> Tallies]
  /\ answer \in [Trainings -> Answers \cup {Nothing}]
  /\ causes \in [Trainings -> SUBSET {"oom", "other"}]
  /\ clocks = [r \in Trainings |-> clocks[r]]

\* A task that counts has the tokens of some content, and those of the file
\* that it writes unless the data set was replaced meanwhile.
CounterOK(c) ==
  LET k == counter[c]
      tokenized == {"open", "write", "verify"}
  IN  /\ k.stage \in tokenized \cup {"load", "tokenize"} => k.file \in Versions
      /\ k.stage \in {"load", "write", "verify"} => files[k.file] # Absent
      /\ k.stage \in tokenized \cup {"counted"} => k.tokens # <<>>
      /\ k.stage \in {"look", "load", "tokenize"} => k.attempts = 0
      /\ k.stage = "open" => k.attempts < WriteAttempts
      /\ ~replaced =>
           /\ k.stage \in {"load", "tokenize"} => dataset = k.file
           /\ k.stage \in tokenized => k.tokens = Tokens[k.file]

FilesOK == ~replaced => \A v \in Versions : files[v] \in {Absent, Torn, Tokens[v]}

TokensOK == FilesOK /\ \A c \in Counters : CounterOK(c)

Indivisible(p) == p.ep > 0 /\ p.experts % p.ep # 0

Runs(r) == tally[r].oom + tally[r].other + tally[r].none

\* What a request holds on the cluster.
HoldsOK(r) ==
  LET ranks == Ranks(point[r]) IN
  /\ stage[r] \notin {"port", "run"} => machines[r] = <<>> /\ task[r] = <<>>
  /\ stage[r] = "port" => task[r] = <<>> /\ MultiNode(point[r])
  /\ stage[r] \in {"port", "run"} =>
       /\ DOMAIN machines[r] = ranks /\ DOMAIN metrics[r] = ranks
       /\ ranks \subseteq MachineRanks
  /\ stage[r] = "run" => DOMAIN task[r] = ranks
  /\ answer[r] = Nothing <=> stage[r] # "answered"

\* What was checked of it.
AskedOK(r) ==
  /\ stage[r] \in {"file", "place", "port", "run"} => ~Invalid(point[r])
  /\ stage[r] \in {"place", "port", "run"} /\ point[r].method = "full-error" => ~MultiNode(point[r])

\* Why its tasks have ended.
CausesOK(r) ==
  LET p == point[r]
      states == {task[r][i] : i \in DOMAIN task[r]}
  IN  /\ stage[r] \in {"new", "refused", "prepare", "dead", "file"} => causes[r] = {} /\ Runs(r) = 0
      /\ "oom" \in states => "oom" \in causes[r]
      /\ "failed" \in states => "other" \in causes[r]
      /\ "indivisible" \in states => Indivisible(p)
      /\ states \cap {"train", "count", "ok", "oom"} # {} => ~Indivisible(p)
      /\ stage[r] # "answered" /\ p.method = "train" =>
           /\ causes[r] # {} => states \cap Errors # {}
      /\ stage[r] # "answered" /\ p.method = "full-error" =>
           /\ Runs(r) < SampleRuns
           /\ "oom" \in causes[r] <=> tally[r].oom > 0 \/ "oom" \in states

\* The ranks of a training whose metrics say something train together.
TrainsTogether(p) == p.method = "train" /\ (MultiNode(p) => Backend(p) # "none")

MetricsRight(r, m) == point[r].auto => StoppedWhenEnough(clocks[r], m)

TokensRight(r, m) ==
  LET batch == point[r].batch * AtLeastOne(point[r].accumulation)
  IN  \E v \in Versions :
        m.tokens = TokensBetween(Tokens[v], batch * m.warmup, batch * (m.warmup + m.steps))

\* What they have measured.
MeasuredOK(r) ==
  TrainsTogether(point[r]) =>
    /\ DOMAIN clocks[r] \subseteq Ranks(point[r])
    /\ stage[r] = "run" /\ task[r][1] \in {"count", "ok"} => MetricsRight(r, metrics[r][1])
    /\ stage[r] = "run" /\ task[r][1] = "ok" => TokensRight(r, metrics[r][1])

\* How it was answered.
AnswerOK(r) ==
  stage[r] = "answered" =>
    LET p == point[r]
        status == answer[r].status
    IN  /\ status = "invalid" => ~Consistent(p) \/ "oom" \in causes[r]
        /\ status = "failed" => Consistent([p EXCEPT !.ep = 0]) /\ "other" \in causes[r]
        /\ status = "valid" /\ p.method = "train" => Consistent(p) /\ causes[r] = {}
        /\ status = "valid" /\ p.method = "full-error" =>
             Runs(r) = SampleRuns /\ (tally[r].oom > 0 <=> "oom" \in causes[r])
        /\ status = "valid" /\ TrainsTogether(p) =>
             MetricsRight(r, answer[r].result) /\ TokensRight(r, answer[r].result)

RequestOK(r) ==
  HoldsOK(r) /\ AskedOK(r) /\ CausesOK(r) /\ MeasuredOK(r) /\ AnswerOK(r)

TrainerInv == TrainerTypesOK /\ TokensOK /\ \A r \in Trainings : RequestOK(r)

-----------------------------------------------------------------------------
(* What is asked for.                                                       *)

LEMMA MultipleIsRemainder ==
  ASSUME NEW n \in Nat, NEW of \in Nat \ {0}
  PROVE  Multiple(n, of) <=> n % of = 0
<1>1. ASSUME NEW k \in 0..n, k * of = n PROVE n % of = 0
  <2>. DEFINE q == n \div of
              r == n % of
  <2>1. q \in Nat /\ r \in 0 .. of - 1 /\ n = q * of + r
    OBVIOUS
  <2>. HIDE DEF q, r
  <2>2. (k - q) * of = r
    BY <1>1, <2>1
  <2>3. k - q > 0 => (k - q) * of >= of
    BY <2>1
  <2>4. k - q < 0 => (k - q) * of < 0
    BY <2>1
  <2>5. k - q = 0
    BY <2>1, <2>2, <2>3, <2>4
  <2>6. r = 0
    BY <2>2, <2>5
  <2>. QED
    BY <2>6 DEF r
<1>2. ASSUME n % of = 0 PROVE Multiple(n, of)
  <2>1. n = (n \div of) * of /\ n \div of \in 0..n
    BY <1>2
  <2>. QED
    BY <2>1 DEF Multiple
<1>. QED
  BY <1>1, <1>2 DEF Multiple

LEMMA PointTypes ==
  ASSUME TrainerTypesOK, NEW r \in Trainings
  PROVE  point[r] \in PointType
BY PointsAssumption DEF TrainerTypesOK

LEMMA InvalidIsInconsistent ==
  ASSUME NEW p \in PointType
  PROVE  /\ Invalid(p) => ~Consistent(p)
         /\ Indivisible(p) => ~Consistent(p)
         /\ ~Invalid(p) => Consistent([p EXCEPT !.ep = 0])
         /\ ~Invalid(p) /\ ~Indivisible(p) => Consistent(p)
<1>. DEFINE o == OneOrMore(p)
<1>1. /\ p.batch \in Nat /\ p.nodes \in Nat \ {0} /\ p.ep \in Nat /\ p.gpus \in Nat
      /\ p.experts \in Nat /\ p.version \in {"old", "new"} /\ o \in Nat \ {0}
  BY DEF PointType, OneOrMore, AtLeastOne
<1>2. /\ Multiple(p.batch, o) <=> p.batch % o = 0
      /\ Multiple(o, p.nodes) <=> o % p.nodes = 0
  <2>. HIDE DEF o
  <2>. QED
    BY <1>1, MultipleIsRemainder
<1>3. p.ep > 0 => /\ Multiple(p.gpus, p.ep) <=> p.gpus % p.ep = 0
                  /\ Multiple(p.experts, p.ep) <=> p.experts % p.ep = 0
  <2>1. p.ep > 0 => p.ep \in Nat \ {0}
    BY <1>1
  <2>. QED
    BY <1>1, <2>1, MultipleIsRemainder
<1>. DEFINE z == [p EXCEPT !.ep = 0]
<1>4. /\ z.batch = p.batch /\ z.nodes = p.nodes /\ z.multi = p.multi /\ z.gpus = p.gpus
      /\ z.ep = 0
  BY DEF PointType
<1>5. OneOrMore(z) = o
  BY <1>4 DEF OneOrMore
<1>. HIDE DEF o, z
<1>6. Consistent(p) <=> /\ p.batch % o = 0 /\ o % p.nodes = 0
                        /\ p.nodes > 1 => p.multi # "no"
                        /\ p.ep > 0 => /\ p.gpus % p.ep = 0 /\ p.experts % p.ep = 0
                                       /\ p.version = "new"
  BY <1>2, <1>3 DEF Consistent, o
<1>7. Consistent(z) <=> /\ p.batch % o = 0 /\ o % p.nodes = 0
                        /\ p.nodes > 1 => p.multi # "no"
  <2>1. Consistent(z) <=> /\ Multiple(p.batch, o) /\ Multiple(o, p.nodes)
                          /\ p.nodes > 1 => p.multi # "no"
    BY <1>4, <1>5 DEF Consistent
  <2>. QED
    BY <2>1, <1>2
<1>8. Invalid(p) <=> \/ p.batch % o # 0
                     \/ p.nodes > 1 /\ p.multi = "no"
                     \/ o % p.nodes # 0
                     \/ p.ep > 0 /\ (p.gpus % p.ep # 0 \/ p.version = "old")
  BY DEF Invalid, o
<1>9. Indivisible(p) <=> p.ep > 0 /\ p.experts % p.ep # 0
  BY DEF Indivisible
<1>10. p.version = "new" <=> p.version # "old"
  BY <1>1
<1>. QED
  BY <1>6, <1>7, <1>8, <1>9, <1>10 DEF z

\* A step takes a batch, whatever it is divided into.
LEMMA StepsTakeBatches ==
  ASSUME NEW p \in PointType, ~Invalid(p)
  PROVE  /\ EntriesInOneStep(p) = p.batch * AtLeastOne(p.accumulation)
         /\ EntriesInOneStep(p) \in Nat
<1>. DEFINE o == OneOrMore(p)
            w == AtLeastOne(GPUsPerMachine(p)) * p.nodes
            acc == AtLeastOne(p.accumulation)
<1>1. /\ p.batch \in Nat /\ p.nodes \in Nat \ {0} /\ p.gpus \in Nat
      /\ o \in Nat \ {0} /\ acc \in Nat
  BY DEF PointType, OneOrMore, AtLeastOne
<1>2. p.batch % o = 0 /\ o % p.nodes = 0
  BY DEF Invalid
<1>3. w = o
  <2>1. CASE p.gpus = 0
    <3>1. o = 1 /\ p.nodes = 1
      <4>1. o = 1
        BY <2>1 DEF OneOrMore, AtLeastOne
      <4>2. 1 % p.nodes = 0
        BY <4>1, <1>2
      <4>. QED
        BY <4>1, <4>2, <1>1
    <3>2. GPUsPerMachine(p) = 0
      BY <2>1, <3>1 DEF GPUsPerMachine
    <3>. QED
      BY <3>1, <3>2 DEF AtLeastOne
  <2>2. CASE p.gpus # 0
    <3>1. o = p.gpus
      BY <2>2 DEF OneOrMore, AtLeastOne
    <3>2. p.gpus % p.nodes = 0
      BY <3>1, <1>2
    <3>3. (p.gpus \div p.nodes) * p.nodes = p.gpus /\ p.gpus \div p.nodes \in Nat
      BY <3>2, <1>1
    <3>4. p.gpus \div p.nodes # 0
      BY <3>3, <2>2, <1>1
    <3>5. w = (p.gpus \div p.nodes) * p.nodes
      BY <3>4 DEF AtLeastOne, GPUsPerMachine
    <3>. QED
      BY <3>1, <3>3, <3>5
  <2>. QED
    BY <2>1, <2>2
<1>4. (p.batch \div o) * o = p.batch
  <2>. HIDE DEF o
  <2>. QED
    BY <1>1, <1>2
<1>5. EntriesInOneStep(p) = (p.batch \div o) * w * acc
  BY DEF EntriesInOneStep
<1>. HIDE DEF o, w, acc
<1>6. EntriesInOneStep(p) = p.batch * acc
  BY <1>3, <1>4, <1>5
<1>7. p.batch * acc \in Nat
  BY <1>1
<1>. QED
  BY <1>6, <1>7 DEF acc

-----------------------------------------------------------------------------
(* The cache of the tokens.                                                 *)

TokenOK == TokenTypeOK /\ TokensOK

LEMMA TokensInit == TokenInit => TokenOK
<1>. SUFFICES ASSUME TokenInit PROVE TokenOK
  OBVIOUS
<1>1. /\ dataset = Original /\ files = [v \in Versions |-> Absent]
      /\ counter = [c \in Counters |-> Idle] /\ replacements = 0 /\ replaced = FALSE
  BY DEF TokenInit
<1>2. TokenTypeOK
  <2>. DEFINE C == [stage : CounterStages, file : Versions \cup {Nothing},
                    tokens : {<<>>} \cup {Tokens[v] : v \in Versions},
                    attempts : 0..WriteAttempts]
  <2>1. Idle \in C
    BY TokensAssumption DEF Idle, CounterStages
  <2>2. counter \in [Counters -> C]
    <3>. HIDE DEF C
    <3>. QED
      BY <1>1, <2>1
  <2>3. files \in [Versions -> {Absent, Torn} \cup {Tokens[v] : v \in Versions}]
    BY <1>1
  <2>4. dataset \in Versions /\ replacements \in 0..MaxReplacements
    <3>1. dataset = Original /\ replacements = 0
      BY <1>1
    <3>. QED
      BY <3>1, TokensAssumption
  <2>5. replaced \in BOOLEAN
    BY <1>1
  <2>. QED
    BY <2>2, <2>3, <2>4, <2>5 DEF TokenTypeOK
<1>3. FilesOK
  BY <1>1 DEF FilesOK
<1>4. ASSUME NEW c \in Counters PROVE CounterOK(c)
  <2>1. counter[c] = Idle
    BY <1>1
  <2>. QED
    BY <2>1 DEF CounterOK, Idle
<1>. QED
  BY <1>2, <1>3, <1>4 DEF TokenOK, TokensOK

\* A task that is started or killed has nothing of its own in the cache.
LEMMA TokensKept ==
  ASSUME TokenOK, counter' = [c \in Counters |-> counter'[c]],
         \A c \in Counters : counter'[c] \in {counter[c], Idle, [Idle EXCEPT !.stage = "look"]},
         UNCHANGED <<dataset, files, replacements, replaced>>
  PROVE  TokenOK'
<1>. DEFINE C == [stage : CounterStages, file : Versions \cup {Nothing},
                  tokens : {<<>>} \cup {Tokens[v] : v \in Versions},
                  attempts : 0..WriteAttempts]
            Started == [Idle EXCEPT !.stage = "look"]
<1>1. Idle \in C /\ Started \in C
  BY TokensAssumption DEF Idle, CounterStages
<1>2. counter \in [Counters -> C]
  BY DEF TokenOK, TokenTypeOK
<1>3. \A c \in Counters : counter'[c] \in C
  <2>. HIDE DEF C, Started
  <2>1. \A c \in Counters : counter'[c] \in {counter[c], Idle, Started}
    BY DEF Started
  <2>. QED
    BY <1>1, <1>2, <2>1
<1>4. TokenTypeOK'
  <2>1. counter' \in [Counters -> C]
    <3>. HIDE DEF C
    <3>. QED
      BY <1>3
  <2>. QED
    BY <2>1 DEF TokenOK, TokenTypeOK
<1>5. ASSUME NEW c \in Counters PROVE CounterOK(c)'
  <2>1. CASE counter'[c] = counter[c]
    BY <2>1 DEF TokenOK, TokensOK, CounterOK
  <2>2. CASE counter'[c] = Idle
    BY <2>2 DEF CounterOK, Idle
  <2>3. CASE counter'[c] = Started
    BY <2>3, TokensAssumption DEF CounterOK, Idle
  <2>. QED
    BY <2>1, <2>2, <2>3
<1>. QED
  BY <1>4, <1>5 DEF TokenOK, TokensOK, FilesOK

LEMMA CountKeeps ==
  ASSUME TokenOK, NEW c \in Counters, Count(c)
  PROVE  TokenOK'
<1>. DEFINE C == [stage : CounterStages, file : Versions \cup {Nothing},
                  tokens : {<<>>} \cup {Tokens[v] : v \in Versions},
                  attempts : 0..WriteAttempts]
            Lists == {Tokens[v] : v \in Versions}
            F == {Absent, Torn} \cup Lists
            k == counter[c]
<1>1. /\ counter \in [Counters -> C] /\ dataset \in Versions /\ files \in [Versions -> F]
      /\ k \in C
  BY DEF TokenOK, TokenTypeOK
<1>2. /\ Absent \notin Lists /\ Torn \notin Lists /\ Absent # Torn /\ <<>> \notin Lists
      /\ WriteAttempts \in Nat \ {0}
      /\ \A v \in Versions : Tokens[v] \in Lists
  BY TokensAssumption
<1>3. CounterOK(c) /\ FilesOK /\ \A d \in Counters : CounterOK(d)
  BY DEF TokenOK, TokensOK
<1>4. SUFFICES ASSUME NEW k2 \in C, counter' = [counter EXCEPT ![c] = k2],
                      files' \in [Versions -> F], FilesOK',
                      UNCHANGED <<dataset, replacements, replaced>>,
                      \A v \in Versions : files[v] # Absent => files'[v] # Absent,
                      CounterOK(c)'
               PROVE  TokenOK'
  <2>1. CASE Look(c)
    <3>. DEFINE k2 == [k EXCEPT !.file = dataset,
                                !.stage = IF files[dataset] = Absent THEN "tokenize" ELSE "load"]
    <3>1. counter' = [counter EXCEPT ![c] = k2] /\ UNCHANGED <<dataset, files, replacements, replaced>>
      BY <2>1, <1>1 DEF Look, CacheFile
    <3>2. k2 \in C
      BY <1>1 DEF CounterStages
    <3>3. counter'[c] = k2
      BY <3>1, <1>1
    <3>4. /\ k2.stage \in {"tokenize", "load"} /\ k2.file = dataset /\ k2.attempts = k.attempts
          /\ k2.stage = "load" => files[dataset] # Absent
      BY <1>1
    <3>5. k.attempts = 0
      BY <2>1, <1>3 DEF Look, CounterOK
    <3>. HIDE DEF k2
    <3>6. CounterOK(c)'
      BY <3>1, <3>3, <3>4, <3>5, <1>1 DEF CounterOK
    <3>7. FilesOK'
      BY <3>1, <1>3 DEF FilesOK
    <3>. QED
      BY <3>1, <3>2, <3>6, <3>7, <1>1, <1>4
  <2>2. CASE Load(c)
    <3>0. PICK found \in {files[k.file], Torn} :
            counter' = [counter EXCEPT
              ![c].stage = IF found = Torn THEN "tokenize" ELSE "counted",
              ![c].tokens = IF found = Torn THEN <<>> ELSE found]
      BY <2>2 DEF Load
    <3>. DEFINE k2 == [k EXCEPT !.stage = IF found = Torn THEN "tokenize" ELSE "counted",
                                !.tokens = IF found = Torn THEN <<>> ELSE found]
    <3>1. counter' = [counter EXCEPT ![c] = k2] /\ UNCHANGED <<dataset, files, replacements, replaced>>
      BY <2>2, <3>0, <1>1 DEF Load
    <3>2. k.stage = "load" /\ k.file \in Versions /\ found # Absent
      BY <2>2, <3>0, <1>2, <1>3 DEF Load, CounterOK
    <3>3. found \in Lists \cup {Torn}
      BY <3>0, <3>2, <1>1
    <3>4. k2 \in C
      BY <1>1, <3>3 DEF CounterStages
    <3>5. counter'[c] = k2
      BY <3>1, <1>1
    <3>6. /\ k2.file = k.file /\ k2.attempts = k.attempts
          /\ k2.stage = (IF found = Torn THEN "tokenize" ELSE "counted")
          /\ k2.tokens = (IF found = Torn THEN <<>> ELSE found)
      BY <1>1
    <3>. HIDE DEF k2
    <3>7. CounterOK(c)'
      <4>1. /\ k.attempts = 0
            /\ ~replaced => dataset = k.file
        BY <3>2, <1>3 DEF CounterOK
      <4>2. counter'[c].stage = "counted" => counter'[c].tokens # <<>>
        BY <3>3, <3>5, <3>6, <1>2
      <4>3. counter'[c].stage \in {"tokenize", "counted"}
        BY <3>5, <3>6
      <4>4. /\ counter'[c].file = k.file /\ counter'[c].attempts = 0
            /\ replaced' = replaced /\ dataset' = dataset
        BY <3>1, <3>5, <3>6, <4>1
      <4>. QED
        BY <4>1, <4>2, <4>3, <4>4, <3>2 DEF CounterOK
    <3>8. FilesOK'
      BY <3>1, <1>3 DEF FilesOK
    <3>. QED
      BY <3>1, <3>4, <3>7, <3>8, <1>1, <1>4
  <2>3. CASE Tokenize(c)
    <3>. DEFINE k2 == [k EXCEPT !.stage = "open", !.tokens = Tokens[dataset]]
    <3>1. counter' = [counter EXCEPT ![c] = k2] /\ UNCHANGED <<dataset, files, replacements, replaced>>
      BY <2>3, <1>1 DEF Tokenize
    <3>2. k2 \in C
      BY <1>1 DEF CounterStages
    <3>3. counter'[c] = k2
      BY <3>1, <1>1
    <3>4. /\ k2.file = k.file /\ k2.attempts = k.attempts /\ k2.stage = "open"
          /\ k2.tokens = Tokens[dataset]
      BY <1>1
    <3>5. k.attempts = 0 /\ k.file \in Versions /\ (~replaced => dataset = k.file)
      BY <2>3, <1>3 DEF Tokenize, CounterOK
    <3>6. Tokens[dataset] # <<>>
      BY <1>1, <1>2
    <3>. HIDE DEF k2
    <3>7. CounterOK(c)'
      BY <3>1, <3>3, <3>4, <3>5, <3>6, <1>2 DEF CounterOK
    <3>8. FilesOK'
      BY <3>1, <1>3 DEF FilesOK
    <3>. QED
      BY <3>1, <3>2, <3>7, <3>8, <1>1, <1>4
  <2>4. CASE Open(c)
    <3>. DEFINE k2 == [k EXCEPT !.stage = "write", !.attempts = k.attempts + 1]
    <3>1. /\ counter' = [counter EXCEPT ![c] = k2] /\ UNCHANGED <<dataset, replacements, replaced>>
          /\ files' = [files EXCEPT ![k.file] = Torn]
      BY <2>4, <1>1 DEF Open
    <3>2. /\ k.stage = "open" /\ k.file \in Versions /\ k.tokens # <<>>
          /\ k.attempts < WriteAttempts
          /\ ~replaced => k.tokens = Tokens[k.file]
      BY <2>4, <1>3 DEF Open, CounterOK
    <3>3. k2 \in C
      <4>1. k.attempts + 1 \in 0..WriteAttempts
        BY <3>2, <1>1, <1>2
      <4>. QED
        BY <1>1, <4>1 DEF CounterStages
    <3>4. counter'[c] = k2
      BY <3>1, <1>1
    <3>5. k2.file = k.file /\ k2.stage = "write" /\ k2.tokens = k.tokens
      BY <1>1
    <3>6. files'[k.file] = Torn /\ \A v \in Versions : v # k.file => files'[v] = files[v]
      BY <3>1, <3>2, <1>1
    <3>7. files' \in [Versions -> F]
      BY <3>1, <3>2, <1>1
    <3>. HIDE DEF k2
    <3>8. CounterOK(c)'
      BY <3>1, <3>2, <3>4, <3>5, <3>6, <1>2 DEF CounterOK
    <3>9. FilesOK'
      BY <3>1, <3>6, <1>3 DEF FilesOK
    <3>10. \A v \in Versions : files[v] # Absent => files'[v] # Absent
      BY <3>6, <1>2
    <3>. QED
      BY <3>1, <3>3, <3>7, <3>8, <3>9, <3>10, <1>4
  <2>5. CASE Write(c)
    <3>. DEFINE k2 == [k EXCEPT !.stage = "verify"]
    <3>1. /\ counter' = [counter EXCEPT ![c] = k2] /\ UNCHANGED <<dataset, replacements, replaced>>
          /\ files' = [files EXCEPT ![k.file] = k.tokens]
      BY <2>5, <1>1 DEF Write
    <3>2. /\ k.stage = "write" /\ k.file \in Versions /\ k.tokens # <<>>
          /\ ~replaced => k.tokens = Tokens[k.file]
      BY <2>5, <1>3 DEF Write, CounterOK
    <3>3. k2 \in C /\ k.tokens \in Lists
      BY <1>1, <3>2 DEF CounterStages
    <3>4. counter'[c] = k2
      BY <3>1, <1>1
    <3>5. k2.file = k.file /\ k2.stage = "verify" /\ k2.tokens = k.tokens
      BY <1>1
    <3>6. files'[k.file] = k.tokens /\ \A v \in Versions : v # k.file => files'[v] = files[v]
      BY <3>1, <3>2, <1>1
    <3>7. files' \in [Versions -> F]
      BY <3>1, <3>2, <3>3, <1>1
    <3>. HIDE DEF k2
    <3>8. CounterOK(c)'
      BY <3>1, <3>2, <3>3, <3>4, <3>5, <3>6, <1>2 DEF CounterOK
    <3>9. FilesOK'
      BY <3>1, <3>2, <3>6, <1>3 DEF FilesOK
    <3>10. \A v \in Versions : files[v] # Absent => files'[v] # Absent
      BY <3>3, <3>6, <1>2
    <3>. QED
      BY <3>1, <3>3, <3>7, <3>8, <3>9, <3>10, <1>4
  <2>6. CASE Verify(c)
    <3>. DEFINE again == /\ files[k.file] \notin {Torn, k.tokens}
                         /\ k.attempts < WriteAttempts
                k2 == [k EXCEPT !.stage = IF again THEN "open" ELSE "counted"]
    <3>1. counter' = [counter EXCEPT ![c] = k2] /\ UNCHANGED <<dataset, files, replacements, replaced>>
      BY <2>6, <1>1 DEF Verify
    <3>2. /\ k.stage = "verify" /\ k.file \in Versions /\ k.tokens # <<>>
          /\ ~replaced => k.tokens = Tokens[k.file]
      BY <2>6, <1>3 DEF Verify, CounterOK
    <3>3. k2 \in C
      BY <1>1 DEF CounterStages
    <3>4. counter'[c] = k2
      BY <3>1, <1>1
    <3>5. /\ k2.file = k.file /\ k2.tokens = k.tokens /\ k2.attempts = k.attempts
          /\ k2.stage \in {"open", "counted"}
          /\ k2.stage = "open" => k.attempts < WriteAttempts
      BY <1>1
    <3>. HIDE DEF k2
    <3>6. CounterOK(c)'
      BY <3>1, <3>2, <3>4, <3>5 DEF CounterOK
    <3>7. FilesOK'
      BY <3>1, <1>3 DEF FilesOK
    <3>. QED
      BY <3>1, <3>3, <3>6, <3>7, <1>1, <1>4
  <2>7. CASE CachingFails(c)
    <3>. DEFINE k2 == [k EXCEPT !.stage = "counted"]
    <3>1. counter' = [counter EXCEPT ![c] = k2] /\ UNCHANGED <<dataset, files, replacements, replaced>>
      BY <2>7, <1>1 DEF CachingFails
    <3>2. k.tokens # <<>>
      BY <2>7, <1>3 DEF CachingFails, CounterOK
    <3>3. k2 \in C
      BY <1>1 DEF CounterStages
    <3>4. counter'[c] = k2
      BY <3>1, <1>1
    <3>5. k2.tokens = k.tokens /\ k2.stage = "counted"
      BY <1>1
    <3>. HIDE DEF k2
    <3>6. CounterOK(c)'
      BY <3>1, <3>2, <3>4, <3>5 DEF CounterOK
    <3>7. FilesOK'
      BY <3>1, <1>3 DEF FilesOK
    <3>. QED
      BY <3>1, <3>3, <3>6, <3>7, <1>1, <1>4
  <2>. QED
    BY <2>1, <2>2, <2>3, <2>4, <2>5, <2>6, <2>7 DEF Count
<1>5. counter' \in [Counters -> C]
  BY <1>1, <1>4
<1>6. TokenTypeOK'
  BY <1>4, <1>5 DEF TokenOK, TokenTypeOK
<1>7. ASSUME NEW d \in Counters, d # c PROVE CounterOK(d)'
  <2>1. counter'[d] = counter[d]
    BY <1>1, <1>4, <1>7
  <2>2. counter[d] \in C
    BY <1>1
  <2>3. CounterOK(d)
    BY <1>3
  <2>. QED
    BY <1>4, <2>1, <2>2, <2>3 DEF CounterOK
<1>. QED
  BY <1>4, <1>6, <1>7 DEF TokenOK, TokensOK

LEMMA UpdateKeeps == TokenOK /\ UpdateDataset => TokenOK'
<1>. SUFFICES ASSUME TokenOK, UpdateDataset PROVE TokenOK'
  OBVIOUS
<1>1. /\ dataset' \in Versions /\ UNCHANGED <<files, counter>>
      /\ replaced' = (replaced \/ \E c \in Counters : counter[c].stage \in {"load", "tokenize"})
      /\ replacements < MaxReplacements /\ replacements' = replacements + 1
  BY DEF UpdateDataset
<1>2. TokenTypeOK'
  BY <1>1, TokensAssumption DEF TokenOK, TokenTypeOK
<1>3. FilesOK'
  BY <1>1 DEF TokenOK, TokensOK, FilesOK
<1>4. ASSUME NEW c \in Counters PROVE CounterOK(c)'
  BY <1>1 DEF TokenOK, TokensOK, CounterOK
<1>. QED
  BY <1>2, <1>3, <1>4 DEF TokenOK, TokensOK

-----------------------------------------------------------------------------
(* A step of one request.                                                   *)

Local(r) == <<stage[r], machines[r], task[r], metrics[r], tally[r], answer[r],
              causes[r], clocks[r]>>

LocalTypesOK(r) ==
  /\ stage[r] \in TrainerStages /\ machines[r] \in Seq(Machines)
  /\ task[r] \in Seq(TaskStates) /\ metrics[r] \in Seq(Metrics) /\ tally[r] \in Tallies
  /\ answer[r] \in Answers \cup {Nothing} /\ causes[r] \in SUBSET {"oom", "other"}

\* Nothing changes but what request r holds and has of its own.
FunctionsOfTrainings ==
  /\ stage = [q \in Trainings |-> stage[q]] /\ machines = [q \in Trainings |-> machines[q]]
  /\ task = [q \in Trainings |-> task[q]] /\ metrics = [q \in Trainings |-> metrics[q]]
  /\ tally = [q \in Trainings |-> tally[q]] /\ answer = [q \in Trainings |-> answer[q]]
  /\ causes = [q \in Trainings |-> causes[q]] /\ clocks = [q \in Trainings |-> clocks[q]]

Changes(r) ==
  /\ FunctionsOfTrainings'
  /\ \A q \in Trainings : q # r => Local(q)' = Local(q)
  /\ UNCHANGED <<typed, point, crashes>>

LEMMA TypesAreLocal ==
  TrainerTypesOK <=> /\ TokenTypeOK /\ typed \in BOOLEAN /\ point \in Points
                     /\ crashes \in 0..MaxCrashes
                     /\ FunctionsOfTrainings
                     /\ \A r \in Trainings : LocalTypesOK(r)
<1>1. ASSUME TrainerTypesOK
      PROVE  FunctionsOfTrainings /\ \A r \in Trainings : LocalTypesOK(r)
  BY <1>1 DEF TrainerTypesOK, FunctionsOfTrainings, LocalTypesOK
<1>2. ASSUME FunctionsOfTrainings, \A r \in Trainings : LocalTypesOK(r)
      PROVE  /\ stage \in [Trainings -> TrainerStages]
             /\ machines \in [Trainings -> Seq(Machines)]
             /\ task \in [Trainings -> Seq(TaskStates)]
             /\ metrics \in [Trainings -> Seq(Metrics)]
             /\ tally \in [Trainings -> Tallies]
             /\ answer \in [Trainings -> Answers \cup {Nothing}]
             /\ causes \in [Trainings -> SUBSET {"oom", "other"}]
             /\ clocks = [r \in Trainings |-> clocks[r]]
  BY <1>2 DEF FunctionsOfTrainings, LocalTypesOK
<1>. QED
  BY <1>1, <1>2 DEF TrainerTypesOK

\* A request stays as it is when its own state does.
LEMMA RequestKept ==
  ASSUME NEW q \in Trainings, RequestOK(q), point' = point, Local(q)' = Local(q)
  PROVE  RequestOK(q)'
<1>1. /\ stage'[q] = stage[q] /\ machines'[q] = machines[q] /\ task'[q] = task[q]
      /\ metrics'[q] = metrics[q] /\ tally'[q] = tally[q] /\ answer'[q] = answer[q]
      /\ causes'[q] = causes[q] /\ clocks'[q] = clocks[q] /\ point'[q] = point[q]
  BY DEF Local
<1>2. HoldsOK(q)'
  BY <1>1 DEF RequestOK, HoldsOK
<1>3. AskedOK(q)'
  BY <1>1 DEF RequestOK, AskedOK
<1>4. Runs(q)' = Runs(q)
  BY <1>1 DEF Runs
<1>5. CausesOK(q)'
  BY <1>1, <1>4 DEF RequestOK, CausesOK
<1>6. \A m : MetricsRight(q, m)' <=> MetricsRight(q, m)
  BY <1>1 DEF MetricsRight
<1>7. \A m : TokensRight(q, m)' <=> TokensRight(q, m)
  BY <1>1 DEF TokensRight
<1>8. MeasuredOK(q)'
  BY <1>1, <1>6, <1>7 DEF RequestOK, MeasuredOK
<1>9. AnswerOK(q)'
  BY <1>1, <1>4, <1>6, <1>7 DEF RequestOK, AnswerOK
<1>. QED
  BY <1>2, <1>3, <1>5, <1>8, <1>9 DEF RequestOK

LEMMA StepOfOne ==
  ASSUME TrainerInv, NEW r \in Trainings, Changes(r), LocalTypesOK(r)', TokenOK', RequestOK(r)'
  PROVE  TrainerInv'
<1>1. TrainerTypesOK /\ \A q \in Trainings : RequestOK(q) /\ LocalTypesOK(q)
  BY TypesAreLocal DEF TrainerInv
<1>2. \A q \in Trainings : q # r => LocalTypesOK(q)'
  BY <1>1 DEF Changes, Local, LocalTypesOK
<1>3. TrainerTypesOK'
  <2>1. FunctionsOfTrainings' /\ \A q \in Trainings : LocalTypesOK(q)'
    BY <1>2 DEF Changes
  <2>2. TokenTypeOK' /\ typed' \in BOOLEAN /\ point' \in Points /\ crashes' \in 0..MaxCrashes
    BY <1>1 DEF Changes, TokenOK, TrainerTypesOK
  <2>3. /\ (stage \in [Trainings -> TrainerStages])'
        /\ (machines \in [Trainings -> Seq(Machines)])'
        /\ (task \in [Trainings -> Seq(TaskStates)])'
        /\ (metrics \in [Trainings -> Seq(Metrics)])'
        /\ (tally \in [Trainings -> Tallies])'
        /\ (answer \in [Trainings -> Answers \cup {Nothing}])'
        /\ (causes \in [Trainings -> SUBSET {"oom", "other"}])'
        /\ (clocks = [q \in Trainings |-> clocks[q]])'
    BY <2>1 DEF FunctionsOfTrainings, LocalTypesOK
  <2>. QED
    BY <2>2, <2>3 DEF TrainerTypesOK
<1>4. \A q \in Trainings : q # r => RequestOK(q)'
  BY <1>1, RequestKept DEF Changes
<1>. QED
  BY <1>3, <1>4 DEF TrainerInv, TokenOK

LEMMA InvFacts ==
  ASSUME TrainerInv, NEW r \in Trainings
  PROVE  /\ TrainerTypesOK /\ TokenOK /\ FunctionsOfTrainings /\ LocalTypesOK(r)
         /\ HoldsOK(r) /\ AskedOK(r) /\ CausesOK(r) /\ MeasuredOK(r) /\ AnswerOK(r)
         /\ point[r] \in PointType
BY TypesAreLocal, PointTypes DEF TrainerInv, RequestOK, TokenOK, TrainerTypesOK

LEMMA TokensUntouched == TokenOK /\ UNCHANGED tokenVars => TokenOK'
<1>. SUFFICES ASSUME TokenOK, UNCHANGED tokenVars PROVE TokenOK'
  OBVIOUS
<1>1. UNCHANGED <<dataset, files, counter, replacements, replaced>>
  BY DEF tokenVars
<1>2. TokenTypeOK'
  BY <1>1 DEF TokenOK, TokenTypeOK
<1>3. FilesOK'
  BY <1>1 DEF TokenOK, TokensOK, FilesOK
<1>4. ASSUME NEW c \in Counters PROVE CounterOK(c)'
  BY <1>1 DEF TokenOK, TokensOK, CounterOK
<1>. QED
  BY <1>2, <1>3, <1>4 DEF TokenOK, TokensOK

LEMMA ReleaseKeepsTokens == \A r \in Trainings : TokenOK /\ Release(r) => TokenOK'
<1>. SUFFICES ASSUME NEW r \in Trainings, TokenOK, Release(r) PROVE TokenOK'
  OBVIOUS
<1>1. /\ counter' = [c \in Counters |-> IF c[1] = r THEN Idle ELSE counter[c]]
      /\ UNCHANGED <<dataset, files, replacements, replaced>>
  BY DEF Release, Killed
<1>2. counter' = [c \in Counters |-> counter'[c]]
  BY <1>1
<1>3. \A c \in Counters : counter'[c] \in {counter[c], Idle, [Idle EXCEPT !.stage = "look"]}
  BY <1>1
<1>. QED
  BY <1>1, <1>2, <1>3, TokensKept

LEMMA NoMetricsType == NoMetrics \in Metrics
BY DEF NoMetrics, Metrics

\* What is put on the queue is an answer.
LEMMA PutType ==
  ASSUME TrainerInv, NEW r \in Trainings, NEW status \in {"valid", "invalid", "failed"},
         NEW result \in Metrics, Put(r, status, result)
  PROVE  /\ answer' = [answer EXCEPT ![r] = [status |-> status, result |-> result]]
         /\ answer'[r] = [status |-> status, result |-> result]
         /\ answer'[r].status = status /\ answer'[r].result = result
         /\ answer'[r] \in Answers /\ answer'[r] # Nothing
         /\ stage' = [stage EXCEPT ![r] = "answered"] /\ stage'[r] = "answered"
<1>1. FunctionsOfTrainings
  BY InvFacts
<1>2. /\ answer' = [answer EXCEPT ![r] = [status |-> status, result |-> result]]
      /\ stage' = [stage EXCEPT ![r] = "answered"]
  BY DEF Put, Goes
<1>3. answer'[r] = [status |-> status, result |-> result] /\ stage'[r] = "answered"
  BY <1>1, <1>2 DEF FunctionsOfTrainings
<1>4. [status |-> status, result |-> result] \in Answers
  BY DEF Answers
<1>. QED
  BY <1>2, <1>3, <1>4, NothingAssumption

-----------------------------------------------------------------------------
(* Before a request has machines.                                           *)

\* It goes on to the next of its checks.
LEMMA GoesOn ==
  ASSUME TrainerInv, NEW r \in Trainings, NEW to \in {"refused", "prepare", "dead", "file", "place"},
         Goes(r, to),
         UNCHANGED <<tokenVars, typed, point, tally, answer, ray, causes, clocks>>,
         stage[r] \in {"new", "prepare", "file"},
         to \in {"file", "place"} => ~Invalid(point[r]),
         to = "place" => ~(MultiNode(point[r]) /\ point[r].method = "full-error")
  PROVE  TrainerInv'
<1>1. /\ TrainerTypesOK /\ TokenOK /\ FunctionsOfTrainings /\ LocalTypesOK(r)
      /\ HoldsOK(r) /\ AskedOK(r) /\ CausesOK(r) /\ MeasuredOK(r) /\ AnswerOK(r)
  BY InvFacts
<1>2. /\ stage' = [stage EXCEPT ![r] = to]
      /\ UNCHANGED <<machines, task, metrics, tally, answer, causes, clocks>>
      /\ UNCHANGED <<typed, point, crashes>> /\ UNCHANGED tokenVars
  BY DEF Goes, ray
<1>3. stage'[r] = to /\ \A q \in Trainings : q # r => stage'[q] = stage[q]
  BY <1>1, <1>2 DEF FunctionsOfTrainings
<1>4. Changes(r)
  BY <1>1, <1>2, <1>3 DEF Changes, FunctionsOfTrainings, Local
<1>5. LocalTypesOK(r)'
  BY <1>1, <1>2, <1>3 DEF LocalTypesOK, TrainerStages
<1>6. TokenOK'
  BY <1>1, <1>2, TokensUntouched
<1>7. machines[r] = <<>> /\ task[r] = <<>> /\ answer[r] = Nothing
  BY <1>1 DEF HoldsOK
<1>8. HoldsOK(r)'
  BY <1>2, <1>3, <1>7 DEF HoldsOK
<1>9. AskedOK(r)'
  BY <1>2, <1>3 DEF AskedOK
<1>10. CausesOK(r)'
  <2>1. causes[r] = {} /\ Runs(r) = 0
    BY <1>1 DEF CausesOK
  <2>2. tally[r].oom = 0
    BY <1>1, <2>1 DEF Runs, LocalTypesOK, Tallies
  <2>3. Runs(r)' = 0
    BY <1>2, <2>1 DEF Runs
  <2>. QED
    BY <1>2, <1>3, <1>7, <2>1, <2>2, <2>3, TrainerAssumption DEF CausesOK
<1>11. MeasuredOK(r)'
  BY <1>1, <1>2, <1>3 DEF MeasuredOK
<1>12. AnswerOK(r)'
  BY <1>3 DEF AnswerOK
<1>. QED
  BY <1>4, <1>5, <1>6, <1>8, <1>9, <1>10, <1>11, <1>12, StepOfOne DEF RequestOK

\* It is answered without having been measured.
LEMMA AnsweredUnmeasured ==
  ASSUME TrainerInv, NEW r \in Trainings, NEW status \in {"invalid", "failed"},
         Put(r, status, NoMetrics),
         UNCHANGED <<typed, point, tally, crashes>>,
         clocks' = clocks \/ clocks' = [clocks EXCEPT ![r] = <<>>],
         \/ UNCHANGED ray /\ stage[r] \in {"new", "prepare", "file"}
         \/ Release(r),
         TokenOK',
         causes' = causes \/ causes' = [causes EXCEPT ![r] = @ \cup {"other"}],
         status = "invalid" => ~Consistent(point[r]) \/ "oom" \in causes'[r],
         status = "failed" => Consistent([point[r] EXCEPT !.ep = 0]) /\ "other" \in causes'[r]
  PROVE  TrainerInv'
<1>1. /\ TrainerTypesOK /\ TokenOK /\ FunctionsOfTrainings /\ LocalTypesOK(r)
      /\ HoldsOK(r) /\ AskedOK(r) /\ CausesOK(r) /\ MeasuredOK(r) /\ AnswerOK(r)
  BY InvFacts
<1>2. /\ answer' = [answer EXCEPT ![r] = [status |-> status, result |-> NoMetrics]]
      /\ answer'[r].status = status
      /\ answer'[r] \in Answers /\ answer'[r] # Nothing
      /\ stage' = [stage EXCEPT ![r] = "answered"] /\ stage'[r] = "answered"
  <2>1. NoMetrics \in Metrics /\ status \in {"valid", "invalid", "failed"}
    BY NoMetricsType
  <2>2. /\ answer' = [answer EXCEPT ![r] = [status |-> status, result |-> NoMetrics]]
        /\ stage' = [stage EXCEPT ![r] = "answered"]
    BY DEF Put, Goes
  <2>3. answer'[r] = [status |-> status, result |-> NoMetrics] /\ stage'[r] = "answered"
    BY <1>1, <2>2 DEF FunctionsOfTrainings
  <2>4. [status |-> status, result |-> NoMetrics] \in Answers
    BY <2>1 DEF Answers
  <2>5. answer'[r].status = status
    BY <2>3
  <2>6. answer'[r] \in Answers /\ answer'[r] # Nothing
    BY <2>3, <2>4, NothingAssumption
  <2>. QED
    BY <2>2, <2>3, <2>5, <2>6
<1>3. /\ \A q \in Trainings : q # r => stage'[q] = stage[q] /\ answer'[q] = answer[q]
      /\ stage' = [q \in Trainings |-> stage'[q]] /\ answer' = [q \in Trainings |-> answer'[q]]
  BY <1>1, <1>2 DEF FunctionsOfTrainings
<1>4. /\ \A q \in Trainings : q # r => causes'[q] = causes[q]
      /\ causes' = [q \in Trainings |-> causes'[q]]
      /\ causes'[r] \in SUBSET {"oom", "other"}
  <2>1. CASE causes' = causes
    BY <1>1, <2>1 DEF FunctionsOfTrainings, LocalTypesOK
  <2>2. CASE causes' = [causes EXCEPT ![r] = @ \cup {"other"}]
    <3>1. causes'[r] = causes[r] \cup {"other"}
      BY <1>1, <2>2 DEF FunctionsOfTrainings
    <3>2. causes'[r] \in SUBSET {"oom", "other"}
      BY <1>1, <3>1 DEF LocalTypesOK
    <3>. QED
      BY <1>1, <2>2, <3>2 DEF FunctionsOfTrainings
  <2>. QED
    BY <2>1, <2>2
<1>5. /\ \A q \in Trainings : q # r => clocks'[q] = clocks[q]
      /\ clocks' = [q \in Trainings |-> clocks'[q]]
      /\ clocks'[r] \in {clocks[r], <<>>}
  BY <1>1 DEF FunctionsOfTrainings
<1>6. /\ \A q \in Trainings : q # r => /\ machines'[q] = machines[q] /\ task'[q] = task[q]
                                       /\ metrics'[q] = metrics[q]
      /\ machines' = [q \in Trainings |-> machines'[q]] /\ task' = [q \in Trainings |-> task'[q]]
      /\ metrics' = [q \in Trainings |-> metrics'[q]]
      /\ machines'[r] = <<>> /\ task'[r] = <<>> /\ metrics'[r] \in Seq(Metrics)
  <2>1. CASE UNCHANGED ray /\ stage[r] \in {"new", "prepare", "file"}
    BY <1>1, <2>1 DEF ray, FunctionsOfTrainings, HoldsOK, LocalTypesOK
  <2>2. CASE Release(r)
    <3>1. /\ machines' = [machines EXCEPT ![r] = <<>>] /\ task' = [task EXCEPT ![r] = <<>>]
          /\ metrics' = [metrics EXCEPT ![r] = <<>>]
      BY <2>2 DEF Release
    <3>2. machines'[r] = <<>> /\ task'[r] = <<>> /\ metrics'[r] = <<>>
      BY <1>1, <3>1 DEF FunctionsOfTrainings
    <3>3. <<>> \in Seq(Metrics)
      OBVIOUS
    <3>4. metrics'[r] \in Seq(Metrics)
      BY <3>2, <3>3
    <3>. QED
      BY <1>1, <3>1, <3>2, <3>4 DEF FunctionsOfTrainings
  <2>. QED
    BY <2>1, <2>2
<1>7. Changes(r)
  BY <1>1, <1>3, <1>4, <1>5, <1>6 DEF Changes, FunctionsOfTrainings, Local
<1>8. LocalTypesOK(r)'
  BY <1>1, <1>2, <1>4, <1>6 DEF LocalTypesOK, TrainerStages
<1>9. HoldsOK(r)'
  BY <1>2, <1>6 DEF HoldsOK
<1>10. AskedOK(r)'
  BY <1>2 DEF AskedOK
<1>11. CausesOK(r)'
  BY <1>2, <1>6 DEF CausesOK
<1>12. MeasuredOK(r)'
  BY <1>1, <1>2, <1>5 DEF MeasuredOK
<1>13. AnswerOK(r)'
  BY <1>2 DEF AnswerOK
<1>. QED
  BY <1>7, <1>8, <1>9, <1>10, <1>11, <1>12, <1>13, StepOfOne DEF RequestOK

\* A failure of something else is recorded as one.
LEMMA WrongRecords ==
  ASSUME TrainerInv, NEW r \in Trainings, Wrong(r, "other")
  PROVE  /\ causes' = [causes EXCEPT ![r] = @ \cup {"other"}]
         /\ "other" \in causes'[r]
BY InvFacts DEF Wrong, FunctionsOfTrainings

LEMMA SubmitKeeps ==
  ASSUME TrainerInv, NEW r \in Trainings, Submit(r)
  PROVE  TrainerInv'
<1>1. PICK to \in {"refused", "prepare"} : Goes(r, to)
  BY DEF Submit
<1>. QED
  BY <1>1, GoesOn DEF Submit

LEMMA PrepareDiesKeeps ==
  ASSUME TrainerInv, NEW r \in Trainings, PrepareDies(r)
  PROVE  TrainerInv'
BY GoesOn DEF PrepareDies

LEMMA PrepareKeeps ==
  ASSUME TrainerInv, NEW r \in Trainings, Prepare(r)
  PROVE  TrainerInv'
<1>. DEFINE p == point[r]
<1>1. p \in PointType /\ TokenOK
  BY InvFacts
<1>2. /\ stage[r] = "prepare" /\ UNCHANGED <<tokenVars, typed, point, tally, ray, clocks>>
      /\ UNCHANGED crashes
  BY DEF Prepare, ray
<1>3. TokenOK'
  BY <1>1, <1>2, TokensUntouched
<1>4. CASE Invalid(p) /\ Put(r, "invalid", NoMetrics) /\ UNCHANGED causes
  <2>1. ~Consistent(p)
    BY <1>1, <1>4, InvalidIsInconsistent
  <2>. QED
    BY <1>2, <1>3, <1>4, <2>1, AnsweredUnmeasured
<1>5. CASE ~Invalid(p) /\ Fails(r)
  <2>1. Consistent([p EXCEPT !.ep = 0])
    BY <1>1, <1>5, InvalidIsInconsistent
  <2>2. Put(r, "failed", NoMetrics) /\ Wrong(r, "other")
    BY <1>5 DEF Fails
  <2>. QED
    BY <1>2, <1>3, <2>1, <2>2, WrongRecords, AnsweredUnmeasured
<1>6. CASE ~Invalid(p) /\ Goes(r, "file") /\ UNCHANGED <<answer, causes>>
  BY <1>2, <1>6, GoesOn
<1>. QED
  BY <1>4, <1>5, <1>6 DEF Prepare

LEMMA CheckFileKeeps ==
  ASSUME TrainerInv, NEW r \in Trainings, CheckFile(r)
  PROVE  TrainerInv'
<1>. DEFINE p == point[r]
<1>1. p \in PointType /\ TokenOK /\ AskedOK(r)
  BY InvFacts
<1>2. /\ stage[r] = "file" /\ UNCHANGED <<tokenVars, typed, point, tally, ray, clocks>>
      /\ UNCHANGED crashes
  BY DEF CheckFile, ray
<1>3. TokenOK' /\ ~Invalid(p)
  BY <1>1, <1>2, TokensUntouched DEF AskedOK
<1>4. CASE Fails(r)
  <2>1. Consistent([p EXCEPT !.ep = 0])
    BY <1>1, <1>3, InvalidIsInconsistent
  <2>2. Put(r, "failed", NoMetrics) /\ Wrong(r, "other")
    BY <1>4 DEF Fails
  <2>. QED
    BY <1>2, <1>3, <2>1, <2>2, WrongRecords, AnsweredUnmeasured
<1>5. CASE /\ ~(MultiNode(p) /\ p.method = "full-error")
           /\ Goes(r, "place") /\ UNCHANGED <<answer, causes>>
  BY <1>2, <1>3, <1>5, GoesOn
<1>. QED
  BY <1>4, <1>5 DEF CheckFile

-----------------------------------------------------------------------------
(* Machines for a request.                                                  *)

\* The machines of its ranks are different, and so there are as many.
LEMMA RanksAreMachineRanks ==
  ASSUME NEW p \in PointType, NEW ms \in [Ranks(p) -> Machines],
         \A i, j \in Ranks(p) : ms[i] = ms[j] => i = j
  PROVE  Ranks(p) \subseteq MachineRanks
<1>1. p.nodes \in Nat \ {0} /\ Ranks(p) = 1 .. p.nodes
  BY DEF PointType, Ranks
<1>2. ms \in Injection(Ranks(p), Machines)
  BY DEF Injection, IsInjective
<1>3. Cardinality(Ranks(p)) <= Cardinality(Machines) /\ IsFiniteSet(Machines)
  BY <1>2, FS_Injection, TrainerAssumption
<1>4. Cardinality(Ranks(p)) = p.nodes
  <2>1. p.nodes \in Nat /\ 1 \in Nat /\ 1 <= p.nodes + 1
    BY <1>1
  <2>2. Cardinality(1 .. p.nodes) = (p.nodes + 1) - 1
    BY <2>1, CardinalityOfInterval
  <2>. QED
    BY <1>1, <2>1, <2>2
<1>5. Cardinality(Machines) \in Nat
  BY <1>3, FS_CardinalityType
<1>. QED
  BY <1>1, <1>3, <1>4, <1>5 DEF MachineRanks

LEMMA RanksOfOne ==
  ASSUME NEW p \in PointType
  PROVE  /\ 1 \in Ranks(p) /\ Ranks(p) = 1 .. p.nodes /\ p.nodes \in Nat \ {0}
         /\ ~MultiNode(p) => Ranks(p) = {1} /\ p.nodes = 1
BY DEF PointType, Ranks, MultiNode

LEMMA PlaceKeeps ==
  ASSUME TrainerInv, NEW r \in Trainings, Place(r)
  PROVE  TrainerInv'
<1>. DEFINE p == point[r]
            to == IF MultiNode(p) THEN "port" ELSE "run"
            begun == IF MultiNode(p) THEN <<>> ELSE <<"start">>
            none == [i \in Ranks(p) |-> NoMetrics]
<1>1. /\ TrainerTypesOK /\ TokenOK /\ FunctionsOfTrainings /\ LocalTypesOK(r)
      /\ HoldsOK(r) /\ AskedOK(r) /\ CausesOK(r) /\ MeasuredOK(r) /\ AnswerOK(r)
      /\ p \in PointType
  BY InvFacts
<1>2. PICK ms \in [Ranks(p) -> Machines] :
        /\ \A i, j \in Ranks(p) : ms[i] = ms[j] => i = j
        /\ machines' = [machines EXCEPT ![r] = ms]
  BY DEF Place
<1>3. /\ stage' = [stage EXCEPT ![r] = to] /\ task' = [task EXCEPT ![r] = begun]
      /\ metrics' = [metrics EXCEPT ![r] = none]
      /\ UNCHANGED <<tokenVars, typed, point, tally, answer, crashes, causes, clocks>>
      /\ stage[r] = "place"
  BY DEF Place, Goes
<1>4. /\ 1 \in Ranks(p) /\ Ranks(p) = 1 .. p.nodes /\ p.nodes \in Nat \ {0}
      /\ ~MultiNode(p) => Ranks(p) = {1}
      /\ Ranks(p) \subseteq MachineRanks
  BY <1>1, <1>2, RanksOfOne, RanksAreMachineRanks
<1>. HIDE DEF p
<1>5. /\ ms \in Seq(Machines) /\ DOMAIN ms = Ranks(p)
      /\ none \in Seq(Metrics) /\ DOMAIN none = Ranks(p)
  <2>1. NoMetrics \in Metrics
    BY NoMetricsType
  <2>2. none \in [1 .. p.nodes -> Metrics] /\ ms \in [1 .. p.nodes -> Machines]
    BY <1>2, <1>4, <2>1
  <2>3. \A S : [1 .. p.nodes -> S] \subseteq Seq(S)
    BY <1>4
  <2>. QED
    BY <1>4, <2>2, <2>3
<1>6. begun \in Seq(TaskStates) /\ to \in {"port", "run"}
  <2>1. <<"start">> \in Seq(TaskStates) /\ <<>> \in Seq(TaskStates)
    BY DEF TaskStates
  <2>2. begun \in {<<>>, <<"start">>}
    OBVIOUS
  <2>. QED
    BY <2>1, <2>2
<1>7. ~MultiNode(p) => begun = <<"start">> /\ DOMAIN begun = Ranks(p) /\ to = "run"
  <2>1. DOMAIN <<"start">> = {1}
    OBVIOUS
  <2>2. ~MultiNode(p) => begun = <<"start">> /\ to = "run"
    OBVIOUS
  <2>. QED
    BY <1>4, <2>1, <2>2
<1>8. MultiNode(p) => begun = <<>> /\ to = "port"
  OBVIOUS
<1>. HIDE DEF begun, to, none
<1>9. /\ stage'[r] = to /\ task'[r] = begun /\ metrics'[r] = none /\ machines'[r] = ms
      /\ UNCHANGED <<tally, answer, causes, clocks, point>>
  BY <1>1, <1>2, <1>3 DEF FunctionsOfTrainings
<1>10. Changes(r)
  BY <1>1, <1>2, <1>3, <1>9 DEF Changes, FunctionsOfTrainings, Local
<1>11. LocalTypesOK(r)'
  BY <1>1, <1>5, <1>6, <1>9 DEF LocalTypesOK, TrainerStages
<1>12. TokenOK'
  BY <1>1, <1>3, TokensUntouched
<1>13. HoldsOK(r)'
  <2>1. answer'[r] = Nothing
    BY <1>1, <1>3, <1>9 DEF HoldsOK
  <2>. QED
    BY <1>4, <1>5, <1>6, <1>7, <1>8, <1>9, <2>1 DEF HoldsOK, p
<1>14. AskedOK(r)'
  BY <1>1, <1>3, <1>9 DEF AskedOK, p
<1>15. CausesOK(r)'
  <2>1. {task'[r][i] : i \in DOMAIN task'[r]} \subseteq {"start"}
    BY <1>7, <1>8, <1>9
  <2>2. {task[r][i] : i \in DOMAIN task[r]} = {}
    BY <1>1, <1>3 DEF HoldsOK
  <2>3. Runs(r)' = Runs(r)
    BY <1>9 DEF Runs
  <2>4. /\ p.method = "train" => causes[r] = {}
        /\ p.method = "full-error" => /\ Runs(r) < SampleRuns
                                      /\ "oom" \in causes[r] <=> tally[r].oom > 0
    BY <1>1, <1>3, <2>2 DEF CausesOK, p
  <2>. DEFINE states == {task'[r][i] : i \in DOMAIN task'[r]}
  <2>5. states \subseteq {"start"}
    BY <2>1
  <2>. HIDE DEF states
  <2>6. stage'[r] \in {"port", "run"}
    BY <1>6, <1>9
  <2>. QED
    BY <1>9, <2>3, <2>4, <2>5, <2>6 DEF CausesOK, p, states
<1>16. MeasuredOK(r)'
  <2>1. DOMAIN task'[r] = Ranks(p) \/ stage'[r] = "port"
    BY <1>7, <1>8, <1>9
  <2>2. stage'[r] = "run" => task'[r][1] = "start"
    BY <1>7, <1>8, <1>9
  <2>. QED
    BY <1>1, <1>9, <2>2 DEF MeasuredOK
<1>17. AnswerOK(r)'
  BY <1>6, <1>9 DEF AnswerOK
<1>. QED
  BY <1>10, <1>11, <1>12, <1>13, <1>14, <1>15, <1>16, <1>17, StepOfOne DEF RequestOK

LEMMA ChoosePortKeeps ==
  ASSUME TrainerInv, NEW r \in Trainings, ChoosePort(r)
  PROVE  TrainerInv'
<1>. DEFINE p == point[r]
            begun == [i \in Ranks(p) |-> "start"]
<1>1. /\ TrainerTypesOK /\ TokenOK /\ FunctionsOfTrainings /\ LocalTypesOK(r)
      /\ HoldsOK(r) /\ AskedOK(r) /\ CausesOK(r) /\ MeasuredOK(r) /\ AnswerOK(r)
      /\ p \in PointType
  BY InvFacts
<1>2. /\ stage[r] = "port" /\ stage' = [stage EXCEPT ![r] = "run"]
      /\ task' = [task EXCEPT ![r] = begun]
      /\ UNCHANGED <<tokenVars, typed, point, tally, answer, machines, metrics, crashes,
                     causes, clocks>>
  BY DEF ChoosePort, Goes
<1>3. 1 \in Ranks(p) /\ Ranks(p) = 1 .. p.nodes /\ p.nodes \in Nat \ {0}
  BY <1>1, RanksOfOne
<1>. HIDE DEF p
<1>4. /\ begun \in Seq(TaskStates) /\ DOMAIN begun = Ranks(p) /\ begun[1] = "start"
      /\ \A i \in DOMAIN begun : begun[i] = "start"
  BY <1>3 DEF TaskStates
<1>. HIDE DEF begun
<1>5. stage'[r] = "run" /\ task'[r] = begun
  BY <1>1, <1>2 DEF FunctionsOfTrainings
<1>6. Changes(r)
  BY <1>1, <1>2, <1>5 DEF Changes, FunctionsOfTrainings, Local
<1>7. LocalTypesOK(r)'
  BY <1>1, <1>2, <1>4, <1>5 DEF LocalTypesOK, TrainerStages
<1>8. TokenOK'
  BY <1>1, <1>2, TokensUntouched
<1>9. HoldsOK(r)'
  BY <1>1, <1>2, <1>4, <1>5 DEF HoldsOK, p
<1>10. AskedOK(r)'
  BY <1>1, <1>2, <1>5 DEF AskedOK, p
<1>11. CausesOK(r)'
  <2>. DEFINE states == {task'[r][i] : i \in DOMAIN task'[r]}
  <2>1. states \subseteq {"start"}
    BY <1>4, <1>5
  <2>2. {task[r][i] : i \in DOMAIN task[r]} = {}
    BY <1>1, <1>2 DEF HoldsOK
  <2>3. Runs(r)' = Runs(r)
    BY <1>2 DEF Runs
  <2>4. /\ p.method = "train" => causes[r] = {}
        /\ p.method = "full-error" => /\ Runs(r) < SampleRuns
                                      /\ "oom" \in causes[r] <=> tally[r].oom > 0
    BY <1>1, <1>2, <2>2 DEF CausesOK, p
  <2>. HIDE DEF states
  <2>. QED
    BY <1>2, <1>5, <2>1, <2>3, <2>4 DEF CausesOK, p, states
<1>12. MeasuredOK(r)'
  BY <1>1, <1>2, <1>4, <1>5 DEF MeasuredOK
<1>13. AnswerOK(r)'
  BY <1>5 DEF AnswerOK
<1>. QED
  BY <1>6, <1>7, <1>8, <1>9, <1>10, <1>11, <1>12, <1>13, StepOfOne DEF RequestOK

LEMMA PortRaisesKeeps ==
  ASSUME TrainerInv, NEW r \in Trainings, PortRaises(r)
  PROVE  TrainerInv'
<1>1. TokenOK /\ AskedOK(r) /\ point[r] \in PointType
  BY InvFacts
<1>2. /\ stage[r] = "port" /\ Release(r) /\ UNCHANGED <<typed, point, tally, crashes, clocks>>
      /\ Put(r, "failed", NoMetrics) /\ Wrong(r, "other")
  BY DEF PortRaises, Fails
<1>3. Consistent([point[r] EXCEPT !.ep = 0])
  BY <1>1, <1>2, InvalidIsInconsistent DEF AskedOK
<1>4. TokenOK'
  BY <1>1, <1>2, ReleaseKeepsTokens
<1>. QED
  BY <1>2, <1>3, <1>4, WrongRecords, AnsweredUnmeasured

-----------------------------------------------------------------------------
(* The tasks of a request.                                                  *)

LEMMA TasksAreRun ==
  ASSUME TrainerInv, NEW r \in Trainings, NEW i \in DOMAIN task[r]
  PROVE  /\ stage[r] = "run" /\ task[r][i] \in TaskStates
         /\ DOMAIN task[r] = Ranks(point[r]) /\ DOMAIN metrics[r] = Ranks(point[r])
         /\ task[r] = [j \in Ranks(point[r]) |-> task[r][j]]
         /\ metrics[r] = [j \in Ranks(point[r]) |-> metrics[r][j]]
         /\ Ranks(point[r]) \subseteq MachineRanks
         /\ 1 \in Ranks(point[r]) /\ Ranks(point[r]) = 1 .. point[r].nodes
         /\ ~MultiNode(point[r]) => Ranks(point[r]) = {1}
<1>1. /\ LocalTypesOK(r) /\ HoldsOK(r) /\ point[r] \in PointType
  BY InvFacts
<1>2. stage[r] = "run"
  BY <1>1 DEF HoldsOK
<1>3. /\ DOMAIN task[r] = Ranks(point[r]) /\ DOMAIN metrics[r] = Ranks(point[r])
      /\ Ranks(point[r]) \subseteq MachineRanks
  BY <1>1, <1>2 DEF HoldsOK
<1>4. /\ 1 \in Ranks(point[r]) /\ Ranks(point[r]) = 1 .. point[r].nodes
      /\ ~MultiNode(point[r]) => Ranks(point[r]) = {1}
  BY <1>1, RanksOfOne
<1>5. /\ task[r] = [j \in DOMAIN task[r] |-> task[r][j]] /\ task[r][i] \in TaskStates
      /\ metrics[r] = [j \in DOMAIN metrics[r] |-> metrics[r][j]]
  BY <1>1 DEF LocalTypesOK
<1>. QED
  BY <1>2, <1>3, <1>4, <1>5

LEMMA BecomesType ==
  ASSUME TrainerInv, NEW r \in Trainings, NEW i \in DOMAIN task[r], NEW state \in TaskStates,
         task' = [task EXCEPT ![r][i] = state]
  PROVE  /\ task' = [q \in Trainings |-> task'[q]]
         /\ \A q \in Trainings : q # r => task'[q] = task[q]
         /\ task'[r] \in Seq(TaskStates) /\ DOMAIN task'[r] = DOMAIN task[r]
         /\ task'[r][i] = state
         /\ \A j \in DOMAIN task[r] : j # i => task'[r][j] = task[r][j]
<1>1. FunctionsOfTrainings /\ LocalTypesOK(r)
  BY InvFacts
<1>2. task' = [task EXCEPT ![r] = [task[r] EXCEPT ![i] = state]]
  OBVIOUS
<1>3. task'[r] = [task[r] EXCEPT ![i] = state]
  BY <1>1, <1>2 DEF FunctionsOfTrainings
<1>4. task[r] \in Seq(TaskStates)
  BY <1>1 DEF LocalTypesOK
<1>5. /\ task'[r] \in Seq(TaskStates) /\ DOMAIN task'[r] = DOMAIN task[r]
      /\ task'[r][i] = state
      /\ \A j \in DOMAIN task[r] : j # i => task'[r][j] = task[r][j]
  BY <1>3, <1>4
<1>. QED
  BY <1>1, <1>2, <1>5 DEF FunctionsOfTrainings

\* A rank starts to train or fails, and the causes are recorded.
Moves(r, i, state, new) ==
  /\ i \in DOMAIN task[r] /\ task[r][i] \in {"start", "train", "count"}
  /\ state \in {"train", "indivisible", "oom", "failed"}
  /\ task' = [task EXCEPT ![r][i] = state]
  /\ new \in SUBSET {"oom", "other"}
  /\ causes' = [causes EXCEPT ![r] = @ \cup new]
  /\ TokenOK' /\ UNCHANGED <<actuator, machines, crashes, metrics, clocks>>
  /\ state = "indivisible" <=> Indivisible(point[r]) /\ state # "failed"
  /\ state = "oom" <=> "oom" \in new
  /\ state = "failed" => "other" \in new
  /\ new # {} => state \in Errors

LEMMA RankGoesOn ==
  ASSUME TrainerInv, NEW r \in Trainings, NEW i, NEW state, NEW new, Moves(r, i, state, new)
  PROVE  TrainerInv'
<1>0. /\ i \in DOMAIN task[r] /\ task[r][i] \in {"start", "train", "count"}
      /\ state \in {"train", "indivisible", "oom", "failed"}
      /\ task' = [task EXCEPT ![r][i] = state]
      /\ new \in SUBSET {"oom", "other"}
      /\ causes' = [causes EXCEPT ![r] = @ \cup new]
      /\ TokenOK' /\ UNCHANGED <<actuator, machines, crashes, metrics, clocks>>
      /\ state = "indivisible" <=> Indivisible(point[r]) /\ state # "failed"
      /\ state = "oom" <=> "oom" \in new
      /\ state = "failed" => "other" \in new
      /\ new # {} => state \in Errors
  BY DEF Moves
<1>. USE <1>0
<1>. DEFINE p == point[r]
<1>1. /\ TrainerTypesOK /\ TokenOK /\ FunctionsOfTrainings /\ LocalTypesOK(r)
      /\ HoldsOK(r) /\ AskedOK(r) /\ CausesOK(r) /\ MeasuredOK(r) /\ AnswerOK(r)
  BY InvFacts
<1>2. stage[r] = "run" /\ DOMAIN task[r] = Ranks(p) /\ 1 \in Ranks(p)
  BY TasksAreRun
<1>3. state \in TaskStates
  BY DEF TaskStates
<1>4. /\ task' = [q \in Trainings |-> task'[q]]
      /\ \A q \in Trainings : q # r => task'[q] = task[q]
      /\ task'[r] \in Seq(TaskStates) /\ DOMAIN task'[r] = DOMAIN task[r]
      /\ task'[r][i] = state
      /\ \A j \in DOMAIN task[r] : j # i => task'[r][j] = task[r][j]
  BY <1>3, BecomesType
<1>5. /\ causes'[r] = causes[r] \cup new /\ causes' = [q \in Trainings |-> causes'[q]]
      /\ \A q \in Trainings : q # r => causes'[q] = causes[q]
  BY <1>1 DEF FunctionsOfTrainings
<1>6. UNCHANGED <<typed, point, stage, tally, answer, machines, crashes, metrics, clocks>>
  BY DEF actuator
<1>7. Changes(r)
  BY <1>1, <1>4, <1>5, <1>6 DEF Changes, FunctionsOfTrainings, Local
<1>8. LocalTypesOK(r)'
  BY <1>1, <1>4, <1>5, <1>6 DEF LocalTypesOK
<1>9. TokenOK'
  OBVIOUS
<1>10. HoldsOK(r)'
  BY <1>1, <1>2, <1>4, <1>6 DEF HoldsOK
<1>11. AskedOK(r)'
  BY <1>1, <1>6 DEF AskedOK
<1>12. CausesOK(r)'
  <2>. DEFINE states == {task[r][j] : j \in DOMAIN task[r]}
              after == {task'[r][j] : j \in DOMAIN task'[r]}
  <2>1. /\ state \in after /\ after \subseteq states \cup {state}
        /\ \A s \in states : s \notin {"start", "train", "count"} => s \in after
    BY <1>4
  <2>2. task[r][i] \in states
    OBVIOUS
  <2>3. CausesOK(r) <=>
          /\ "oom" \in states => "oom" \in causes[r]
          /\ "failed" \in states => "other" \in causes[r]
          /\ "indivisible" \in states => Indivisible(p)
          /\ states \cap {"train", "count", "ok", "oom"} # {} => ~Indivisible(p)
          /\ p.method = "train" => (causes[r] # {} => states \cap Errors # {})
          /\ p.method = "full-error" =>
               /\ Runs(r) < SampleRuns
               /\ "oom" \in causes[r] <=> tally[r].oom > 0 \/ "oom" \in states
    BY <1>2 DEF CausesOK
  <2>4. Runs(r)' = Runs(r)
    BY <1>6 DEF Runs
  <2>5. CausesOK(r)' <=>
          /\ "oom" \in after => "oom" \in causes'[r]
          /\ "failed" \in after => "other" \in causes'[r]
          /\ "indivisible" \in after => Indivisible(p)
          /\ after \cap {"train", "count", "ok", "oom"} # {} => ~Indivisible(p)
          /\ p.method = "train" => (causes'[r] # {} => after \cap Errors # {})
          /\ p.method = "full-error" =>
               /\ Runs(r) < SampleRuns
               /\ "oom" \in causes'[r] <=> tally[r].oom > 0 \/ "oom" \in after
    BY <1>2, <1>6, <2>4 DEF CausesOK
  <2>. HIDE DEF states, after, p
  <2>6. /\ "oom" \in after => "oom" \in causes'[r]
        /\ "failed" \in after => "other" \in causes'[r]
        /\ "indivisible" \in after => Indivisible(p)
    BY <1>1, <1>5, <2>1, <2>3 DEF p
  <2>7. after \cap {"train", "count", "ok", "oom"} # {} => ~Indivisible(p)
    BY <1>1, <2>1, <2>3 DEF p
  <2>8. p.method = "train" => (causes'[r] # {} => after \cap Errors # {})
    BY <1>1, <1>5, <2>1, <2>3 DEF Errors
  <2>9. p.method = "full-error" =>
          /\ Runs(r) < SampleRuns
          /\ "oom" \in causes'[r] <=> tally[r].oom > 0 \/ "oom" \in after
    BY <1>1, <1>5, <2>1, <2>3
  <2>. QED
    BY <2>5, <2>6, <2>7, <2>8, <2>9
<1>13. MeasuredOK(r)'
  <2>1. task'[r][1] \in {"count", "ok"} => task'[r][1] = task[r][1]
    BY <1>2, <1>4
  <2>2. \A m : MetricsRight(r, m)' <=> MetricsRight(r, m)
    BY <1>6 DEF MetricsRight
  <2>3. \A m : TokensRight(r, m)' <=> TokensRight(r, m)
    BY <1>6 DEF TokensRight
  <2>. QED
    BY <1>1, <1>6, <2>1, <2>2, <2>3 DEF MeasuredOK
<1>14. AnswerOK(r)'
  BY <1>2, <1>6 DEF AnswerOK
<1>. QED
  BY <1>7, <1>8, <1>9, <1>10, <1>11, <1>12, <1>13, <1>14, StepOfOne DEF RequestOK

LEMMA LaunchKeeps ==
  ASSUME TrainerInv, NEW r \in Trainings, NEW i, Launch(r, i)
  PROVE  TrainerInv'
<1>. DEFINE indivisible == point[r].ep > 0 /\ point[r].experts % point[r].ep # 0
<1>1. /\ i \in DOMAIN task[r] /\ task[r][i] \in {"start", "train"}
      /\ TokenOK' /\ UNCHANGED <<actuator, metrics, clocks>>
  BY InvFacts, TokensUntouched DEF Launch
<1>2. indivisible <=> Indivisible(point[r])
  BY DEF Indivisible
<1>3. UNCHANGED causes => causes' = [causes EXCEPT ![r] = @ \cup {}]
  <2>1. FunctionsOfTrainings
    BY InvFacts
  <2>. QED
    BY <2>1 DEF FunctionsOfTrainings
<1>4. CASE indivisible /\ Becomes(r, i, "indivisible") /\ UNCHANGED causes
  <2>1. Moves(r, i, "indivisible", {})
    BY <1>1, <1>2, <1>3, <1>4 DEF Moves, Becomes
  <2>. QED
    BY <2>1, RankGoesOn
<1>5. CASE ~indivisible /\ Becomes(r, i, "train") /\ UNCHANGED causes
  <2>1. Moves(r, i, "train", {})
    BY <1>1, <1>2, <1>3, <1>5 DEF Moves, Becomes
  <2>. QED
    BY <2>1, RankGoesOn
<1>6. CASE ~indivisible /\ Becomes(r, i, "failed") /\ Wrong(r, "other")
  <2>1. Moves(r, i, "failed", {"other"})
    BY <1>1, <1>2, <1>6 DEF Moves, Becomes, Wrong, Errors
  <2>. QED
    BY <2>1, RankGoesOn
<1>. QED
  BY <1>4, <1>5, <1>6 DEF Launch

LEMMA TrainingFailsKeeps ==
  ASSUME TrainerInv, NEW r \in Trainings, NEW i, TrainingFails(r, i)
  PROVE  TrainerInv'
<1>1. /\ i \in DOMAIN task[r] /\ task[r][i] = "train"
      /\ TokenOK' /\ UNCHANGED <<actuator, metrics, clocks>>
  BY InvFacts, TokensUntouched DEF TrainingFails
<1>2. PICK reports \in [Processes(point[r]) -> {"none", "oom", "other"}] :
        /\ Becomes(r, i, Exception(reports))
        /\ Wrong(r, IF "oom" \in Range(reports) THEN "oom" ELSE "other")
  BY DEF TrainingFails
<1>3. "oom" \in Range(reports) <=> \E q \in DOMAIN reports : reports[q] = "oom"
  BY DEF Range
<1>4. ~Indivisible(point[r])
  <2>1. CausesOK(r)
    BY InvFacts
  <2>2. "train" \in {task[r][j] : j \in DOMAIN task[r]}
    BY <1>1
  <2>. QED
    BY <2>1, <2>2 DEF CausesOK
<1>5. CASE "oom" \in Range(reports)
  <2>1. Becomes(r, i, "oom") /\ Wrong(r, "oom")
    BY <1>2, <1>3, <1>5 DEF Exception
  <2>2. Moves(r, i, "oom", {"oom"})
    BY <1>1, <1>4, <2>1 DEF Moves, Becomes, Wrong, Errors
  <2>. QED
    BY <2>2, RankGoesOn
<1>6. CASE "oom" \notin Range(reports)
  <2>1. Becomes(r, i, "failed") /\ Wrong(r, "other")
    BY <1>2, <1>3, <1>6 DEF Exception
  <2>2. Moves(r, i, "failed", {"other"})
    BY <1>1, <1>4, <2>1 DEF Moves, Becomes, Wrong, Errors
  <2>. QED
    BY <2>2, RankGoesOn
<1>. QED
  BY <1>5, <1>6

\* Or it fails when it counts.
LEMMA CountingRaisesKeeps ==
  ASSUME TrainerInv, NEW r \in Trainings, NEW i, CountingRaises(r, i)
  PROVE  TrainerInv'
<1>1. /\ i \in DOMAIN task[r] /\ task[r][i] = "count"
      /\ Becomes(r, i, "failed") /\ Wrong(r, "other")
      /\ counter' = [counter EXCEPT ![<<r, i>>] = Idle]
      /\ UNCHANGED <<dataset, files, replacements, replaced, actuator, metrics, clocks>>
  BY DEF CountingRaises
<1>2. TokenOK'
  <2>1. TokenOK
    BY InvFacts
  <2>2. counter = [c \in Counters |-> counter[c]]
    BY <2>1 DEF TokenOK, TokenTypeOK
  <2>3. /\ counter' = [c \in Counters |-> counter'[c]]
        /\ \A c \in Counters : counter'[c] \in {counter[c], Idle, [Idle EXCEPT !.stage = "look"]}
    BY <1>1, <2>2
  <2>. QED
    BY <1>1, <2>1, <2>3, TokensKept
<1>3. Moves(r, i, "failed", {"other"})
  BY <1>1, <1>2 DEF Moves, Becomes, Wrong, Errors
<1>. QED
  BY <1>3, RankGoesOn

-----------------------------------------------------------------------------
(* Ranks that train and count.                                              *)

\* The tasks T of a request come to the end of what they did.
Advances(r, T, state, ms, cs) ==
  /\ T # {} /\ T \subseteq DOMAIN task[r] /\ \A j \in T : task[r][j] \in {"train", "count"}
  /\ state \in {"count", "ok"}
  /\ task' = [task EXCEPT ![r] = [j \in DOMAIN task[r] |-> IF j \in T THEN state ELSE task[r][j]]]
  /\ ms \in [Ranks(point[r]) -> Metrics] /\ metrics' = [metrics EXCEPT ![r] = ms]
  /\ clocks' = [clocks EXCEPT ![r] = cs]
  /\ UNCHANGED <<actuator, machines, crashes, causes>>

LEMMA AdvanceKeeps ==
  ASSUME TrainerInv, NEW r \in Trainings, NEW T, NEW state, NEW ms, NEW cs,
         Advances(r, T, state, ms, cs), TokenOK', MeasuredOK(r)'
  PROVE  TrainerInv'
<1>. DEFINE p == point[r]
            f == [j \in DOMAIN task[r] |-> IF j \in T THEN state ELSE task[r][j]]
<1>1. /\ TrainerTypesOK /\ TokenOK /\ FunctionsOfTrainings /\ LocalTypesOK(r)
      /\ HoldsOK(r) /\ AskedOK(r) /\ CausesOK(r) /\ AnswerOK(r)
  BY InvFacts
<1>2. /\ T # {} /\ T \subseteq DOMAIN task[r] /\ \A j \in T : task[r][j] \in {"train", "count"}
      /\ state \in {"count", "ok"} /\ task' = [task EXCEPT ![r] = f]
      /\ ms \in [Ranks(p) -> Metrics] /\ metrics' = [metrics EXCEPT ![r] = ms]
      /\ clocks' = [clocks EXCEPT ![r] = cs]
      /\ UNCHANGED <<typed, point, stage, tally, answer, machines, crashes, causes>>
  BY DEF Advances, actuator
<1>3. PICK i : i \in T
  BY <1>2
<1>4. /\ stage[r] = "run" /\ DOMAIN task[r] = Ranks(p) /\ 1 \in Ranks(p)
      /\ Ranks(p) = 1 .. p.nodes
  BY <1>2, <1>3, TasksAreRun
<1>5. /\ f \in Seq(TaskStates) /\ DOMAIN f = Ranks(p)
      /\ \A j \in T : f[j] = state
      /\ \A j \in Ranks(p) \ T : f[j] = task[r][j]
  <2>1. task[r] \in Seq(TaskStates) /\ state \in TaskStates
    BY <1>1, <1>2 DEF LocalTypesOK, TaskStates
  <2>2. \A j \in DOMAIN task[r] : f[j] \in TaskStates
    BY <2>1
  <2>3. f \in Seq(TaskStates)
    <3>1. DOMAIN task[r] = 1 .. Len(task[r]) /\ Len(task[r]) \in Nat
      BY <2>1
    <3>2. f \in [1 .. Len(task[r]) -> TaskStates]
      BY <2>2, <3>1
    <3>. HIDE DEF f
    <3>. QED
      BY <3>1, <3>2
  <2>. QED
    BY <1>2, <1>4, <2>3
<1>6. ms \in Seq(Metrics) /\ DOMAIN ms = Ranks(p)
  <2>1. p.nodes \in Nat
    BY InvFacts DEF PointType
  <2>2. ms \in [1 .. p.nodes -> Metrics]
    BY <1>2, <1>4
  <2>. QED
    BY <1>4, <2>1, <2>2
<1>. HIDE DEF f, p
<1>7. /\ task'[r] = f /\ metrics'[r] = ms
      /\ Changes(r)
  BY <1>1, <1>2 DEF Changes, FunctionsOfTrainings, Local
<1>8. LocalTypesOK(r)'
  BY <1>1, <1>2, <1>5, <1>6, <1>7 DEF LocalTypesOK
<1>9. HoldsOK(r)'
  BY <1>1, <1>2, <1>4, <1>5, <1>6, <1>7 DEF HoldsOK, p
<1>10. AskedOK(r)'
  BY <1>1, <1>2 DEF AskedOK
<1>11. CausesOK(r)'
  <2>. DEFINE states == {task[r][j] : j \in DOMAIN task[r]}
              after == {task'[r][j] : j \in DOMAIN task'[r]}
  <2>1. /\ after \subseteq states \cup {state}
        /\ \A s \in states : s \notin {"train", "count"} => s \in after
    <3>1. after = {f[j] : j \in Ranks(p)} /\ states = {task[r][j] : j \in Ranks(p)}
      BY <1>4, <1>5, <1>7
    <3>. HIDE DEF after, states
    <3>. QED
      BY <1>2, <1>5, <3>1
  <2>2. states \cap {"train", "count"} # {}
    BY <1>2, <1>3
  <2>3. Runs(r)' = Runs(r)
    BY <1>2 DEF Runs
  <2>4. CausesOK(r) <=>
          /\ "oom" \in states => "oom" \in causes[r]
          /\ "failed" \in states => "other" \in causes[r]
          /\ "indivisible" \in states => Indivisible(p)
          /\ states \cap {"train", "count", "ok", "oom"} # {} => ~Indivisible(p)
          /\ p.method = "train" => (causes[r] # {} => states \cap Errors # {})
          /\ p.method = "full-error" =>
               /\ Runs(r) < SampleRuns
               /\ "oom" \in causes[r] <=> tally[r].oom > 0 \/ "oom" \in states
    BY <1>4 DEF CausesOK, p
  <2>5. CausesOK(r)' <=>
          /\ "oom" \in after => "oom" \in causes[r]
          /\ "failed" \in after => "other" \in causes[r]
          /\ "indivisible" \in after => Indivisible(p)
          /\ after \cap {"train", "count", "ok", "oom"} # {} => ~Indivisible(p)
          /\ p.method = "train" => (causes[r] # {} => after \cap Errors # {})
          /\ p.method = "full-error" =>
               /\ Runs(r) < SampleRuns
               /\ "oom" \in causes[r] <=> tally[r].oom > 0 \/ "oom" \in after
    BY <1>2, <1>4, <2>3 DEF CausesOK, p
  <2>. HIDE DEF states, after
  <2>6. ~Indivisible(p)
    BY <1>1, <2>2, <2>4
  <2>7. "oom" \in after <=> "oom" \in states
    BY <1>2, <2>1
  <2>8. "failed" \in after => "failed" \in states
    BY <1>2, <2>1
  <2>9. "indivisible" \in after => "indivisible" \in states
    BY <1>2, <2>1
  <2>10. states \cap Errors # {} => after \cap Errors # {}
    BY <2>1 DEF Errors
  <2>. QED
    BY <1>1, <2>4, <2>5, <2>6, <2>7, <2>8, <2>9, <2>10
<1>12. AnswerOK(r)'
  BY <1>2, <1>4 DEF AnswerOK
<1>. QED
  BY <1>7, <1>8, <1>9, <1>10, <1>11, <1>12, StepOfOne DEF RequestOK

LEMMA CountTokensKeeps ==
  ASSUME TrainerInv, NEW r \in Trainings, NEW i, CountTokens(r, i)
  PROVE  TrainerInv'
<1>. DEFINE p == point[r]
            c == <<r, i>>
            m == metrics[r][i]
            entries == EntriesInOneStep(p)
            batch == p.batch * AtLeastOne(p.accumulation)
            tokens == counter[c].tokens
            x == TokenizeText(tokens, entries * (m.warmup + m.steps), entries * m.warmup)
            ms == [metrics[r] EXCEPT ![i].tokens = x]
<1>1. /\ TrainerTypesOK /\ TokenOK /\ FunctionsOfTrainings /\ LocalTypesOK(r)
      /\ HoldsOK(r) /\ AskedOK(r) /\ MeasuredOK(r) /\ p \in PointType
  BY InvFacts
<1>2. /\ c \in Counters /\ i \in DOMAIN task[r] /\ task[r][i] = "count"
      /\ counter[c].stage = "counted"
      /\ metrics' = [metrics EXCEPT ![r][i].tokens = x]
      /\ task' = [task EXCEPT ![r][i] = "ok"] /\ UNCHANGED <<machines, crashes>>
      /\ counter' = [counter EXCEPT ![c] = Idle]
      /\ UNCHANGED <<dataset, files, replacements, replaced, actuator, causes, clocks>>
  BY DEF CountTokens, Becomes
<1>3. /\ stage[r] = "run" /\ DOMAIN task[r] = Ranks(p) /\ DOMAIN metrics[r] = Ranks(p)
      /\ 1 \in Ranks(p)
  BY <1>2, TasksAreRun
<1>4. metrics[r] \in [Ranks(p) -> Metrics] /\ m \in Metrics
  BY <1>1, <1>2, <1>3 DEF LocalTypesOK
<1>5. /\ m.warmup \in Nat /\ m.steps \in Nat
      /\ entries = batch /\ entries \in Nat
  <2>1. ~Invalid(p)
    BY <1>1, <1>3 DEF AskedOK
  <2>. QED
    BY <1>1, <1>4, <2>1, StepsTakeBatches DEF Metrics
<1>6. PICK v \in Versions : tokens = Tokens[v]
  <2>1. CounterOK(c)
    BY <1>1, <1>2 DEF TokenOK, TokensOK
  <2>2. tokens # <<>>
    BY <1>2, <2>1 DEF CounterOK
  <2>3. tokens \in {<<>>} \cup {Tokens[w] : w \in Versions}
    BY <1>1, <1>2 DEF TokenOK, TokenTypeOK
  <2>. QED
    BY <2>2, <2>3
<1>7. /\ x = TokensBetween(Tokens[v], batch * m.warmup, batch * (m.warmup + m.steps))
      /\ x \in Int
  <2>. DEFINE skip == batch * m.warmup
              all == batch * (m.warmup + m.steps)
  <2>1. skip \in Nat /\ all \in Nat /\ skip <= all
    <3>. HIDE DEF batch
    <3>1. batch * m.steps \in Nat /\ batch * m.warmup \in Nat
      BY <1>5
    <3>2. all = skip + batch * m.steps
      BY <1>5
    <3>. QED
      BY <3>1, <3>2
  <2>2. Tokens[v] \in Seq(Nat) /\ Tokens[v] # <<>>
    BY TokensAssumption
  <2>3. x = TokenizeText(Tokens[v], all, skip)
    BY <1>5, <1>6
  <2>. HIDE DEF x, skip, all
  <2>4. x = TokensBetween(Tokens[v], skip, all) /\ x \in Int
    BY <2>1, <2>2, <2>3, TokensAreCounted
  <2>. QED
    BY <2>4 DEF skip, all
<1>8. /\ ms \in [Ranks(p) -> Metrics] /\ \A j \in Ranks(p) : j # i => ms[j] = metrics[r][j]
      /\ ms[i].steps = m.steps /\ ms[i].warmup = m.warmup /\ ms[i].tokens = x
  <2>. HIDE DEF x
  <2>1. [m EXCEPT !.tokens = x] \in Metrics
    BY <1>4, <1>7 DEF Metrics
  <2>2. ms = [metrics[r] EXCEPT ![i] = [m EXCEPT !.tokens = x]]
    OBVIOUS
  <2>3. /\ [m EXCEPT !.tokens = x].steps = m.steps /\ [m EXCEPT !.tokens = x].warmup = m.warmup
        /\ [m EXCEPT !.tokens = x].tokens = x
    BY <1>4 DEF Metrics
  <2>. HIDE DEF m
  <2>. QED
    BY <1>2, <1>3, <1>4, <2>1, <2>2, <2>3
<1>9. metrics' = [metrics EXCEPT ![r] = ms] /\ metrics'[r] = ms
  <2>. HIDE DEF x
  <2>. QED
    BY <1>1, <1>2 DEF FunctionsOfTrainings
<1>. HIDE DEF x, ms, p
<1>10. /\ task' = [task EXCEPT ![r] = [j \in DOMAIN task[r] |-> IF j \in {i} THEN "ok" ELSE task[r][j]]]
       /\ task'[r] = [j \in DOMAIN task[r] |-> IF j \in {i} THEN "ok" ELSE task[r][j]]
  <2>1. task[r] = [j \in DOMAIN task[r] |-> task[r][j]]
    BY <1>1 DEF LocalTypesOK
  <2>2. task' = [task EXCEPT ![r] = [task[r] EXCEPT ![i] = "ok"]]
    BY <1>2
  <2>3. [task[r] EXCEPT ![i] = "ok"] = [j \in DOMAIN task[r] |-> IF j \in {i} THEN "ok" ELSE task[r][j]]
    BY <1>2, <2>1
  <2>. QED
    BY <1>1, <2>2, <2>3 DEF FunctionsOfTrainings
<1>11. clocks' = [clocks EXCEPT ![r] = clocks[r]]
  BY <1>1, <1>2 DEF FunctionsOfTrainings
<1>12. Advances(r, {i}, "ok", ms, clocks[r])
  BY <1>2, <1>8, <1>9, <1>10, <1>11 DEF Advances, p
<1>13. TokenOK'
  <2>1. counter = [d \in Counters |-> counter[d]]
    BY <1>1 DEF TokenOK, TokenTypeOK
  <2>2. counter' = [d \in Counters |-> counter'[d]]
    BY <1>2, <2>1
  <2>3. \A d \in Counters : counter'[d] \in {counter[d], Idle, [Idle EXCEPT !.stage = "look"]}
    BY <1>2, <2>1
  <2>. QED
    BY <1>1, <1>2, <2>2, <2>3, TokensKept
<1>14. PICK first : first = ms[1]
  OBVIOUS
<1>15. MeasuredOK(r)'
  <2>1. UNCHANGED <<point, clocks, stage>>
    BY <1>2 DEF actuator
  <2>2. SUFFICES ASSUME TrainsTogether(p)
                 PROVE  /\ DOMAIN clocks[r] \subseteq Ranks(p)
                        /\ task'[r][1] \in {"count", "ok"} => MetricsRight(r, first)'
                        /\ task'[r][1] = "ok" => TokensRight(r, first)'
    BY <1>9, <1>14, <2>1 DEF MeasuredOK, p
  <2>3. /\ DOMAIN clocks[r] \subseteq Ranks(p)
        /\ task[r][1] \in {"count", "ok"} => MetricsRight(r, metrics[r][1])
        /\ task[r][1] = "ok" => TokensRight(r, metrics[r][1])
    BY <1>1, <1>3, <2>2 DEF MeasuredOK, p
  <2>4. /\ MetricsRight(r, first)' <=> MetricsRight(r, first)
        /\ TokensRight(r, first)' <=> TokensRight(r, first)
    BY <2>1 DEF MetricsRight, TokensRight
  <2>5. CASE i = 1
    <3>1. MetricsRight(r, m)
      BY <1>2, <2>3, <2>5
    <3>2. MetricsRight(r, first)
      BY <1>8, <1>14, <2>5, <3>1 DEF MetricsRight, StoppedWhenEnough
    <3>3. TokensRight(r, first)
      BY <1>7, <1>8, <1>14, <2>5 DEF TokensRight, p
    <3>. QED
      BY <2>3, <2>4, <3>2, <3>3
  <2>6. CASE i # 1
    <3>1. first = metrics[r][1] /\ task'[r][1] = task[r][1]
      BY <1>3, <1>8, <1>10, <1>14, <2>6
    <3>. QED
      BY <2>3, <2>4, <3>1
  <2>. QED
    BY <2>5, <2>6
<1>. QED
  BY <1>12, <1>13, <1>15, AdvanceKeeps

LEMMA TrainingEndsKeeps ==
  ASSUME TrainerInv, NEW r \in Trainings, NEW i, TrainingEnds(r, i)
  PROVE  TrainerInv'
<1>. DEFINE p == point[r]
            T == Together(r, i)
            Ks == IF p.auto THEN Clocks ELSE {<<>>}
            ends == IF p.method = "full-error" THEN "ok" ELSE "count"
            Started == [Idle EXCEPT !.stage = "look"]
<1>1. /\ TrainerTypesOK /\ TokenOK /\ FunctionsOfTrainings /\ LocalTypesOK(r)
      /\ HoldsOK(r) /\ MeasuredOK(r) /\ p \in PointType
  BY InvFacts
<1>2. PICK cs \in [T -> Ks] :
        LET steps == IF p.auto THEN StopsAfter(cs) ELSE MaxSteps
            warmup(j) == IF p.auto THEN WarmupSteps(cs[j], steps) ELSE 0
        IN  /\ clocks' = [clocks EXCEPT ![r] = Updated(@, cs)]
            /\ metrics' = [metrics EXCEPT ![r] = Updated(@, [j \in DOMAIN cs |->
                 [steps |-> steps - warmup(j), warmup |-> warmup(j), tokens |-> 0]])]
  BY DEF TrainingEnds
<1>. DEFINE steps == IF p.auto THEN StopsAfter(cs) ELSE MaxSteps
            warmup(j) == IF p.auto THEN WarmupSteps(cs[j], steps) ELSE 0
            M == [j \in T |-> [steps |-> steps - warmup(j), warmup |-> warmup(j), tokens |-> 0]]
            ms == [j \in Ranks(p) |-> IF j \in T THEN M[j] ELSE metrics[r][j]]
            cr == Updated(clocks[r], cs)
<1>3. /\ i \in DOMAIN task[r] /\ \A j \in T : task[r][j] = "train"
      /\ task' = [task EXCEPT ![r] = Updated(task[r], [j \in T |-> ends])]
      /\ counter' = [c \in Counters |->
            IF ends = "count" /\ c[1] = r /\ c[2] \in T THEN Started ELSE counter[c]]
      /\ UNCHANGED <<dataset, files, replacements, replaced, actuator, machines, crashes, causes>>
      /\ clocks' = [clocks EXCEPT ![r] = cr]
      /\ metrics' = [metrics EXCEPT ![r] = Updated(metrics[r], M)]
  BY <1>2 DEF TrainingEnds
<1>4. /\ stage[r] = "run" /\ DOMAIN task[r] = Ranks(p) /\ DOMAIN metrics[r] = Ranks(p)
      /\ 1 \in Ranks(p) /\ Ranks(p) = 1 .. p.nodes
      /\ ~MultiNode(p) => Ranks(p) = {1}
      /\ task[r] = [j \in Ranks(p) |-> task[r][j]]
      /\ metrics[r] = [j \in Ranks(p) |-> metrics[r][j]]
  BY <1>3, TasksAreRun
<1>5. T \subseteq Ranks(p) /\ i \in T /\ T \in SUBSET Ranks(p)
  BY <1>3, <1>4 DEF Together
<1>6. TrainsTogether(p) => T = Ranks(p)
  <2>1. /\ Backend(p) = "none" => T = {i}
        /\ Backend(p) # "none" => T = Ranks(p)
    BY <1>4 DEF Together
  <2>2. TrainsTogether(p) => (MultiNode(p) => Backend(p) # "none")
    BY DEF TrainsTogether
  <2>3. ~MultiNode(p) => Ranks(p) = {1}
    BY <1>4
  <2>. HIDE DEF p, T, Ks, M, ms, steps, cr
  <2>. QED
    BY <1>5, <2>1, <2>2, <2>3
<1>7. Updated(task[r], [j \in T |-> ends]) =
        [j \in DOMAIN task[r] |-> IF j \in T THEN ends ELSE task[r][j]]
  <2>1. DOMAIN task[r] \cup T = DOMAIN task[r]
    BY <1>4, <1>5
  <2>. HIDE DEF T, ends, p
  <2>. QED
    BY <2>1 DEF Updated
<1>8. Updated(metrics[r], M) = ms
  <2>1. DOMAIN M = T
    OBVIOUS
  <2>2. DOMAIN metrics[r] \cup T = Ranks(p)
    BY <1>4, <1>5
  <2>. HIDE DEF M, T, p
  <2>. QED
    BY <2>1, <2>2 DEF Updated
<1>9. /\ p.auto => cs \in [T -> Durations]
      /\ p.auto \in BOOLEAN
  BY <1>1, <1>2, TrainerAssumption DEF Durations, PointType
<1>10. /\ p.auto => /\ steps = StopsAfter(cs)
                    /\ \A j \in T : warmup(j) = WarmupSteps(cs[j], steps)
       /\ ~p.auto => steps = MaxSteps /\ \A j \in T : warmup(j) = 0
  OBVIOUS
<1>. HIDE DEF steps, warmup, T
<1>11. p.auto =>
         /\ steps \in 1 .. MaxSteps
         /\ (\A j \in T : Enough(cs[j], steps)) \/ steps = MaxSteps
         /\ \A s \in 1 .. steps - 1 : ~(\A j \in T : Enough(cs[j], s))
         /\ \A j \in T : /\ warmup(j) \in Nat /\ steps - warmup(j) \in Nat
                         /\ Enough(cs[j], steps) => warmup(j) = Cardinality(Warmup(cs[j], steps))
  <2>. SUFFICES ASSUME p.auto
                PROVE  /\ steps \in 1 .. MaxSteps
                       /\ (\A j \in T : Enough(cs[j], steps)) \/ steps = MaxSteps
                       /\ \A s \in 1 .. steps - 1 : ~(\A j \in T : Enough(cs[j], s))
                       /\ \A j \in T :
                            /\ warmup(j) \in Nat /\ steps - warmup(j) \in Nat
                            /\ Enough(cs[j], steps) =>
                                 warmup(j) = Cardinality(Warmup(cs[j], steps))
    OBVIOUS
  <2>1. cs \in [T -> Durations] /\ steps = StopsAfter(cs)
    BY <1>9, <1>10
  <2>2. /\ steps \in 1 .. MaxSteps
        /\ (\A j \in T : Enough(cs[j], steps)) \/ steps = MaxSteps
        /\ \A s \in 1 .. steps - 1 : ~(\A j \in T : Enough(cs[j], s))
    BY <2>1, StopsWhenAllHaveEnough
  <2>3. ASSUME NEW j \in T
        PROVE  /\ warmup(j) \in Nat /\ steps - warmup(j) \in Nat
               /\ Enough(cs[j], steps) => warmup(j) = Cardinality(Warmup(cs[j], steps))
    <3>1. cs[j] \in Durations /\ warmup(j) = WarmupSteps(cs[j], steps)
      BY <1>10, <2>1
    <3>. QED
      BY <2>2, <3>1, WarmupStepsOfEnough
  <2>. QED
    BY <2>2, <2>3
<1>12. \A j \in T : warmup(j) \in Nat /\ steps - warmup(j) \in Nat
  BY <1>9, <1>10, <1>11, AutoStopAssumption
<1>13. ms \in [Ranks(p) -> Metrics]
  <2>1. \A j \in T : M[j] \in Metrics
    BY <1>12 DEF Metrics
  <2>2. \A j \in Ranks(p) : metrics[r][j] \in Metrics
    <3>1. metrics[r] \in Seq(Metrics) /\ DOMAIN metrics[r] = Ranks(p)
      BY <1>1, <1>4 DEF LocalTypesOK
    <3>. HIDE DEF p
    <3>. QED
      BY <3>1
  <2>. HIDE DEF M
  <2>. QED
    BY <2>1, <2>2
<1>131. \A j \in T : ms[j].warmup = warmup(j) /\ ms[j].steps = steps - warmup(j)
  BY <1>5
<1>14. Advances(r, T, ends, ms, cr)
  BY <1>3, <1>4, <1>5, <1>7, <1>8, <1>13 DEF Advances
<1>15. TokenOK'
  <2>1. counter' = [c \in Counters |-> counter'[c]]
    BY <1>3
  <2>2. \A c \in Counters : counter'[c] \in {counter[c], Idle, [Idle EXCEPT !.stage = "look"]}
    BY <1>3
  <2>. QED
    BY <1>1, <1>3, <2>1, <2>2, TokensKept
<1>16. /\ metrics'[r] = ms /\ clocks'[r] = cr
       /\ \A j \in T : task'[r][j] = ends
       /\ UNCHANGED <<point, stage>>
  BY <1>1, <1>3, <1>4, <1>5, <1>7, <1>8 DEF FunctionsOfTrainings, actuator
<1>17. PICK first : first = ms[1]
  OBVIOUS
<1>171. p.method = "train" => ends = "count"
  OBVIOUS
<1>. HIDE DEF p, ends, ms, M, cr, Ks
<1>18. MeasuredOK(r)'
  <2>1. SUFFICES ASSUME TrainsTogether(p)
                 PROVE  /\ DOMAIN clocks'[r] \subseteq Ranks(p)
                        /\ MetricsRight(r, first)' /\ task'[r][1] # "ok"
    BY <1>16, <1>17 DEF MeasuredOK, p
  <2>2. T = Ranks(p) /\ p.method = "train" /\ DOMAIN clocks[r] \subseteq Ranks(p)
    BY <1>1, <1>6, <2>1 DEF MeasuredOK, TrainsTogether, p
  <2>3. cr = cs /\ DOMAIN cs = Ranks(p)
    <3>1. DOMAIN cs = Ranks(p) /\ cs = [j \in Ranks(p) |-> cs[j]]
      BY <1>2, <2>2
    <3>2. DOMAIN clocks[r] \cup Ranks(p) = Ranks(p)
      BY <2>2
    <3>. QED
      BY <3>1, <3>2 DEF Updated, cr
  <2>4. clocks'[r] = cs /\ task'[r][1] = "count"
    BY <1>4, <1>16, <1>171, <2>2, <2>3
  <2>5. first.warmup = warmup(1) /\ first.steps = steps - warmup(1)
    BY <1>4, <1>131, <1>17, <2>2
  <2>6. p.auto => StoppedWhenEnough(cs, first)
    <3>1. SUFFICES ASSUME p.auto PROVE StoppedWhenEnough(cs, first)
      OBVIOUS
    <3>2. first.warmup + first.steps = steps
      BY <1>4, <1>11, <2>2, <2>5, <3>1
    <3>. QED
      BY <1>4, <1>11, <2>2, <2>3, <2>5, <3>1, <3>2 DEF StoppedWhenEnough
  <2>7. MetricsRight(r, first)'
    BY <1>16, <2>4, <2>6 DEF MetricsRight, p
  <2>. QED
    BY <2>3, <2>4, <2>7
<1>. QED
  BY <1>14, <1>15, <1>18, AdvanceKeeps

-----------------------------------------------------------------------------
(* How a request leaves the cluster.                                        *)

LEMMA RunRaisesKeeps ==
  ASSUME TrainerInv, NEW r \in Trainings, RanksRaise(r)
  PROVE  TrainerInv'
<1>. DEFINE p == point[r]
<1>1. /\ TokenOK /\ HoldsOK(r) /\ AskedOK(r) /\ CausesOK(r) /\ p \in PointType
  BY InvFacts
<1>2. PICK i \in DOMAIN task[r] :
        task[r][i] \in Errors /\ Put(r, StatusOf(task[r][i]), NoMetrics)
  BY DEF RanksRaise
<1>3. /\ stage[r] = "run" /\ Release(r) /\ clocks' = [clocks EXCEPT ![r] = <<>>]
      /\ UNCHANGED <<typed, point, tally, crashes>> /\ causes' = causes
  BY DEF RanksRaise, Answerable
<1>4. TokenOK'
  BY <1>1, <1>3, ReleaseKeepsTokens
<1>5. ~Invalid(p)
  BY <1>1, <1>3 DEF AskedOK
<1>6. task[r][i] \in {task[r][j] : j \in DOMAIN task[r]}
  OBVIOUS
<1>7. CASE task[r][i] = "failed"
  <2>1. "other" \in causes[r]
    BY <1>1, <1>6, <1>7 DEF CausesOK
  <2>2. Consistent([p EXCEPT !.ep = 0])
    BY <1>1, <1>5, InvalidIsInconsistent
  <2>3. Put(r, "failed", NoMetrics)
    BY <1>2, <1>7 DEF StatusOf
  <2>. QED
    BY <1>3, <1>4, <2>1, <2>2, <2>3, AnsweredUnmeasured
<1>8. CASE task[r][i] \in {"oom", "indivisible"}
  <2>1. "oom" \in causes[r] \/ Indivisible(p)
    BY <1>1, <1>6, <1>8 DEF CausesOK
  <2>2. ~Consistent(p) \/ "oom" \in causes[r]
    BY <1>1, <2>1, InvalidIsInconsistent
  <2>3. Put(r, "invalid", NoMetrics)
    BY <1>2, <1>8 DEF StatusOf
  <2>. QED
    BY <1>3, <1>4, <2>2, <2>3, AnsweredUnmeasured
<1>. QED
  BY <1>2, <1>7, <1>8 DEF Errors

\* A request leaves the cluster, answered or not.
LEMMA LeavesKeeps ==
  ASSUME TrainerInv, NEW r \in Trainings, NEW to \in {"place", "answered"},
         NEW a \in Answers \cup {Nothing}, NEW t \in Tallies, Release(r),
         stage' = [stage EXCEPT ![r] = to], answer' = [answer EXCEPT ![r] = a],
         tally' = [tally EXCEPT ![r] = t], a = Nothing <=> to # "answered",
         UNCHANGED <<typed, point, crashes, causes, clocks>>,
         AskedOK(r)', CausesOK(r)', AnswerOK(r)'
  PROVE  TrainerInv'
<1>1. /\ TrainerTypesOK /\ TokenOK /\ FunctionsOfTrainings /\ LocalTypesOK(r) /\ MeasuredOK(r)
  BY InvFacts
<1>2. /\ machines' = [machines EXCEPT ![r] = <<>>] /\ task' = [task EXCEPT ![r] = <<>>]
      /\ metrics' = [metrics EXCEPT ![r] = <<>>]
  BY DEF Release
<1>3. /\ stage'[r] = to /\ answer'[r] = a /\ tally'[r] = t
      /\ machines'[r] = <<>> /\ task'[r] = <<>> /\ metrics'[r] = <<>>
  BY <1>1, <1>2 DEF FunctionsOfTrainings
<1>4. Changes(r)
  BY <1>1, <1>2 DEF Changes, FunctionsOfTrainings, Local
<1>5. LocalTypesOK(r)'
  <2>1. \A S : <<>> \in Seq(S)
    OBVIOUS
  <2>. QED
    BY <1>1, <1>3, <2>1 DEF LocalTypesOK, TrainerStages
<1>6. TokenOK'
  BY <1>1, ReleaseKeepsTokens
<1>7. HoldsOK(r)'
  BY <1>3 DEF HoldsOK
<1>8. MeasuredOK(r)'
  BY <1>1, <1>3 DEF MeasuredOK
<1>. QED
  BY <1>4, <1>5, <1>6, <1>7, <1>8, StepOfOne DEF RequestOK

LEMMA RunReturnsKeeps ==
  ASSUME TrainerInv, NEW r \in Trainings, RanksReturn(r)
  PROVE  TrainerInv'
<1>. DEFINE p == point[r]
            m == metrics[r][1]
<1>1. /\ TrainerTypesOK /\ TokenOK /\ FunctionsOfTrainings /\ LocalTypesOK(r)
      /\ HoldsOK(r) /\ AskedOK(r) /\ CausesOK(r) /\ MeasuredOK(r) /\ p \in PointType
  BY InvFacts
<1>2. /\ stage[r] = "run" /\ p.method = "train" /\ \A i \in DOMAIN task[r] : task[r][i] = "ok"
      /\ Release(r) /\ UNCHANGED <<typed, point, tally, crashes>>
  BY DEF RanksReturn, Answerable
<1>3. TokenOK' /\ ~Invalid(p)
  BY <1>1, <1>2, ReleaseKeepsTokens DEF AskedOK
<1>4. CASE Fails(r) /\ clocks' = [clocks EXCEPT ![r] = <<>>]
  <2>1. Consistent([p EXCEPT !.ep = 0])
    BY <1>1, <1>3, InvalidIsInconsistent
  <2>2. Put(r, "failed", NoMetrics) /\ Wrong(r, "other")
    BY <1>4 DEF Fails
  <2>. QED
    BY <1>2, <1>3, <1>4, <2>1, <2>2, WrongRecords, AnsweredUnmeasured
<1>5. CASE Put(r, "valid", m) /\ UNCHANGED causes /\ UNCHANGED clocks
  <2>1. /\ DOMAIN task[r] = Ranks(p) /\ DOMAIN metrics[r] = Ranks(p) /\ 1 \in Ranks(p)
        /\ task[r][1] = "ok"
    BY <1>1, <1>2, RanksOfOne DEF HoldsOK
  <2>2. m \in Metrics
    BY <1>1, <2>1 DEF LocalTypesOK
  <2>3. {task[r][i] : i \in DOMAIN task[r]} = {"ok"}
    BY <1>2, <2>1
  <2>4. ~Indivisible(p) /\ causes[r] = {}
    BY <1>1, <1>2, <2>3 DEF CausesOK, Errors
  <2>5. Consistent(p)
    BY <1>1, <1>3, <2>4, InvalidIsInconsistent
  <2>6. TrainsTogether(p) => MetricsRight(r, m) /\ TokensRight(r, m)
    BY <1>1, <1>2, <2>1 DEF MeasuredOK
  <2>7. PICK first : first = m
    OBVIOUS
  <2>8. /\ answer' = [answer EXCEPT ![r] = [status |-> "valid", result |-> first]]
        /\ answer'[r].status = "valid" /\ answer'[r].result = first
        /\ stage' = [stage EXCEPT ![r] = "answered"] /\ stage'[r] = "answered"
    BY <1>1, <1>5, <2>7 DEF Put, Goes, FunctionsOfTrainings
  <2>9. AnswerOK(r)'
    <3>1. /\ MetricsRight(r, first)' <=> MetricsRight(r, first)
          /\ TokensRight(r, first)' <=> TokensRight(r, first)
      BY <1>2, <1>5 DEF MetricsRight, TokensRight
    <3>2. UNCHANGED <<causes, point>> /\ answer'[r].status = "valid" /\ answer'[r].result = first
      BY <1>2, <1>5, <2>8
    <3>3. TrainsTogether(p) => MetricsRight(r, first)' /\ TokensRight(r, first)'
      BY <2>6, <2>7, <3>1
    <3>. HIDE DEF m
    <3>. QED
      BY <1>2, <2>4, <2>5, <3>2, <3>3 DEF AnswerOK
  <2>10. AskedOK(r)' /\ CausesOK(r)'
    <3>1. /\ task'[r] = <<>> /\ causes'[r] = {}
      BY <1>1, <1>2, <1>5, <2>4 DEF Release, FunctionsOfTrainings
    <3>2. {task'[r][i] : i \in DOMAIN task'[r]} = {}
      BY <3>1
    <3>. QED
      BY <2>8, <3>1, <3>2 DEF AskedOK, CausesOK
  <2>11. /\ [status |-> "valid", result |-> first] \in Answers
         /\ [status |-> "valid", result |-> first] # Nothing
    <3>1. [status |-> "valid", result |-> first] \in Answers
      BY <2>2, <2>7 DEF Answers
    <3>. QED
      BY <3>1, NothingAssumption
  <2>12. tally' = [tally EXCEPT ![r] = tally[r]] /\ tally[r] \in Tallies
    BY <1>1, <1>2 DEF FunctionsOfTrainings, LocalTypesOK
  <2>. HIDE DEF m, p
  <2>13. UNCHANGED <<typed, point, crashes, causes, clocks>>
    BY <1>2, <1>5
  <2>. QED
    BY <1>2, <2>8, <2>9, <2>10, <2>11, <2>12, <2>13, LeavesKeeps
<1>. QED
  BY <1>4, <1>5 DEF RanksReturn

LEMMA SampleRunEndsKeeps ==
  ASSUME TrainerInv, NEW r \in Trainings, SampleRunEnds(r)
  PROVE  TrainerInv'
<1>. DEFINE p == point[r]
            a == [status |-> "valid", result |-> NoMetrics]
<1>1. /\ TrainerTypesOK /\ TokenOK /\ FunctionsOfTrainings /\ LocalTypesOK(r)
      /\ HoldsOK(r) /\ AskedOK(r) /\ CausesOK(r) /\ p \in PointType
  BY InvFacts
<1>2. /\ stage[r] = "run" /\ p.method = "full-error" /\ Release(r)
      /\ UNCHANGED <<typed, point, crashes, causes, clocks>>
  BY DEF SampleRunEnds
<1>3. ~Invalid(p) /\ ~MultiNode(p)
  BY <1>1, <1>2 DEF AskedOK
<1>4. {task[r][i] : i \in DOMAIN task[r]} = {task[r][1]}
  BY <1>1, <1>2, <1>3, RanksOfOne DEF HoldsOK
<1>5. /\ Runs(r) < SampleRuns /\ Runs(r) = tally[r].oom + tally[r].other + tally[r].none
      /\ "oom" \in causes[r] <=> tally[r].oom > 0 \/ task[r][1] = "oom"
  <2>1. /\ Runs(r) < SampleRuns
        /\ "oom" \in causes[r] <=> tally[r].oom > 0 \/ "oom" \in {task[r][i] : i \in DOMAIN task[r]}
    BY <1>1, <1>2 DEF CausesOK
  <2>. QED
    BY <1>4, <2>1 DEF Runs
<1>6. /\ tally[r].oom \in Nat /\ tally[r].other \in Nat /\ tally[r].none \in Nat
      /\ tally[r] \in Tallies /\ SampleRuns \in Nat
  BY <1>1, TrainerAssumption DEF LocalTypesOK, Tallies
<1>7. PICK t \in Tallies :
        /\ tally' = [tally EXCEPT ![r] = t]
        /\ t.oom + t.other + t.none = Runs(r) + 1
        /\ t.oom > 0 <=> "oom" \in causes[r]
  <2>1. CASE task[r][1] = "oom" /\ tally' = [tally EXCEPT ![r].oom = @ + 1]
    <3>. DEFINE t == [tally[r] EXCEPT !.oom = tally[r].oom + 1]
    <3>1. tally' = [tally EXCEPT ![r] = t]
      BY <2>1
    <3>2. /\ t \in Tallies /\ t.oom = tally[r].oom + 1 /\ t.other = tally[r].other
          /\ t.none = tally[r].none
      BY <1>6 DEF Tallies
    <3>. HIDE DEF t
    <3>3. t.oom + t.other + t.none = Runs(r) + 1
      BY <1>5, <1>6, <3>2
    <3>4. t.oom > 0 <=> "oom" \in causes[r]
      <4>1. tally[r].oom + 1 > 0 /\ (tally[r].oom > 0 \/ tally[r].oom = 0)
        BY <1>6
      <4>. QED
        BY <1>5, <2>1, <3>2, <4>1
    <3>. QED
      BY <3>1, <3>2, <3>3, <3>4
  <2>2. CASE /\ task[r][1] \in {"indivisible", "failed"}
             /\ tally' = [tally EXCEPT ![r].other = @ + 1]
    <3>. DEFINE t == [tally[r] EXCEPT !.other = tally[r].other + 1]
    <3>1. tally' = [tally EXCEPT ![r] = t]
      BY <2>2
    <3>2. /\ t \in Tallies /\ t.oom = tally[r].oom /\ t.other = tally[r].other + 1
          /\ t.none = tally[r].none
      BY <1>6 DEF Tallies
    <3>. HIDE DEF t
    <3>3. t.oom + t.other + t.none = Runs(r) + 1
      BY <1>5, <1>6, <3>2
    <3>4. t.oom > 0 <=> "oom" \in causes[r]
      <4>1. tally[r].oom + 1 > 0 /\ (tally[r].oom > 0 \/ tally[r].oom = 0)
        BY <1>6
      <4>. QED
        BY <1>5, <2>2, <3>2, <4>1
    <3>. QED
      BY <3>1, <3>2, <3>3, <3>4
  <2>3. CASE task[r][1] = "ok" /\ tally' = [tally EXCEPT ![r].none = @ + 1]
    <3>. DEFINE t == [tally[r] EXCEPT !.none = tally[r].none + 1]
    <3>1. tally' = [tally EXCEPT ![r] = t]
      BY <2>3
    <3>2. /\ t \in Tallies /\ t.oom = tally[r].oom /\ t.other = tally[r].other
          /\ t.none = tally[r].none + 1
      BY <1>6 DEF Tallies
    <3>. HIDE DEF t
    <3>3. t.oom + t.other + t.none = Runs(r) + 1
      BY <1>5, <1>6, <3>2
    <3>4. t.oom > 0 <=> "oom" \in causes[r]
      <4>1. tally[r].oom + 1 > 0 /\ (tally[r].oom > 0 \/ tally[r].oom = 0)
        BY <1>6
      <4>. QED
        BY <1>5, <2>3, <3>2, <4>1
    <3>. QED
      BY <3>1, <3>2, <3>3, <3>4
  <2>. QED
    BY <2>1, <2>2, <2>3 DEF SampleRunEnds
<1>8. /\ tally'[r] = t /\ task'[r] = <<>> /\ {task'[r][i] : i \in DOMAIN task'[r]} = {}
      /\ Runs(r)' = Runs(r) + 1
  <2>1. tally'[r] = t /\ task'[r] = <<>>
    BY <1>1, <1>2, <1>7 DEF Release, FunctionsOfTrainings
  <2>2. Runs(r)' = t.oom + t.other + t.none
    BY <2>1 DEF Runs
  <2>. QED
    BY <1>7, <2>1, <2>2
<1>9. Runs(r) \in Nat
  BY <1>5, <1>6
<1>10. CASE Runs(r) + 1 < SampleRuns /\ Goes(r, "place") /\ UNCHANGED answer
  <2>1. stage' = [stage EXCEPT ![r] = "place"] /\ stage'[r] = "place"
    BY <1>1, <1>10 DEF Goes, FunctionsOfTrainings
  <2>2. answer' = [answer EXCEPT ![r] = Nothing]
    BY <1>1, <1>2, <1>10 DEF HoldsOK, FunctionsOfTrainings
  <2>3. AskedOK(r)'
    BY <1>2, <1>3, <2>1 DEF AskedOK
  <2>4. CausesOK(r)'
    BY <1>2, <1>7, <1>8, <1>10, <2>1 DEF CausesOK
  <2>5. AnswerOK(r)'
    BY <2>1 DEF AnswerOK
  <2>. QED
    BY <1>2, <1>7, <2>1, <2>2, <2>3, <2>4, <2>5, LeavesKeeps
<1>11. CASE ~(Runs(r) + 1 < SampleRuns) /\ Put(r, "valid", NoMetrics)
  <2>1. /\ stage' = [stage EXCEPT ![r] = "answered"] /\ stage'[r] = "answered"
        /\ answer' = [answer EXCEPT ![r] = a] /\ answer'[r] = a
    BY <1>1, <1>11 DEF Put, Goes, FunctionsOfTrainings
  <2>2. a \in Answers /\ a # Nothing /\ a.status = "valid"
    BY NoMetricsType, NothingAssumption DEF Answers
  <2>. HIDE DEF a
  <2>3. AskedOK(r)' /\ CausesOK(r)'
    BY <1>8, <2>1 DEF AskedOK, CausesOK
  <2>4. Runs(r)' = SampleRuns
    BY <1>5, <1>6, <1>8, <1>9, <1>11
  <2>5. AnswerOK(r)'
    BY <1>2, <1>7, <1>8, <2>1, <2>2, <2>4 DEF AnswerOK, TrainsTogether
  <2>. QED
    BY <1>2, <1>7, <2>1, <2>2, <2>3, <2>5, LeavesKeeps
<1>. QED
  BY <1>5, <1>10, <1>11 DEF SampleRunEnds

-----------------------------------------------------------------------------
(* The steps of the machines and of the data set, and the theorem.          *)

\* Only the tokens change.
LEMMA ElsewhereKeeps ==
  ASSUME TrainerInv, TokenOK', UNCHANGED <<actuator, ray, causes, clocks>>
  PROVE  TrainerInv'
<1>1. /\ TrainerTypesOK /\ \A q \in Trainings : RequestOK(q)
  BY DEF TrainerInv
<1>2. UNCHANGED <<typed, point, stage, tally, answer, machines, task, metrics, crashes,
                  causes, clocks>>
  BY DEF actuator, ray
<1>3. TrainerTypesOK'
  BY <1>1, <1>2 DEF TrainerTypesOK, TokenOK
<1>4. \A q \in Trainings : Local(q)' = Local(q)
  BY <1>2 DEF Local
<1>5. \A q \in Trainings : RequestOK(q)'
  BY <1>1, <1>2, <1>4, RequestKept
<1>. QED
  BY <1>3, <1>5 DEF TrainerInv, TokenOK

LEMMA CrashKeeps ==
  ASSUME TrainerInv, NEW m \in Machines, MachineCrashes(m)
  PROVE  TrainerInv'
<1>. DEFINE on(r, i) == machines[r][i] = m /\ task[r][i] \in {"start", "train", "count"}
            Hit(r) == \E i \in DOMAIN task[r] : on(r, i)
<1>1. /\ TrainerTypesOK /\ TokenOK /\ \A q \in Trainings : RequestOK(q)
  BY DEF TrainerInv, TokenOK, TrainerTypesOK
<1>2. /\ crashes < MaxCrashes /\ crashes' = crashes + 1
      /\ task' = [r \in Trainings |-> [i \in DOMAIN task[r] |->
            IF on(r, i) THEN "failed" ELSE task[r][i]]]
      /\ causes' = [r \in Trainings |-> IF Hit(r) THEN causes[r] \cup {"other"} ELSE causes[r]]
      /\ counter' = [c \in Counters |->
            IF c[2] \in DOMAIN task[c[1]] /\ on(c[1], c[2]) THEN Idle ELSE counter[c]]
      /\ UNCHANGED <<dataset, files, replacements, replaced>>
      /\ UNCHANGED <<typed, point, stage, tally, answer, machines, metrics, clocks>>
  BY DEF MachineCrashes, actuator
<1>3. TokenOK'
  <2>1. counter' = [c \in Counters |-> counter'[c]]
    BY <1>2
  <2>2. \A c \in Counters : counter'[c] \in {counter[c], Idle, [Idle EXCEPT !.stage = "look"]}
    BY <1>2
  <2>. QED
    BY <1>1, <1>2, <2>1, <2>2, TokensKept
<1>4. ASSUME NEW r \in Trainings
      PROVE  /\ task'[r] = [i \in DOMAIN task[r] |-> IF on(r, i) THEN "failed" ELSE task[r][i]]
             /\ causes'[r] = IF Hit(r) THEN causes[r] \cup {"other"} ELSE causes[r]
             /\ task'[r] \in Seq(TaskStates) /\ causes'[r] \in SUBSET {"oom", "other"}
  <2>1. task[r] \in Seq(TaskStates) /\ causes[r] \in SUBSET {"oom", "other"}
    BY <1>1 DEF TrainerTypesOK
  <2>2. task'[r] = [i \in DOMAIN task[r] |-> IF on(r, i) THEN "failed" ELSE task[r][i]]
    BY <1>2
  <2>3. task'[r] \in Seq(TaskStates)
    <3>1. DOMAIN task[r] = 1 .. Len(task[r]) /\ Len(task[r]) \in Nat
      BY <2>1
    <3>2. \A i \in 1 .. Len(task[r]) : task[r][i] \in TaskStates
      BY <2>1
    <3>3. "failed" \in TaskStates
      BY DEF TaskStates
    <3>. HIDE DEF on
    <3>4. task'[r] \in [1 .. Len(task[r]) -> TaskStates]
      BY <2>2, <3>1, <3>2, <3>3
    <3>. QED
      BY <3>1, <3>4
  <2>4. causes'[r] = IF Hit(r) THEN causes[r] \cup {"other"} ELSE causes[r]
    BY <1>2
  <2>. HIDE DEF Hit
  <2>. QED
    BY <2>1, <2>2, <2>3, <2>4
<1>5. TrainerTypesOK'
  <2>1. task' \in [Trainings -> Seq(TaskStates)]
    BY <1>2, <1>4
  <2>2. causes' \in [Trainings -> SUBSET {"oom", "other"}]
    BY <1>2, <1>4
  <2>3. crashes' \in 0..MaxCrashes
    BY <1>1, <1>2, TrainerAssumption DEF TrainerTypesOK
  <2>4. /\ typed' \in BOOLEAN /\ point' \in Points
        /\ stage' \in [Trainings -> TrainerStages]
        /\ machines' \in [Trainings -> Seq(Machines)]
        /\ metrics' \in [Trainings -> Seq(Metrics)]
        /\ tally' \in [Trainings -> Tallies]
        /\ answer' \in [Trainings -> Answers \cup {Nothing}]
        /\ clocks' = [r \in Trainings |-> clocks'[r]]
    BY <1>1, <1>2 DEF TrainerTypesOK
  <2>. QED
    BY <1>3, <2>1, <2>2, <2>3, <2>4 DEF TrainerTypesOK, TokenOK
<1>6. ASSUME NEW r \in Trainings PROVE RequestOK(r)'
  <2>1. /\ RequestOK(r) /\ HoldsOK(r) /\ AskedOK(r) /\ CausesOK(r) /\ MeasuredOK(r) /\ AnswerOK(r)
    BY <1>1 DEF RequestOK
  <2>2. CASE ~Hit(r)
    <3>1. task'[r] = task[r] /\ causes'[r] = causes[r]
      <4>1. task[r] = [i \in DOMAIN task[r] |-> task[r][i]]
        BY <1>1 DEF TrainerTypesOK
      <4>. QED
        BY <1>4, <2>2, <4>1
    <3>2. Local(r)' = Local(r) /\ point' = point
      BY <1>2, <3>1 DEF Local
    <3>. QED
      BY <2>1, <3>2, RequestKept
  <2>3. CASE Hit(r)
    <3>1. PICK i \in DOMAIN task[r] : on(r, i)
      BY <2>3
    <3>2. /\ stage[r] = "run" /\ DOMAIN task[r] = Ranks(point[r]) /\ 1 \in Ranks(point[r])
      BY TasksAreRun
    <3>3. /\ DOMAIN task'[r] = DOMAIN task[r] /\ task'[r][i] = "failed"
          /\ \A j \in DOMAIN task[r] :
               \/ task'[r][j] = task[r][j]
               \/ task'[r][j] = "failed" /\ task[r][j] \in {"start", "train", "count"}
      <4>1. task'[r] = [j \in DOMAIN task[r] |-> IF on(r, j) THEN "failed" ELSE task[r][j]]
        BY <1>4
      <4>2. \A j : on(r, j) => task[r][j] \in {"start", "train", "count"}
        OBVIOUS
      <4>3. on(r, i)
        BY <3>1
      <4>. HIDE DEF on
      <4>. QED
        BY <4>1, <4>2, <4>3
    <3>4. causes'[r] = causes[r] \cup {"other"}
      BY <1>4, <2>3
    <3>5. UNCHANGED <<point, stage, machines, metrics, tally, answer, clocks>>
      BY <1>2
    <3>. HIDE DEF on, Hit
    <3>6. HoldsOK(r)'
      BY <2>1, <3>2, <3>3, <3>5 DEF HoldsOK
    <3>7. AskedOK(r)'
      BY <2>1, <3>5 DEF AskedOK
    <3>8. CausesOK(r)'
      <4>. DEFINE p == point[r]
                  states == {task[r][j] : j \in DOMAIN task[r]}
                  after == {task'[r][j] : j \in DOMAIN task'[r]}
      <4>1. /\ "failed" \in after /\ after \subseteq states \cup {"failed"}
            /\ \A s \in states : s \notin {"start", "train", "count"} => s \in after
        BY <3>3
      <4>2. Runs(r)' = Runs(r)
        BY <3>5 DEF Runs
      <4>3. CausesOK(r) <=>
              /\ "oom" \in states => "oom" \in causes[r]
              /\ "failed" \in states => "other" \in causes[r]
              /\ "indivisible" \in states => Indivisible(p)
              /\ states \cap {"train", "count", "ok", "oom"} # {} => ~Indivisible(p)
              /\ p.method = "train" => (causes[r] # {} => states \cap Errors # {})
              /\ p.method = "full-error" =>
                   /\ Runs(r) < SampleRuns
                   /\ "oom" \in causes[r] <=> tally[r].oom > 0 \/ "oom" \in states
        BY <3>2 DEF CausesOK
      <4>4. CausesOK(r)' <=>
              /\ "oom" \in after => "oom" \in causes'[r]
              /\ "failed" \in after => "other" \in causes'[r]
              /\ "indivisible" \in after => Indivisible(p)
              /\ after \cap {"train", "count", "ok", "oom"} # {} => ~Indivisible(p)
              /\ p.method = "train" => (causes'[r] # {} => after \cap Errors # {})
              /\ p.method = "full-error" =>
                   /\ Runs(r) < SampleRuns
                   /\ "oom" \in causes'[r] <=> tally[r].oom > 0 \/ "oom" \in after
        BY <3>2, <3>5, <4>2 DEF CausesOK
      <4>. HIDE DEF states, after, p
      <4>5. /\ "oom" \in after <=> "oom" \in states
            /\ "oom" \in causes'[r] <=> "oom" \in causes[r]
            /\ "indivisible" \in after => "indivisible" \in states
            /\ after \cap {"train", "count", "ok", "oom"} # {} =>
                 states \cap {"train", "count", "ok", "oom"} # {}
        BY <3>4, <4>1
      <4>6. "other" \in causes'[r] /\ after \cap Errors # {}
        BY <3>4, <4>1 DEF Errors
      <4>. QED
        BY <2>1, <4>3, <4>4, <4>5, <4>6
    <3>9. MeasuredOK(r)'
      <4>1. task'[r][1] \in {"count", "ok"} => task'[r][1] = task[r][1]
        BY <3>2, <3>3
      <4>2. /\ \A w : MetricsRight(r, w)' <=> MetricsRight(r, w)
            /\ \A w : TokensRight(r, w)' <=> TokensRight(r, w)
        BY <3>5 DEF MetricsRight, TokensRight
      <4>. QED
        BY <2>1, <3>5, <4>1, <4>2 DEF MeasuredOK
    <3>10. AnswerOK(r)'
      BY <3>2, <3>5 DEF AnswerOK
    <3>. QED
      BY <3>6, <3>7, <3>8, <3>9, <3>10 DEF RequestOK
  <2>. QED
    BY <2>2, <2>3
<1>. QED
  BY <1>3, <1>5, <1>6 DEF TrainerInv, TokenOK

LEMMA TrainerStarts == TrainerInit => TrainerInv
<1>. SUFFICES ASSUME TrainerInit PROVE TrainerInv
  OBVIOUS
<1>. DEFINE zero == [oom |-> 0, other |-> 0, none |-> 0]
<1>1. /\ TokenInit /\ typed \in BOOLEAN /\ point \in Points /\ crashes = 0
      /\ stage = [r \in Trainings |-> "new"] /\ machines = [r \in Trainings |-> <<>>]
      /\ task = [r \in Trainings |-> <<>>] /\ metrics = [r \in Trainings |-> <<>>]
      /\ tally = [r \in Trainings |-> zero] /\ answer = [r \in Trainings |-> Nothing]
      /\ causes = [r \in Trainings |-> {}] /\ clocks = [r \in Trainings |-> <<>>]
  BY DEF TrainerInit
<1>2. zero \in Tallies /\ zero.oom = 0 /\ zero.other = 0 /\ zero.none = 0
  BY DEF Tallies
<1>. HIDE DEF zero
<1>3. TokenOK
  BY <1>1, TokensInit
<1>4. TrainerTypesOK
  <2>1. stage \in [Trainings -> TrainerStages]
    BY <1>1 DEF TrainerStages
  <2>2. /\ machines \in [Trainings -> Seq(Machines)]
        /\ task \in [Trainings -> Seq(TaskStates)]
        /\ metrics \in [Trainings -> Seq(Metrics)]
    <3>1. \A S : <<>> \in Seq(S)
      OBVIOUS
    <3>. QED
      BY <1>1, <3>1
  <2>3. /\ tally \in [Trainings -> Tallies]
        /\ answer \in [Trainings -> Answers \cup {Nothing}]
        /\ causes \in [Trainings -> SUBSET {"oom", "other"}]
        /\ clocks = [r \in Trainings |-> clocks[r]]
    BY <1>1, <1>2
  <2>4. crashes \in 0..MaxCrashes
    BY <1>1, TrainerAssumption
  <2>. QED
    BY <1>1, <1>3, <2>1, <2>2, <2>3, <2>4 DEF TrainerTypesOK, TokenOK
<1>5. ASSUME NEW r \in Trainings PROVE RequestOK(r)
  <2>1. /\ stage[r] = "new" /\ machines[r] = <<>> /\ task[r] = <<>> /\ tally[r] = zero
        /\ answer[r] = Nothing /\ causes[r] = {} /\ clocks[r] = <<>>
    BY <1>1
  <2>2. Runs(r) = 0 /\ tally[r].oom = 0
    BY <1>2, <2>1 DEF Runs
  <2>3. HoldsOK(r)
    BY <2>1 DEF HoldsOK
  <2>4. AskedOK(r)
    BY <2>1 DEF AskedOK
  <2>5. CausesOK(r)
    <3>1. {task[r][i] : i \in DOMAIN task[r]} = {}
      BY <2>1
    <3>. QED
      BY <2>1, <2>2, <3>1, TrainerAssumption DEF CausesOK
  <2>6. MeasuredOK(r)
    BY <2>1 DEF MeasuredOK
  <2>7. AnswerOK(r)
    BY <2>1 DEF AnswerOK
  <2>. QED
    BY <2>3, <2>4, <2>5, <2>6, <2>7 DEF RequestOK
<1>. QED
  BY <1>3, <1>4, <1>5 DEF TrainerInv, TokenOK

LEMMA TrainerSteps == TrainerInv /\ [TrainerNext]_trainerVars => TrainerInv'
<1>. SUFFICES ASSUME TrainerInv, [TrainerNext]_trainerVars PROVE TrainerInv'
  OBVIOUS
<1>1. TokenOK
  BY DEF TrainerInv, TokenOK, TrainerTypesOK
<1>2. ASSUME NEW r \in Trainings, Submit(r) PROVE TrainerInv'
  BY <1>2, SubmitKeeps
<1>3. ASSUME NEW r \in Trainings, Serve(r) PROVE TrainerInv'
  <2>1. CASE \/ PrepareDies(r) \/ Prepare(r) \/ CheckFile(r)
             \/ Place(r) \/ ChoosePort(r) \/ PortRaises(r)
    BY <2>1, PrepareDiesKeeps, PrepareKeeps, CheckFileKeeps, PlaceKeeps, ChoosePortKeeps,
       PortRaisesKeeps
  <2>2. CASE RanksRaise(r) \/ RanksReturn(r) \/ SampleRunEnds(r)
    BY <2>2, RunRaisesKeeps, RunReturnsKeeps, SampleRunEndsKeeps
  <2>3. ASSUME NEW i \in MachineRanks, Launch(r, i) PROVE TrainerInv'
    BY <2>3, LaunchKeeps
  <2>4. ASSUME NEW i \in MachineRanks, TrainingEnds(r, i) PROVE TrainerInv'
    BY <2>4, TrainingEndsKeeps
  <2>5. ASSUME NEW i \in MachineRanks, CountStep(<<r, i>>) PROVE TrainerInv'
    <3>1. <<r, i>> \in Counters
      BY CountersAssumption
    <3>2. TokenOK'
      BY <1>1, <2>5, <3>1, CountKeeps DEF CountStep
    <3>. QED
      BY <2>5, <3>2, ElsewhereKeeps DEF CountStep
  <2>6. ASSUME NEW i \in MachineRanks, CountTokens(r, i) PROVE TrainerInv'
    BY <2>6, CountTokensKeeps
  <2>. QED
    BY <1>3, <2>1, <2>2, <2>3, <2>4, <2>5, <2>6 DEF Serve
<1>4. ASSUME NEW r \in Trainings, NEW i \in MachineRanks,
             TrainingFails(r, i) \/ CountingRaises(r, i)
      PROVE  TrainerInv'
  BY <1>4, TrainingFailsKeeps, CountingRaisesKeeps
<1>5. CASE UpdateDataset /\ UNCHANGED <<actuator, ray, causes, clocks>>
  BY <1>1, <1>5, UpdateKeeps, ElsewhereKeeps
<1>6. ASSUME NEW m \in Machines, MachineCrashes(m) PROVE TrainerInv'
  BY <1>6, CrashKeeps
<1>7. CASE UNCHANGED trainerVars
  <2>1. UNCHANGED tokenVars /\ UNCHANGED <<actuator, ray, causes, clocks>>
    BY <1>7 DEF trainerVars
  <2>. QED
    BY <1>1, <2>1, TokensUntouched, ElsewhereKeeps
<1>. QED
  BY <1>2, <1>3, <1>4, <1>5, <1>6, <1>7 DEF TrainerNext

LEMMA InvIsRight == TrainerInv => MeasurementsAreRight
<1>. SUFFICES ASSUME TrainerInv PROVE MeasurementsAreRight
  OBVIOUS
<1>1. TrainerTypesOK /\ TokensOK
  BY DEF TrainerInv
<1>2. TrainerTypeOK
  <2>1. ASSUME NEW r \in Trainings
        PROVE  /\ stage[r] \in TrainerStages /\ DOMAIN task[r] \subseteq MachineRanks
               /\ \A i \in DOMAIN task[r] : task[r][i] \in TaskStates /\ machines[r][i] \in Machines
               /\ answer[r] = Nothing <=> stage[r] # "answered"
    <3>1. LocalTypesOK(r) /\ HoldsOK(r)
      BY InvFacts
    <3>2. ASSUME NEW i \in DOMAIN task[r]
          PROVE  /\ task[r][i] \in TaskStates /\ machines[r][i] \in Machines
                 /\ i \in MachineRanks
      <4>1. /\ stage[r] = "run" /\ task[r][i] \in TaskStates
            /\ DOMAIN task[r] = Ranks(point[r]) /\ Ranks(point[r]) \subseteq MachineRanks
        BY TasksAreRun
      <4>2. i \in DOMAIN machines[r] /\ machines[r] \in Seq(Machines)
        BY <3>1, <4>1 DEF HoldsOK, LocalTypesOK
      <4>. QED
        BY <4>1, <4>2
    <3>. QED
      BY <3>1, <3>2 DEF HoldsOK, LocalTypesOK
  <2>. QED
    BY <1>1, <2>1 DEF TrainerTypeOK, TrainerTypesOK, TrainerStages
<1>3. \A r \in Trainings : answer[r] # Nothing => stage[r] = "answered" /\ AnswerOK(r)
  BY InvFacts DEF HoldsOK
<1>4. AnswerIsRight
  BY <1>3 DEF AnswerIsRight, AnswerOK, Runs
<1>5. \A r \in Trainings : Trained(r) =>
        MetricsRight(r, answer[r].result) /\ TokensRight(r, answer[r].result)
  BY <1>3 DEF Trained, AnswerOK, TrainsTogether
<1>6. ThroughputIsRight
  <2>1. \A r \in Trainings : Trained(r) /\ point[r].auto =>
          StoppedWhenEnough(clocks[r], answer[r].result)
    BY <1>5 DEF MetricsRight
  <2>2. ~replaced => \A v \in Versions : files[v] \in {Absent, Torn, Tokens[v]}
    BY <1>1 DEF TokensOK, FilesOK
  <2>. QED
    BY <1>5, <2>1, <2>2 DEF ThroughputIsRight, TokensRight
<1>. QED
  BY <1>2, <1>4, <1>6 DEF MeasurementsAreRight

\* Answers and measurements are right at every step.
THEOREM MeasurementsCorrect == TrainerSpec => []MeasurementsAreRight
<1>1. TrainerInit => TrainerInv
  BY TrainerStarts
<1>2. TrainerInv /\ [TrainerNext]_trainerVars => TrainerInv'
  BY TrainerSteps
<1>3. TrainerInv => MeasurementsAreRight
  BY InvIsRight
<1>. QED
  BY <1>1, <1>2, <1>3, PTL DEF TrainerSpec
=============================================================================
