-------------------------- MODULE MetaStoreProofs --------------------------
(***************************************************************************)
(* Proofs about the metastore, for any resources, clients, users and       *)
(* editors: what was created with success keeps what it depends on, an     *)
(* operation that measures is recorded as running, and no deletion takes   *)
(* the results of an operation that it was not asked to delete.            *)
(***************************************************************************)
EXTENDS MetaStore, TLAPS

\* An editor holds a resource with a status that it had.
CopyHasStatus == \A e \in Editors : copy[e] # None => copied[e] # "none"

\* A client that relates a resource has stored the relations it counts, unless
\* somebody deleted the resource, or an editor wrote it.
RelatingInOrder ==
  \A c \in Clients : label[c] = "relate" =>
    /\ related[c] < Len(Parents[Target[c]])
    /\ Target[c] \in resources \ edited =>
         \A i \in 1 .. related[c] : <<Parents[Target[c]][i], Target[c]>> \in relations

\* A client that has not inserted its resource has related nothing.
NothingRelated == \A c \in Clients : label[c] \in {"check", "insert"} => related[c] = 0

IInv ==
  /\ TypeOK /\ CopyHasStatus /\ NothingRelated /\ RelatingInOrder
  /\ ProvenanceKept /\ RunningIsRecorded

-----------------------------------------------------------------------------
(* The invariant holds at first.                                           *)

LEMMA ParentsAreIds ==
  \A x \in Ids : ParentsOf(x) \subseteq Ids /\ Len(Parents[x]) \in Nat
BY ParentsAssumption DEF ParentsOf, Range

LEMMA RelationIsPair ==
  ASSUME NEW c \in Clients
  PROVE  Relation(c) = <<Parents[Target[c]][related[c] + 1], Target[c]>>
BY DEF Relation

LEMMA InitInv == Init => IInv
<1>. SUFFICES ASSUME Init PROVE IInv
  OBVIOUS
<1>1. TypeOK
  BY InitiallyAssumption, BoundAssumption
     DEF Init, TypeOK, Statuses, Labels, Operations, OfKind
<1>2. CopyHasStatus /\ NothingRelated /\ RelatingInOrder /\ RunningIsRecorded
  BY DEF Init, CopyHasStatus, NothingRelated, RelatingInOrder, RunningIsRecorded
<1>3. ProvenanceKept
  BY InitiallyAssumption DEF Init, ProvenanceKept, ParentsOf, Range
<1>. QED
  BY <1>1, <1>2, <1>3 DEF IInv

-----------------------------------------------------------------------------
(* Types.                                                                  *)

LEMMA TypeNext ==
  ASSUME TypeOK, CopyHasStatus, [Next]_vars
  PROVE  TypeOK' /\ CopyHasStatus'
<1>. USE TargetAssumption DEF TypeOK, CopyHasStatus, Statuses, Labels, tables, clients,
       users, editors, history
<1>1. ASSUME NEW c \in Clients, CheckPasses(c) PROVE TypeOK' /\ CopyHasStatus'
  BY <1>1 DEF CheckPasses
<1>2. ASSUME NEW c \in Clients, CheckRaises(c) PROVE TypeOK' /\ CopyHasStatus'
  BY <1>2 DEF CheckRaises
<1>3. ASSUME NEW c \in Clients, Insert(c) PROVE TypeOK' /\ CopyHasStatus'
  BY <1>3 DEF Insert, AfterRelating, Created
<1>4. ASSUME NEW c \in Clients, Relate(c) PROVE TypeOK' /\ CopyHasStatus'
  BY <1>4, RelationIsPair DEF Relate, Relatable, AfterRelating, Created
<1>5. ASSUME NEW c \in Clients, RowRefused(c) PROVE TypeOK' /\ CopyHasStatus'
  BY <1>5 DEF RowRefused
<1>6. ASSUME NEW c \in Clients, Start(c) PROVE TypeOK' /\ CopyHasStatus'
  BY <1>6 DEF Start, Upsert
<1>7. ASSUME NEW c \in Clients, Measure(c) PROVE TypeOK' /\ CopyHasStatus'
  BY <1>7 DEF Measure, IsOperation, Operations, OfKind
<1>8. ASSUME NEW c \in Clients, RelateOutput(c) PROVE TypeOK' /\ CopyHasStatus'
  BY <1>8, RelationIsPair DEF RelateOutput, Relatable
<1>9. ASSUME NEW c \in Clients, Finish(c) PROVE TypeOK' /\ CopyHasStatus'
  BY <1>9 DEF Finish, Upsert
<1>10. ASSUME NEW c \in Clients, FinishRaises(c) PROVE TypeOK' /\ CopyHasStatus'
  BY <1>10 DEF FinishRaises
<1>11. ASSUME NEW e \in Editors, NEW x \in Ids, Read(e, x)
       PROVE  TypeOK' /\ CopyHasStatus'
  BY <1>11, BoundAssumption DEF Read
<1>12. ASSUME NEW e \in Editors, Write(e) PROVE TypeOK' /\ CopyHasStatus'
  BY <1>12, NoneAssumption DEF Write, Upsert
<1>13. ASSUME NEW u \in Users, NEW x \in Ids, NEW f \in BOOLEAN, RequestDeletion(u, x, f)
       PROVE  TypeOK' /\ CopyHasStatus'
  BY <1>13, BoundAssumption DEF RequestDeletion
<1>14. ASSUME NEW u \in Users, Delete(u) PROVE TypeOK' /\ CopyHasStatus'
  BY <1>14 DEF Delete, Deletable, Children, NoLonger, Removed, Forget
<1>15. ASSUME NEW u \in Users, DeletionRefused(u) PROVE TypeOK' /\ CopyHasStatus'
  BY <1>15 DEF DeletionRefused, Forget
<1>16. CASE UNCHANGED vars
  BY <1>16 DEF vars
<1>. QED
  BY <1>1, <1>2, <1>3, <1>4, <1>5, <1>6, <1>7, <1>8, <1>9, <1>10, <1>11, <1>12, <1>13,
     <1>14, <1>15, <1>16 DEF Next, Client, User, Editor

\* Two clients that create the same resource create a space.
LEMMA SharedIsSpace ==
  ASSUME NEW c \in Clients, NEW d \in Clients, c # d, Target[c] = Target[d]
  PROVE  /\ Kind[Target[c]] = "discoveryspace" /\ ~IsOperation(c) /\ ~IsOperation(d)
         /\ Len(Parents[Target[c]]) <= 1
BY SharedAssumption, TargetAssumption DEF IsOperation

-----------------------------------------------------------------------------
(* Relations are stored in order.                                          *)

LEMMA RelatingNext ==
  ASSUME TypeOK, NothingRelated, RelatingInOrder, [Next]_vars
  PROVE  NothingRelated' /\ RelatingInOrder'
<1>. USE TargetAssumption, ParentsAreIds
     DEF TypeOK, NothingRelated, RelatingInOrder, tables, clients, users, editors, history
<1>1. ASSUME NEW d \in Clients, CheckPasses(d) PROVE NothingRelated' /\ RelatingInOrder'
  BY <1>1 DEF CheckPasses
<1>2. ASSUME NEW d \in Clients, CheckRaises(d) PROVE NothingRelated' /\ RelatingInOrder'
  BY <1>2 DEF CheckRaises
<1>3. ASSUME NEW d \in Clients, Insert(d) PROVE NothingRelated' /\ RelatingInOrder'
  BY <1>3, SharedIsSpace DEF Insert, AfterRelating, Created
<1>4. ASSUME NEW d \in Clients, Relate(d) PROVE NothingRelated' /\ RelatingInOrder'
  BY <1>4, RelationIsPair DEF Relate, AfterRelating, Created
<1>5. ASSUME NEW d \in Clients, RowRefused(d) PROVE NothingRelated' /\ RelatingInOrder'
  BY <1>5 DEF RowRefused
<1>6. ASSUME NEW d \in Clients, Start(d) PROVE NothingRelated' /\ RelatingInOrder'
  BY <1>6, SharedIsSpace DEF Start, Upsert
<1>7. ASSUME NEW d \in Clients, Measure(d) PROVE NothingRelated' /\ RelatingInOrder'
  BY <1>7 DEF Measure
<1>8. ASSUME NEW d \in Clients, RelateOutput(d)
       PROVE  NothingRelated' /\ RelatingInOrder'
  BY <1>8 DEF RelateOutput
<1>9. ASSUME NEW d \in Clients, Finish(d) PROVE NothingRelated' /\ RelatingInOrder'
  BY <1>9, SharedIsSpace DEF Finish, Upsert
<1>10. ASSUME NEW d \in Clients, FinishRaises(d)
       PROVE  NothingRelated' /\ RelatingInOrder'
  BY <1>10 DEF FinishRaises
<1>11. ASSUME NEW e \in Editors, NEW x \in Ids, Read(e, x)
       PROVE  NothingRelated' /\ RelatingInOrder'
  BY <1>11 DEF Read
<1>12. ASSUME NEW e \in Editors, Write(e) PROVE NothingRelated' /\ RelatingInOrder'
  BY <1>12 DEF Write, Upsert
<1>13. ASSUME NEW u \in Users, NEW x \in Ids, NEW f \in BOOLEAN, RequestDeletion(u, x, f)
       PROVE  NothingRelated' /\ RelatingInOrder'
  BY <1>13 DEF RequestDeletion
<1>14. ASSUME NEW u \in Users, Delete(u) PROVE NothingRelated' /\ RelatingInOrder'
  BY <1>14, SharedAssumption DEF Delete, NoLonger, Removed, Forget
<1>15. ASSUME NEW u \in Users, DeletionRefused(u)
       PROVE  NothingRelated' /\ RelatingInOrder'
  BY <1>15 DEF DeletionRefused, Forget
<1>16. CASE UNCHANGED vars
  BY <1>16 DEF vars
<1>. QED
  BY <1>1, <1>2, <1>3, <1>4, <1>5, <1>6, <1>7, <1>8, <1>9, <1>10, <1>11, <1>12, <1>13,
     <1>14, <1>15, <1>16 DEF Next, Client, User, Editor

-----------------------------------------------------------------------------
(* What was created with success keeps its provenance.                     *)

LEMMA ProvenanceNext ==
  ASSUME TypeOK, RelatingInOrder, ProvenanceKept, [Next]_vars, TypeOK'
  PROVE  ProvenanceKept'
<1>. USE TargetAssumption, ParentsAreIds
     DEF TypeOK, ProvenanceKept, tables, clients, users, editors, history
<1>1. ASSUME NEW d \in Clients, CheckPasses(d) PROVE ProvenanceKept'
  BY <1>1 DEF CheckPasses
<1>2. ASSUME NEW d \in Clients, CheckRaises(d) PROVE ProvenanceKept'
  BY <1>2 DEF CheckRaises
<1>3. ASSUME NEW d \in Clients, Insert(d) PROVE ProvenanceKept'
  BY <1>3, ParentsAssumption DEF Insert, AfterRelating, Created, ParentsOf, Range
<1>4. ASSUME NEW d \in Clients, Relate(d) PROVE ProvenanceKept'
  <2>1. ASSUME Created(d, related[d] + 1), Target[d] \notin edited
        PROVE  \A p \in ParentsOf(Target[d]) : <<p, Target[d]>> \in relations'
    <3>. SUFFICES ASSUME NEW p \in ParentsOf(Target[d])
                  PROVE  <<p, Target[d]>> \in relations'
      OBVIOUS
    <3>1. PICK i \in 1 .. Len(Parents[Target[d]]) : p = Parents[Target[d]][i]
      BY ParentsAssumption DEF ParentsOf, Range
    <3>2. i \in 1 .. related[d] \/ i = related[d] + 1
      BY <2>1 DEF Created
    <3>3. label[d] = "relate" /\ Target[d] \in resources /\ related[d] \in Nat
          /\ relations' = relations \cup {<<Parents[Target[d]][related[d] + 1], Target[d]>>}
      BY <1>4, RelationIsPair DEF Relate, Relatable
    <3>4. CASE i \in 1 .. related[d]
      BY <2>1, <3>1, <3>3, <3>4 DEF RelatingInOrder
    <3>5. CASE i = related[d] + 1
      BY <3>1, <3>3, <3>5
    <3>. QED
      BY <3>2, <3>4, <3>5
  <2>2. Target[d] \in resources
    BY <1>4, RelationIsPair DEF Relate, Relatable
  <2>. QED
    BY <1>4, <2>1, <2>2 DEF Relate, AfterRelating
<1>5. ASSUME NEW d \in Clients, RowRefused(d) PROVE ProvenanceKept'
  BY <1>5 DEF RowRefused
<1>6. ASSUME NEW d \in Clients, Start(d) PROVE ProvenanceKept'
  BY <1>6 DEF Start, Upsert
<1>7. ASSUME NEW d \in Clients, Measure(d) PROVE ProvenanceKept'
  BY <1>7 DEF Measure
<1>8. ASSUME NEW d \in Clients, RelateOutput(d) PROVE ProvenanceKept'
  BY <1>8 DEF RelateOutput
<1>9. ASSUME NEW d \in Clients, Finish(d) PROVE ProvenanceKept'
  BY <1>9 DEF Finish, Upsert
<1>10. ASSUME NEW d \in Clients, FinishRaises(d) PROVE ProvenanceKept'
  BY <1>10 DEF FinishRaises
<1>11. ASSUME NEW e \in Editors, NEW x \in Ids, Read(e, x) PROVE ProvenanceKept'
  BY <1>11 DEF Read
<1>12. ASSUME NEW e \in Editors, Write(e) PROVE ProvenanceKept'
  BY <1>12 DEF Write, Upsert
<1>13. ASSUME NEW u \in Users, NEW x \in Ids, NEW f \in BOOLEAN, RequestDeletion(u, x, f)
       PROVE  ProvenanceKept'
  BY <1>13 DEF RequestDeletion
<1>14. ASSUME NEW u \in Users, Delete(u) PROVE ProvenanceKept'
  BY <1>14 DEF Delete, Deletable, Children, NoLonger, Removed, Forget
<1>15. ASSUME NEW u \in Users, DeletionRefused(u) PROVE ProvenanceKept'
  BY <1>15 DEF DeletionRefused, Forget
<1>16. CASE UNCHANGED vars
  BY <1>16 DEF vars
<1>. QED
  BY <1>1, <1>2, <1>3, <1>4, <1>5, <1>6, <1>7, <1>8, <1>9, <1>10, <1>11, <1>12, <1>13,
     <1>14, <1>15, <1>16 DEF Next, Client, User, Editor

-----------------------------------------------------------------------------
(* Operations that measure are recorded.                                   *)

LEMMA RunningNext ==
  ASSUME TypeOK, RunningIsRecorded, [Next]_vars
  PROVE  RunningIsRecorded'
<1>. USE TargetAssumption
     DEF TypeOK, RunningIsRecorded, IsOperation, tables, clients, users, editors, history
<1>1. ASSUME NEW d \in Clients, CheckPasses(d) PROVE RunningIsRecorded'
  BY <1>1 DEF CheckPasses
<1>2. ASSUME NEW d \in Clients, CheckRaises(d) PROVE RunningIsRecorded'
  BY <1>2 DEF CheckRaises
<1>3. ASSUME NEW d \in Clients, Insert(d) PROVE RunningIsRecorded'
  BY <1>3, SharedIsSpace DEF Insert, AfterRelating
<1>4. ASSUME NEW d \in Clients, Relate(d) PROVE RunningIsRecorded'
  BY <1>4 DEF Relate, AfterRelating
<1>5. ASSUME NEW d \in Clients, RowRefused(d) PROVE RunningIsRecorded'
  BY <1>5 DEF RowRefused
<1>6. ASSUME NEW d \in Clients, Start(d) PROVE RunningIsRecorded'
  BY <1>6, SharedIsSpace DEF Start, Upsert
<1>7. ASSUME NEW d \in Clients, Measure(d) PROVE RunningIsRecorded'
  BY <1>7 DEF Measure
<1>8. ASSUME NEW d \in Clients, RelateOutput(d) PROVE RunningIsRecorded'
  BY <1>8 DEF RelateOutput
<1>9. ASSUME NEW d \in Clients, Finish(d) PROVE RunningIsRecorded'
  BY <1>9, SharedIsSpace DEF Finish, Upsert
<1>10. ASSUME NEW d \in Clients, FinishRaises(d) PROVE RunningIsRecorded'
  BY <1>10 DEF FinishRaises
<1>11. ASSUME NEW e \in Editors, NEW x \in Ids, Read(e, x) PROVE RunningIsRecorded'
  BY <1>11 DEF Read
<1>12. ASSUME NEW e \in Editors, Write(e) PROVE RunningIsRecorded'
  BY <1>12 DEF Write, Upsert
<1>13. ASSUME NEW u \in Users, NEW x \in Ids, NEW f \in BOOLEAN, RequestDeletion(u, x, f)
       PROVE  RunningIsRecorded'
  BY <1>13 DEF RequestDeletion
<1>14. ASSUME NEW u \in Users, Delete(u) PROVE RunningIsRecorded'
  BY <1>14 DEF Delete, NoLonger, Removed, Forget
<1>15. ASSUME NEW u \in Users, DeletionRefused(u) PROVE RunningIsRecorded'
  BY <1>15 DEF DeletionRefused, Forget
<1>16. CASE UNCHANGED vars
  BY <1>16 DEF vars
<1>. QED
  BY <1>1, <1>2, <1>3, <1>4, <1>5, <1>6, <1>7, <1>8, <1>9, <1>10, <1>11, <1>12, <1>13,
     <1>14, <1>15, <1>16 DEF Next, Client, User, Editor

-----------------------------------------------------------------------------
(* The theorems.                                                           *)

LEMMA InvNext == IInv /\ [Next]_vars => IInv'
BY TypeNext, RelatingNext, ProvenanceNext, RunningNext DEF IInv

LEMMA Invariant == Spec => []IInv
BY InitInv, InvNext, PTL DEF Spec

\* Every variable keeps its type; in particular the relations stay between
\* resources that exist, and a resource that is there has a status.
THEOREM TypeCorrect == Spec => []TypeOK
BY Invariant, PTL DEF IInv

\* Creation in several transactions and deletion in one, without a lock, keep
\* the provenance of whatever was created with success (sqlstore.py).
THEOREM ProvenanceKeptCorrect == Spec => []ProvenanceKept
BY Invariant, PTL DEF IInv

\* An operation that measures is recorded as started (_orchestrate_core.py).
THEOREM RunningIsRecordedCorrect == Spec => []RunningIsRecorded
BY Invariant, PTL DEF IInv

\* Deletable is what protects results: their store has the space as a child.
LEMMA ResultsNext ==
  ASSUME IInv, [Next]_vars, NEW u \in Users, NEW o \in results \ results',
         victim[u] # None, victim'[u] = None, victim[u] # o,
         {o} \cup ParentsOf(o) \subseteq whole \ edited
  PROVE  FALSE
<1>1. ~Delete(u)
  <2>. SUFFICES ASSUME Delete(u) PROVE FALSE
    OBVIOUS
  <2>1. StoreOf[o] = victim[u] /\ o \in Operations
    BY DEF Delete, NoLonger, ResultsIn, IInv, TypeOK
  <2>2. PICK s \in ParentsOf(o) : StoreOf[o] \in ParentsOf(s)
    BY <2>1, MeasuresAssumption DEF ParentsOf
  <2>3. <<victim[u], s>> \in relations /\ s \in Ids
    BY <2>1, <2>2 DEF IInv, ProvenanceKept, TypeOK
  <2>. QED
    BY <2>3 DEF Delete, Deletable, Children
<1>2. ASSUME NEW v \in Users, v # u, Delete(v) PROVE FALSE
  BY <1>2 DEF Delete, Forget, IInv, TypeOK
<1>. QED
  BY <1>1, <1>2
     DEF Next, Client, User, Editor, CheckPasses, CheckRaises, Insert, Relate, RowRefused,
         Start, Measure, RelateOutput, Finish, FinishRaises, Read, Write,
         RequestDeletion, DeletionRefused, tables, clients, users, editors, history, vars

\* No deletion takes the results of an operation that was created with its
\* space and still stands, unless it is the operation to delete (sqlstore.py).
THEOREM ResultsKeptCorrect == Spec => ResultsKept
<1>1. IInv /\ [Next]_vars =>
        [\A u \in Users : \A o \in results \ results' :
           victim[u] # None /\ victim'[u] = None =>
             victim[u] = o \/ ~({o} \cup ParentsOf(o) \subseteq whole \ edited)]_vars
  BY ResultsNext
<1>. QED
  BY <1>1, Invariant, PTL DEF Spec, ResultsKept

=============================================================================
