----------------------------- MODULE MetaStore ------------------------------
(***************************************************************************)
(* The resources of the metastore (sqlstore.py) among clients that share no *)
(* lock: processes that create resources and run operations, users that     *)
(* delete resources (ado delete) and users that edit or upgrade them        *)
(* (ado edit, ado upgrade, and every getResource of an older version).      *)
(*                                                                         *)
(* Each action is one transaction, or one group of reads; what a client     *)
(* read may be stale when it writes.  The database is MySQL: primary and    *)
(* foreign keys are enforced, and a transaction that breaks one is undone.  *)
(* An identifier stands for a resource with its kind and what it depends    *)
(* on.  The rows of a sample store are reduced to the operations that have  *)
(* results in it; module SampleStore has the rest.                          *)
(***************************************************************************)
EXTENDS Naturals, Sequences, FiniteSets, SequencesExt

CONSTANTS
  Ids,           \* resource identifiers
  Kind,          \* Kind[x]: the kind of resource x
  Parents,       \* Parents[x]: the resources x is stored with relations to
  Initially,     \* resources that are there from the start
  Clients,       \* processes that create resources
  Target,        \* Target[c]: the resource client c creates
  StoreOf,       \* StoreOf[o]: the sample store an operation measures into
  Users,         \* users that delete
  Editors,       \* users that edit or upgrade
  MaxDeletions,  \* bound: deletions requested
  MaxEdits,      \* bound: edits begun
  None

Kinds == {"samplestore", "discoveryspace", "actuatorconfiguration", "operation",
          "datacontainer"}
OfKind(k) == {x \in Ids : Kind[x] = k}
Operations == OfKind("operation")

ASSUME KindAssumption == Kind \in [Ids -> Kinds]
ASSUME ParentsAssumption == Parents \in [Ids -> Seq(Ids)]
ASSUME InitiallyAssumption ==
  Initially \subseteq Ids /\ \A x \in Initially : Parents[x] = <<>>
ASSUME TargetAssumption == Target \in [Clients -> Ids]
ASSUME StoreAssumption == StoreOf \in [Operations -> Ids]
\* Only a space is stored by several clients.  It depends on its sample store, and
\* an output on its operation, alone.
ASSUME SharedAssumption ==
  /\ \A c, d \in Clients :
       c # d /\ Target[c] = Target[d] => Kind[Target[c]] = "discoveryspace"
  /\ \A x \in Ids :
       Kind[x] \in {"discoveryspace", "datacontainer"} => Len(Parents[x]) <= 1
\* An operation measures into the sample store of a space that it depends on.
ASSUME MeasuresAssumption ==
  \A o \in Operations : \E s \in Range(Parents[o]) : StoreOf[o] \in Range(Parents[s])
ASSUME BoundAssumption == MaxDeletions \in Nat /\ MaxEdits \in Nat
ASSUME NoneAssumption == None \notin Ids

VARIABLES
  resources,   \* identifiers in the table resources
  status,      \* what the stored data says of an operation
  relations,   \* rows of resource_relationships: <<subject, object>>
  results,     \* operations with results in their sample store
  label,       \* what a client does next
  related,     \* relations a client has stored
  victim,      \* the resource a user is about to delete, or None
  force,       \* whether with --force
  copy,        \* the resource an editor has read, or None
  copied,      \* the status it read
  deletions,   \* deletions requested so far
  edits,       \* edits begun so far
  whole,       \* history: resources whose creation succeeded, until deleted
  edited       \* history: operations an editor wrote

tables == <<resources, status, relations, results>>
clients == <<label, related>>
users == <<victim, force, deletions>>
editors == <<copy, copied, edits>>
history == <<whole, edited>>
vars == <<tables, clients, users, editors, history>>

Statuses == {"none", "added", "started", "finished"}
Labels == {"check", "insert", "relate", "added", "refused", "failed",
           "running", "measured", "finished", "raised"}

Init ==
  /\ resources = Initially
  /\ status = [x \in Ids |-> IF x \in Initially THEN "added" ELSE "none"]
  /\ relations = {} /\ results = {}
  /\ label = [c \in Clients |-> "check"]
  /\ related = [c \in Clients |-> 0]
  /\ victim = [u \in Users |-> None] /\ force = [u \in Users |-> FALSE]
  /\ copy = [e \in Editors |-> None] /\ copied = [e \in Editors |-> "none"]
  /\ deletions = 0 /\ edits = 0
  /\ whole = Initially /\ edited = {}

ParentsOf(x) == Range(Parents[x])
Children(x) == {y \in Ids : <<x, y>> \in relations}

-----------------------------------------------------------------------------
(* Creating a resource.                                                     *)

\* A data container is an output of its operation, which adds it.
MayBegin(c) ==
  Kind[Target[c]] = "datacontainer" =>
    \E d \in Clients : Target[d] \in ParentsOf(Target[c]) /\ label[d] = "measured"

\* addResourceWithRelationships checks that what it relates to exists, and
\* addResource that the resource does not: queries of their own.  A space is
\* stored without the first.
Passes(x) ==
  /\ Kind[x] = "discoveryspace" \/ ParentsOf(x) \subseteq resources
  /\ x \notin resources
CheckPasses(c) ==
  /\ label[c] = "check" /\ MayBegin(c)
  /\ Passes(Target[c])
  /\ label' = [label EXCEPT ![c] = "insert"]
  /\ UNCHANGED <<tables, related, users, editors, history>>

\* Either raises ValueError.  The creator of an operation takes that to mean
\* that it has been added already, and goes on.
CheckRaises(c) ==
  /\ label[c] = "check" /\ MayBegin(c)
  /\ ~Passes(Target[c])
  /\ label' = [label EXCEPT ![c] = "refused"]
  /\ UNCHANGED <<tables, related, users, editors, history>>

\* When its creation succeeds a resource is noted as whole.
Created(c, n) == n = Len(Parents[Target[c]])
AfterRelating(c, n) ==
  /\ label' = [label EXCEPT ![c] = IF Created(c, n) THEN "added" ELSE "relate"]
  /\ whole' = IF Created(c, n) THEN whole \cup {Target[c]} ELSE whole

\* The insertion of addResource; the primary key refuses a second one.
Insert(c) ==
  /\ label[c] = "insert" /\ Target[c] \notin resources
  /\ resources' = resources \cup {Target[c]}
  /\ status' = [status EXCEPT ![Target[c]] = "added"]
  /\ AfterRelating(c, 0)
  /\ UNCHANGED <<relations, results, related, users, editors, edited>>

\* addRelationship for the next of the related resources; the foreign keys
\* want both ends to exist, and the primary key that the relation is new.
Relation(c) == <<Parents[Target[c]][related[c] + 1], Target[c]>>
Relatable(r) == r[1] \in resources /\ r[2] \in resources /\ r \notin relations

\* Mutant: the last of the related resources is left out.
RelateAllButLast(c) ==
  /\ label[c] = "relate" /\ Relatable(Relation(c))
  /\ relations' = relations \cup {Relation(c)}
  /\ related' = [related EXCEPT ![c] = @ + 1]
  /\ label' = [label EXCEPT ![c] = "added"]
  /\ whole' = whole \cup {Target[c]}
  /\ UNCHANGED <<resources, status, results, users, editors, edited>>
Relate(c) ==
  /\ label[c] = "relate" /\ Relatable(Relation(c))
  /\ relations' = relations \cup {Relation(c)}
  /\ related' = [related EXCEPT ![c] = @ + 1]
  /\ AfterRelating(c, related[c] + 1)
  /\ UNCHANGED <<resources, status, results, users, editors, edited>>

\* The database refuses the row: the creator gets an error that it does not
\* expect, and what it has stored so far stays.
RowRefused(c) ==
  /\ \/ label[c] = "insert" /\ Target[c] \in resources
     \/ label[c] = "relate" /\ ~Relatable(Relation(c))
  /\ label' = [label EXCEPT ![c] = "failed"]
  /\ UNCHANGED <<tables, related, users, editors, history>>

-----------------------------------------------------------------------------
(* Running an operation.                                                    *)

\* updateResource: an upsert of what the client holds.
Upsert(x, s) ==
  /\ resources' = resources \cup {x}
  /\ status' = [status EXCEPT ![x] = s]

IsOperation(c) == Kind[Target[c]] = "operation"

\* The harness stores that the operation has started.
\* Mutant: it stores nothing.
StartUnrecorded(c) ==
  /\ IsOperation(c) /\ label[c] \in {"added", "refused"}
  /\ label' = [label EXCEPT ![c] = "running"]
  /\ UNCHANGED <<tables, related, users, editors, history>>
Start(c) ==
  /\ IsOperation(c) /\ label[c] \in {"added", "refused"}
  /\ Upsert(Target[c], "started")
  /\ label' = [label EXCEPT ![c] = "running"]
  /\ UNCHANGED <<relations, results, related, users, editors, history>>

\* It measures: there are results of it as long as its sample store is there.
Measure(c) ==
  /\ IsOperation(c) /\ label[c] = "running"
  /\ results' = IF StoreOf[Target[c]] \in resources THEN results \cup {Target[c]}
                ELSE results
  /\ label' = [label EXCEPT ![c] = "measured"]
  /\ UNCHANGED <<resources, status, relations, related, users, editors, history>>

\* Its outputs, which it adds before it stores its final status.
Outputs(c) == {d \in Clients : Target[c] \in ParentsOf(Target[d])
                               /\ Kind[Target[d]] = "datacontainer"}

\* An output that is there already is related to the operation, and so is one
\* that was refused because the operation is gone.
RelateOutput(d) ==
  /\ Kind[Target[d]] = "datacontainer" /\ label[d] = "refused"
  /\ IF Relatable(Relation(d))
     THEN /\ relations' = relations \cup {Relation(d)}
          /\ label' = [label EXCEPT ![d] = "finished"]
     ELSE /\ label' = [label EXCEPT ![d] = "failed"]
          /\ UNCHANGED relations
  /\ UNCHANGED <<resources, status, results, related, users, editors, history>>

Finish(c) ==
  /\ IsOperation(c) /\ label[c] = "measured"
  /\ \A d \in Outputs(c) : label[d] \in {"added", "finished"}
  /\ Upsert(Target[c], "finished")
  /\ label' = [label EXCEPT ![c] = "finished"]
  /\ UNCHANGED <<relations, results, related, users, editors, history>>

\* An output could not be added: the final status is not stored.
FinishRaises(c) ==
  /\ IsOperation(c) /\ label[c] = "measured"
  /\ \E d \in Outputs(c) : label[d] = "failed"
  /\ label' = [label EXCEPT ![c] = "raised"]
  /\ UNCHANGED <<tables, related, users, editors, history>>

-----------------------------------------------------------------------------
(* Editing: read, then write what was read with other metadata.             *)

Read(e, x) ==
  /\ copy[e] = None /\ edits < MaxEdits /\ x \in resources
  /\ copy' = [copy EXCEPT ![e] = x]
  /\ copied' = [copied EXCEPT ![e] = status[x]]
  /\ edits' = edits + 1
  /\ UNCHANGED <<tables, clients, users, history>>

Write(e) ==
  /\ copy[e] # None
  /\ Upsert(copy[e], copied[e])
  /\ copy' = [copy EXCEPT ![e] = None]
  /\ copied' = [copied EXCEPT ![e] = "none"]
  /\ edited' = edited \cup {copy[e]}
  /\ UNCHANGED <<relations, results, clients, users, edits, whole>>

-----------------------------------------------------------------------------
(* Deleting: the command checks first, and then deletes in a transaction.   *)

\* Results that are in a sample store, its count in delete_sample_store.
ResultsIn(x) == {o \in results : StoreOf[o] = x}

\* ado delete: the resource is there and no relation has it as its subject.
\* Without --force, a sample store must have no results.
RequestDeletion(u, x, f) ==
  /\ victim[u] = None /\ deletions < MaxDeletions
  /\ x \in resources /\ Children(x) = {}
  /\ Kind[x] = "samplestore" /\ ~f => ResultsIn(x) = {}
  /\ victim' = [victim EXCEPT ![u] = x]
  /\ force' = [force EXCEPT ![u] = f]
  /\ deletions' = deletions + 1
  /\ UNCHANGED <<tables, clients, editors, history>>

\* Operations recorded as running that measure into the same sample store:
\* those whose space is related to it.
RunningWith(o) ==
  {q \in Operations :
     /\ q \in resources /\ status[q] = "started"
     /\ \E s \in ParentsOf(q) : <<StoreOf[o], s>> \in relations}

\* delete_operation finds the sample store through the space it is related to.
OperationDeletable(u, o) ==
  /\ \E s \in OfKind("discoveryspace") : <<s, o>> \in relations /\ s \in resources
  /\ force[u] \/ RunningWith(o) = {}

\* The transaction of a deletion that is not refused.  That of a data container
\* is the one of a space: it deletes the relations of the container, and no row
\* of resources, whose kind is another.
Removed(x) == IF Kind[x] = "datacontainer" THEN {} ELSE {x}
NoLonger(x) ==
  /\ resources' = resources \ Removed(x)
  /\ status' = [y \in Ids |-> IF y \in Removed(x) THEN "none" ELSE status[y]]
  /\ relations' = {r \in relations : r[2] # x}
  /\ results' = results \ (ResultsIn(x) \cup {x})
  /\ whole' = whole \ {x}

\* Mutant: the foreign keys cascade.
DeletableCascading(u) ==
  Kind[victim[u]] = "operation" => OperationDeletable(u, victim[u])
Deletable(u) ==
  LET x == victim[u] IN
    /\ Children(x) = {}
    /\ Kind[x] = "operation" => OperationDeletable(u, x)

Forget(u) ==
  /\ victim' = [victim EXCEPT ![u] = None]
  /\ force' = [force EXCEPT ![u] = FALSE]

Delete(u) ==
  /\ victim[u] # None /\ Deletable(u)
  /\ NoLonger(victim[u])
  /\ Forget(u)
  /\ UNCHANGED <<clients, deletions, editors, edited>>

\* A foreign key or a running operation prevents it, and it is undone.
DeletionRefused(u) ==
  /\ victim[u] # None /\ ~Deletable(u)
  /\ Forget(u)
  /\ UNCHANGED <<tables, clients, deletions, editors, history>>

-----------------------------------------------------------------------------
Client(c) ==
  \/ CheckPasses(c) \/ CheckRaises(c) \/ Insert(c) \/ Relate(c) \/ RowRefused(c)
  \/ Start(c) \/ Measure(c) \/ RelateOutput(c) \/ Finish(c) \/ FinishRaises(c)
User(u) ==
  \/ \E x \in Ids, f \in BOOLEAN : RequestDeletion(u, x, f)
  \/ Delete(u) \/ DeletionRefused(u)
Editor(e) == Write(e) \/ \E x \in Ids : Read(e, x)

Next ==
  \/ \E c \in Clients : Client(c)
  \/ \E u \in Users : User(u)
  \/ \E e \in Editors : Editor(e)

Spec == Init /\ [][Next]_vars

-----------------------------------------------------------------------------
(* Properties.                                                              *)

TypeOK ==
  /\ resources \subseteq Ids
  /\ status \in [Ids -> Statuses]
  /\ \A x \in Ids : x \in resources <=> status[x] # "none"
  /\ relations \subseteq resources \X resources
  /\ results \subseteq Operations
  /\ label \in [Clients -> Labels] /\ related \in [Clients -> Nat]
  /\ victim \in [Users -> Ids \cup {None}] /\ force \in [Users -> BOOLEAN]
  /\ copy \in [Editors -> Ids \cup {None}] /\ copied \in [Editors -> Statuses]
  /\ deletions \in 0 .. MaxDeletions /\ edits \in 0 .. MaxEdits
  /\ whole \subseteq Ids /\ edited \subseteq Ids

\* Provenance is never broken: a resource that was created with success, and
\* not deleted, is there with everything it depends on and the relations to
\* it, although no client looks again after its checks.  An editor breaks it: a
\* resource that is deleted while it is being related, and then written back,
\* has lost its first relations.
ProvenanceKept ==
  \A x \in whole \ edited :
    /\ x \in resources
    /\ \A p \in ParentsOf(x) : p \in resources /\ <<p, x>> \in relations

\* A deletion takes no results but those of the operation it deletes, with
\* --force or without, whatever is created and measured between the checks of the
\* command and its transaction: as long as the operation and its space were
\* created with success and are not deleted.
ResultsKept ==
  [][\A u \in Users : \A o \in results \ results' :
       victim[u] # None /\ victim'[u] = None =>
         victim[u] = o \/ ~({o} \cup ParentsOf(o) \subseteq whole \ edited)
    ]_vars

\* An operation that measures is recorded as started, so that deletions of the
\* same sample store are refused, unless an editor wrote what it read earlier
\* or somebody deleted the operation with --force.
RunningIsRecorded ==
  \A c \in Clients :
    IsOperation(c) /\ label[c] = "running" /\ Target[c] \in resources \ edited
      => status[Target[c]] = "started"

=============================================================================
