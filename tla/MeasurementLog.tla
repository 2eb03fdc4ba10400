--------------------------- MODULE MeasurementLog ---------------------------
(***************************************************************************)
(* What the sample store promises, without saying how: each operation has  *)
(* a log of measurement requests, each with its results.  A request comes  *)
(* into its operation's log at once and with all of its results, stays as  *)
(* it is, and leaves only when its own operation is forgotten.             *)
(***************************************************************************)
CONSTANTS
  Operations,
  Entries  \* Entries[o]: what the log of o may hold

VARIABLES
  log,       \* log[o]: the requests of o that can be read, with their results
  forgotten  \* the operations that were deleted

vars == <<log, forgotten>>

Init ==
  /\ log = [o \in Operations |-> {}]
  /\ forgotten = {}

Record(o, entry) ==
  /\ o \notin forgotten
  /\ log' = [log EXCEPT ![o] = @ \cup {entry}]
  /\ UNCHANGED forgotten

Forget(o) ==
  /\ log' = [log EXCEPT ![o] = {}]
  /\ forgotten' = forgotten \cup {o}

Next ==
  \E o \in Operations :
    \/ \E entry \in Entries[o] : Record(o, entry)
    \/ Forget(o)

Spec == Init /\ [][Next]_vars

=============================================================================
