-------------------------- MODULE StoreThenNotify ---------------------------
(***************************************************************************)
(* What the discovery space manager promises, without saying how: requests *)
(* are stored in the order in which they arrive, none skipped, none twice; *)
(* a subscriber sees a request at most once and only after it is stored;   *)
(* and after a request could not be stored nothing is stored any more.     *)
(***************************************************************************)
EXTENDS Sequences

CONSTANTS Subscribers, Measured

VARIABLES
  waiting,  \* arrived and not yet stored
  stored,   \* the requests in the discovery space
  seen,     \* seen[s]: the requests s has been notified of
  closed    \* storing has ended for good

vars == <<waiting, stored, seen, closed>>

Init ==
  /\ waiting = <<>>
  /\ stored = <<>>
  /\ seen = [s \in Subscribers |-> {}]
  /\ closed = FALSE

Arrive(request) ==
  /\ waiting' = Append(waiting, request)
  /\ UNCHANGED <<stored, seen, closed>>

Store ==
  /\ ~closed
  /\ waiting # <<>>
  /\ waiting' = Tail(waiting)
  /\ stored' = Append(stored, Head(waiting))
  /\ UNCHANGED <<seen, closed>>

\* The request that could not be stored is gone.
Fail ==
  /\ ~closed
  /\ waiting # <<>>
  /\ waiting' = Tail(waiting)
  /\ closed' = TRUE
  /\ UNCHANGED <<stored, seen>>

Close ==
  /\ closed' = TRUE
  /\ UNCHANGED <<waiting, stored, seen>>

See(s, request) ==
  /\ \E k \in DOMAIN stored : stored[k] = request
  /\ request \notin seen[s]
  /\ seen' = [seen EXCEPT ![s] = @ \cup {request}]
  /\ UNCHANGED <<waiting, stored, closed>>

Next ==
  \/ \E request \in Measured : Arrive(request)
  \/ Store \/ Fail \/ Close
  \/ \E s \in Subscribers, request \in Measured : See(s, request)

Spec == Init /\ [][Next]_vars

=============================================================================
