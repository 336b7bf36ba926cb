--------------------------- MODULE SlidingWindow ---------------------------
(***************************************************************************)
(* What the sliding-window log promises: a check is admitted exactly when  *)
(* fewer than max_requests were admitted in the last window_size_ms        *)
(* milliseconds.  All admissions are remembered for ever; how the script   *)
(* forgets them without being noticed is SlidingWindowLog's business.      *)
(***************************************************************************)
EXTENDS WindowParams, FiniteSets

VARIABLES
  now,        \* the Redis clock
  admitted,   \* every admission so far: its time and its request id
  next_id,    \* the id of the next request that is admitted
  allowed     \* the last answer: 1, 0, or -1 before the first

vars == <<now, admitted, next_id, allowed>>

(* The admissions of the window that ends at t. *)
InWindow(t) == {a \in admitted : t - WindowSize < a.score /\ a.score <= t}

-----------------------------------------------------------------------------

Init ==
  /\ now = 0
  /\ admitted = {}
  /\ next_id = 0
  /\ allowed = -1

Tick ==
  /\ now < MaxTime
  /\ now' = now + 1
  /\ UNCHANGED <<admitted, next_id, allowed>>

Admit ==
  /\ Cardinality(InWindow(now)) < MaxRequests
  /\ admitted' = admitted \cup {[score |-> now, id |-> next_id]}
  /\ next_id' = next_id + 1
  /\ allowed' = 1
  /\ UNCHANGED now

Deny ==
  /\ Cardinality(InWindow(now)) >= MaxRequests
  /\ allowed' = 0
  /\ UNCHANGED <<now, admitted, next_id>>

Next == Tick \/ Admit \/ Deny

Spec == Init /\ [][Next]_vars

-----------------------------------------------------------------------------

(* The rate limit: no window of window_size_ms milliseconds, wherever it
   ends, contains more than max_requests admissions. *)
WindowBound ==
  \A t \in 0 .. now : Cardinality(InWindow(t)) <= MaxRequests

=============================================================================
