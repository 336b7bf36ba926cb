-------------------------- MODULE SlidingWindowLog --------------------------
(***************************************************************************)
(* services/rate_limiter/scripts/sliding_window_log.lua on one Redis key,  *)
(* with the key's expiry (see TokenBucket for how Redis expires keys).     *)
(*                                                                         *)
(* The key is a sorted set; an empty one does not exist.  Request ids come *)
(* from uuid4 in sliding_window_log.py and are taken to be unique.         *)
(***************************************************************************)
EXTENDS WindowParams, FiniteSets

VARIABLES
  now,        \* redis TIME
  zset,       \* the sorted set: a set of [score, id] entries
  expire_at,  \* deadline set by PEXPIRE, when zset is not empty
  reply,      \* what the last check answered
  next_id,    \* the next request id
  admitted    \* history: every admission so far

vars == <<now, zset, expire_at, reply, next_id, admitted>>

-----------------------------------------------------------------------------

Init ==
  /\ now = 0
  /\ zset = {}
  /\ expire_at = 0
  /\ reply = NoReply
  /\ next_id = 0
  /\ admitted = {}

(* A plausible slip: an entry exactly one window old is kept. *)
KeptTooLong == {e \in zset : e.score >= now - WindowSize}

(* Line 21: ZREMRANGEBYSCORE removes scores up to now - window_size_ms. *)
Kept == {e \in zset : e.score > now - WindowSize}

(* Lines 25-31: when the oldest entry of z leaves the window. *)
OldestResetAt(z) ==
  IF z = {} THEN now + WindowSize
  ELSE WindowSize + (CHOOSE s \in {e.score : e \in z} : \A e \in z : s <= e.score)

(* The member a check adds: SlidingWindowLogLimiter.check names it by an id of
   its own, since two checks may share a millisecond. *)
NewEntry == [score |-> now, id |-> next_id]

(* A plausible slip: ZADD under the timestamp instead of the request id, so
   that two requests of one millisecond are one member. *)
AdmitByTime ==
  /\ Cardinality(Kept) < MaxRequests
  /\ zset' = Kept \cup {[score |-> now, id |-> now]}
  /\ expire_at' = now + WindowSize
  /\ reply' = Allow(MaxRequests - Cardinality(Kept) - 1, OldestResetAt(zset'))
  /\ next_id' = next_id + 1
  /\ admitted' = admitted \cup {NewEntry}
  /\ UNCHANGED now

(* A plausible slip: one more is let through. *)
AdmitOneMore ==
  /\ Cardinality(Kept) <= MaxRequests
  /\ zset' = Kept \cup {NewEntry}
  /\ expire_at' = now + WindowSize
  /\ reply' = Allow(MaxRequests - Cardinality(Kept) - 1, OldestResetAt(zset'))
  /\ next_id' = next_id + 1
  /\ admitted' = admitted \cup {NewEntry}
  /\ UNCHANGED now

(* Lines 33-38, after line 21 has trimmed the set. *)
Admit ==
  /\ Cardinality(Kept) < MaxRequests
  /\ zset' = Kept \cup {NewEntry}
  /\ expire_at' = now + WindowSize
  /\ reply' = Allow(MaxRequests - Cardinality(Kept) - 1, OldestResetAt(zset'))
  /\ next_id' = next_id + 1
  /\ admitted' = admitted \cup {NewEntry}
  /\ UNCHANGED now

(* A plausible slip: the deadline of a denied check counts from its oldest
   entry, as its reset does. *)
DenyShortDeadline ==
  /\ Cardinality(Kept) >= MaxRequests
  /\ zset' = Kept
  /\ expire_at' = OldestResetAt(Kept)
  /\ reply' = Block(MaxOf(0, OldestResetAt(Kept) - now), OldestResetAt(Kept))
  /\ UNCHANGED <<now, next_id, admitted>>

(* Lines 40-44, after line 21 has trimmed the set. *)
Deny ==
  /\ Cardinality(Kept) >= MaxRequests
  /\ zset' = Kept
  /\ expire_at' = now + WindowSize
  /\ reply' = Block(MaxOf(0, OldestResetAt(Kept) - now), OldestResetAt(Kept))
  /\ UNCHANGED <<now, next_id, admitted>>

(* Active expiry at the deadline. *)
Expire ==
  /\ zset # {}
  /\ now = expire_at
  /\ zset' = {}
  /\ expire_at' = 0
  /\ UNCHANGED <<now, reply, next_id, admitted>>

(* One millisecond passes; a key whose deadline lies in the past no longer
   exists for any command. *)
Tick ==
  /\ now < MaxTime
  /\ now' = now + 1
  /\ IF zset # {} /\ now + 1 > expire_at
     THEN zset' = {} /\ expire_at' = 0
     ELSE UNCHANGED <<zset, expire_at>>
  /\ UNCHANGED <<reply, next_id, admitted>>

Next == Tick \/ Expire \/ Admit \/ Deny

Spec == Init /\ [][Next]_vars

-----------------------------------------------------------------------------

Ideal == INSTANCE SlidingWindow WITH allowed <- reply.allowed

(* Trimming the set and letting the key expire are never noticed: every
   answer of sliding_window_log.lua is the one that a log of all admissions
   would have given. *)
ImplementsSlidingWindow == Ideal!Spec

(* The rate limit of SlidingWindow, for the script. *)
WindowBound == Ideal!WindowBound

(* The sorted set holds every admission that still counts, however the key
   was trimmed, expired and recreated, and nothing that was not admitted. *)
LogIsComplete ==
  /\ zset \subseteq admitted
  /\ \A a \in admitted : a.score > now - WindowSize => a \in zset

(* The growth bound of lines 19-20: no key holds more than max_requests
   members, whatever the traffic. *)
LogIsBounded == Cardinality(zset) <= MaxRequests

(* retry_after_ms is exact: a denied caller is admitted after it, and not one
   millisecond earlier, unless others were admitted in between. *)
RetryAfterExact ==
  reply.allowed = 0 =>
    (Cardinality(Kept) < MaxRequests <=> now >= reply.reset_at_ms)

=============================================================================
