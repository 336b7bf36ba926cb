---------------------------- MODULE LeakyBucket ----------------------------
(***************************************************************************)
(* services/rate_limiter/scripts/leaky_bucket.lua on one Redis key, with   *)
(* the key's expiry (see TokenBucket for how Redis expires keys).  The     *)
(* level that drains is the room the token bucket refills.                 *)
(***************************************************************************)
EXTENDS BucketKey

VARIABLES
  now,              \* redis TIME
  key,              \* "absent" or "present"
  level,            \* hash field level, in units
  last_leak_ms,     \* hash field last_leak_ms
  expire_at,        \* deadline set by PEXPIRE
  reply,            \* what the last check answered
  from, taken, told \* observer, as in Bucket

kvars == <<key, level, last_leak_ms, expire_at>>
ovars == <<from, taken, told>>
vars == <<now, key, level, last_leak_ms, expire_at, reply, from, taken, told>>

-----------------------------------------------------------------------------

Init ==
  /\ now = 0
  /\ key = "absent"
  /\ level = 0
  /\ last_leak_ms = 0
  /\ expire_at = 0
  /\ reply = NoReply
  /\ from = 0
  /\ taken = 0
  /\ told = NoReply

(* math.max(0.0, ...) of what a drain leaves, x, which is rounded before it is
   cut off at zero. *)
Drained(x) == {l \in 0 .. Full : x - Eps <= l /\ l <= MaxOf(0, x + Eps)}

(* Lines 17-25: a missing key is an empty bucket; otherwise what leaked in
   the elapsed time is subtracted, down to zero.  The levels that rounding may
   make of it. *)
Drains ==
  IF key = "absent" THEN {0}
  ELSE IF now - last_leak_ms > 0
       THEN Drained(level - (now - last_leak_ms) * R)
       ELSE {level}

(* A plausible slip: the TTL is computed after the unit is added. *)
TTLsAfter(d) == {MaxOf(1, w + Slack) : w \in Waits(d + U)}

(* Line 29: time to drain the level d to empty, plus a second; the script
   computes it before it adds the unit of this check. *)
TTLs(d) == {MaxOf(1, w + Slack) : w \in Waits(d)}

(* HSET of l and PEXPIRE, in both branches. *)
Write(d, l) ==
  /\ key' = "present"
  /\ level' = l
  /\ last_leak_ms' = now
  /\ \E ttl \in TTLs(d) : expire_at' = now + ttl

(* A plausible slip, the one lines 31-34 warn of: any room at all admits. *)
AdmitAnyRoom ==
  /\ \E d \in Drains, l \in 0 .. Full + U :
       /\ d < Full
       /\ l = d + U
       /\ Write(d, l)
       /\ \E w \in Waits(l) : reply' = Allow(MaxOf(0, (Full - l) \div U), now + w)
  /\ taken' = taken + 1
  /\ UNCHANGED <<now, from, told>>

(* Lines 35-41: a whole unit of headroom is required. *)
Admit ==
  /\ \E d \in Drains, l \in 0 .. Full :
       /\ d <= Full - U
       /\ l \in Near(d + U)
       /\ Write(d, l)
       /\ \E n \in Floors(Full - l), w \in Waits(l) : reply' = Allow(n, now + w)
  /\ taken' = taken + 1
  /\ UNCHANGED <<now, from, told>>

(* Lines 43-47. *)
Deny ==
  /\ \E d \in Drains :
       /\ d > Full - U
       /\ Write(d, d)
       /\ \E w \in Waits(d - Full + U) : reply' = Block(w, now + w)
  /\ UNCHANGED <<now, from, taken, told>>

(* Redis drops a key: its fields are gone. *)
Remove ==
  /\ key' = "absent"
  /\ level' = 0
  /\ last_leak_ms' = 0
  /\ expire_at' = 0

(* Active expiry at the deadline. *)
Expire ==
  /\ key = "present"
  /\ now = expire_at
  /\ Remove
  /\ UNCHANGED <<now, reply, ovars>>

(* One millisecond passes; a key whose deadline lies in the past no longer
   exists for any command. *)
Tick ==
  /\ now < MaxTime
  /\ now' = now + 1
  /\ IF key = "present" /\ now + 1 > expire_at THEN Remove ELSE UNCHANGED kvars
  /\ UNCHANGED <<reply, ovars>>

(* The observer of Bucket. *)
Observe ==
  /\ from' = now
  /\ taken' = 0
  /\ told' = reply
  /\ UNCHANGED <<now, kvars, reply>>

Next == Tick \/ Expire \/ Admit \/ Deny \/ Observe

Spec == Init /\ [][Next]_vars

-----------------------------------------------------------------------------

(* Types, and the level never exceeds the capacity. *)
TypeOK ==
  /\ now \in 0 .. MaxTime
  /\ key \in {"absent", "present"}
  /\ level \in 0 .. Full
  /\ last_leak_ms \in 0 .. now
  /\ expire_at \in Nat
  /\ reply \in Reply
  /\ from \in 0 .. now
  /\ taken \in Nat
  /\ told \in Reply

(* The room left in a stored bucket, as a token bucket would store it. *)
Room == IF key = "absent" THEN 0 ELSE Full - level

(* The key of leaky_bucket.lua as token_bucket.lua would store it. *)
Dual == INSTANCE TokenBucket WITH tokens <- Room, last_refill_ms <- last_leak_ms

(* The two scripts are one machine seen from both ends: every step of
   leaky_bucket.lua, its deadline and its reply included, is a step that
   token_bucket.lua may take on the room left in the bucket, with the same
   bound on rounding.  The doubles of the two need not round alike: given the
   same checks their answers may differ by a millisecond. *)
LeakyIsTokenBucket == Dual!Spec

=============================================================================
