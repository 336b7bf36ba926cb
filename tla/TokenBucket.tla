---------------------------- MODULE TokenBucket ----------------------------
(***************************************************************************)
(* services/rate_limiter/scripts/token_bucket.lua on one Redis key, with   *)
(* the key's expiry.  A script runs atomically in Redis, so one check is   *)
(* one action.  Lua numbers round as in BucketParams.                      *)
(*                                                                         *)
(* Redis keeps a key whose PEXPIRE deadline is `expire_at' up to and at    *)
(* that millisecond, and has logically removed it one millisecond later;   *)
(* active expiry may already remove it at the deadline.                    *)
(***************************************************************************)
EXTENDS BucketKey

VARIABLES
  now,              \* redis TIME
  key,              \* "absent" or "present"
  tokens,           \* hash field tokens, in units
  last_refill_ms,   \* hash field last_refill_ms
  expire_at,        \* deadline set by PEXPIRE
  reply,            \* what the last check answered
  from, taken, told \* observer, as in Bucket

kvars == <<key, tokens, last_refill_ms, expire_at>>
ovars == <<from, taken, told>>
vars == <<now, key, tokens, last_refill_ms, expire_at, reply, from, taken, told>>

-----------------------------------------------------------------------------

Init ==
  /\ now = 0
  /\ key = "absent"
  /\ tokens = 0
  /\ last_refill_ms = 0
  /\ expire_at = 0
  /\ reply = NoReply
  /\ from = 0
  /\ taken = 0
  /\ told = NoReply

(* Lines 17-25: a missing key is a full bucket; otherwise the tokens of the
   elapsed time are added, capped at the capacity.  The balances that rounding
   may make of it. *)
Refills ==
  IF key = "absent" THEN {Full}
  ELSE IF now - last_refill_ms > 0
       THEN Rounded(tokens + (now - last_refill_ms) * R)
       ELSE {tokens}

(* A plausible slip: the second of slack is left out. *)
TTLsNoSlack(b) == {MaxOf(1, w) : w \in Waits(Full - b)}

(* Line 29: time to refill the balance b to full, plus a second; the script
   computes it before it takes the token of this check. *)
TTLs(b) == {MaxOf(1, w + Slack) : w \in Waits(Full - b)}

(* A plausible slip: last_refill_ms is set when the key is created only. *)
WriteOldTime(b, t) ==
  /\ key' = "present"
  /\ tokens' = t
  /\ last_refill_ms' = IF key = "absent" THEN now ELSE last_refill_ms
  /\ \E ttl \in TTLs(b) : expire_at' = now + ttl

(* HSET of t and PEXPIRE, in both branches. *)
Write(b, t) ==
  /\ key' = "present"
  /\ tokens' = t
  /\ last_refill_ms' = now
  /\ \E ttl \in TTLs(b) : expire_at' = now + ttl

(* A plausible slip: any fraction of a token admits, and the rest is owed. *)
AdmitFraction ==
  /\ \E b \in Refills, t \in -U .. Full :
       /\ b > 0
       /\ t = b - U
       /\ Write(b, t)
       /\ \E w \in Waits(Full - t) : reply' = Allow(MaxOf(0, t \div U), now + w)
  /\ taken' = taken + 1
  /\ UNCHANGED <<now, from, told>>

(* A plausible slip: reset_at is computed from the tokens before the check. *)
AdmitStaleReset ==
  /\ \E b \in Refills, t \in 0 .. Full :
       /\ b >= U
       /\ t \in Near(b - U)
       /\ Write(b, t)
       /\ \E n \in Floors(t), w \in Waits(Full - b) : reply' = Allow(n, now + w)
  /\ taken' = taken + 1
  /\ UNCHANGED <<now, from, told>>

(* Lines 31-37. *)
Admit ==
  /\ \E b \in Refills, t \in 0 .. Full :
       /\ b >= U
       /\ t \in Near(b - U)
       /\ Write(b, t)
       /\ \E n \in Floors(t), w \in Waits(Full - t) : reply' = Allow(n, now + w)
  /\ taken' = taken + 1
  /\ UNCHANGED <<now, from, told>>

(* A plausible slip: a denial keeps the old contents and the new timestamp. *)
DenyLosesRefill ==
  /\ \E b \in Refills :
       /\ b < U
       /\ Write(b, tokens)
       /\ \E w \in Waits(U - b) : reply' = Block(w, now + w)
  /\ UNCHANGED <<now, from, taken, told>>

(* Lines 39-43. *)
Deny ==
  /\ \E b \in Refills :
       /\ b < U
       /\ Write(b, b)
       /\ \E w \in Waits(U - b) : reply' = Block(w, now + w)
  /\ UNCHANGED <<now, from, taken, told>>

(* Redis drops a key: its fields are gone. *)
Remove ==
  /\ key' = "absent"
  /\ tokens' = 0
  /\ last_refill_ms' = 0
  /\ expire_at' = 0

(* Active expiry at the deadline. *)
Expire ==
  /\ key = "present"
  /\ now = expire_at
  /\ Remove
  /\ UNCHANGED <<now, reply, ovars>>

(* One millisecond passes; a key whose deadline lies in the past no longer
   exists for any command. *)
Tick ==
  /\ now < MaxTime
  /\ now' = now + 1
  /\ IF key = "present" /\ now + 1 > expire_at THEN Remove ELSE UNCHANGED kvars
  /\ UNCHANGED <<reply, ovars>>

(* The observer of Bucket. *)
Observe ==
  /\ from' = now
  /\ taken' = 0
  /\ told' = reply
  /\ UNCHANGED <<now, kvars, reply>>

Next == Tick \/ Expire \/ Admit \/ Deny \/ Observe

Spec == Init /\ [][Next]_vars

-----------------------------------------------------------------------------

(* Types, and the bucket never holds more than its capacity. *)
TypeOK ==
  /\ now \in 0 .. MaxTime
  /\ key \in {"absent", "present"}
  /\ tokens \in 0 .. Full
  /\ last_refill_ms \in 0 .. now
  /\ expire_at \in Nat
  /\ reply \in Reply
  /\ from \in 0 .. now
  /\ taken \in Nat
  /\ told \in Reply

(* What the key holds, refilled up to this millisecond and not yet rounded. *)
Refilled ==
  IF key = "absent" THEN Brim ELSE MinOf(Brim, tokens + (now - last_refill_ms) * R)

(* The comment at token_bucket.lua:27-28: when Redis may drop the key, the
   bucket it holds is equivalent to a freshly created one, so the expiry is
   not observable.  Holds when refill_rate is more than one token per Slack
   (one second); see FastRefill. *)
ExpiryIsUnobservable ==
  key = "present" /\ now >= expire_at => Refilled = Brim

(* The key with lazy refill and expiry is the ideal bucket; the first check of
   a millisecond is the one that refills. *)
Ideal == INSTANCE Bucket WITH
  avail <- Refilled, fresh <- (key = "absent" \/ now > last_refill_ms)

(* A caller cannot tell the expiring Redis key from the ideal bucket. *)
ImplementsBucket == Ideal!Spec

(* The capacity + rate * interval bound of Bucket, on the Redis key of
   token_bucket.lua. *)
RateBound == Ideal!RateBound

(* retry_after_ms and reset_at_ms of token_bucket.lua, up to the rounding of
   its doubles: see Bucket. *)
AnswersKept == Ideal!AnswersKept

=============================================================================
