------------------------- MODULE TokenBucketProofs -------------------------
(***************************************************************************)
(* token_bucket.lua implements the ideal bucket, for every capacity, every *)
(* bound on the rounding of its doubles and every refill rate of more than *)
(* one token per second; and what it promises at the other rates.          *)
(*                                                                         *)
(* The step that needs an argument is the disappearance of the key: it     *)
(* maps to no step of the ideal bucket only if the bucket was full by      *)
(* then.  KeyLosesLittle carries this from the check that armed the        *)
(* deadline to the moment it strikes, and it is there that the rate        *)
(* matters: the TTL is computed before the token is taken, so the slack of *)
(* one second has to pay for that token, and for what rounding took.       *)
(* Where it does not, the loss at an expiry is a token at most, and at     *)
(* most one expiry falls into a second, so that the limit is exceeded by a *)
(* token at most, and one per second: LossPaid.                            *)
(*                                                                         *)
(* An answer is kept although each check in between may round again: the   *)
(* two bounds NotLate and NotEarly relate what the bucket holds to the     *)
(* time left, and lose Eps with each millisecond in which a check is made, *)
(* never with each check.                                                  *)
(***************************************************************************)
EXTENDS TokenBucket, TLAPS

(* Products of integers: the few laws the bucket proofs need, stated for the
   solver, which does not find them inside larger goals. *)
LEMMA MulSucc ==
  ASSUME NEW m \in Int, NEW r \in Int
  PROVE  (m + 1) * r = m * r + r
  OBVIOUS

LEMMA MulPred ==
  ASSUME NEW m \in Int, NEW r \in Int
  PROVE  (m - 1) * r = m * r - r
  OBVIOUS

LEMMA MulNeg ==
  ASSUME NEW m \in Int, NEW n \in Int, NEW r \in Int
  PROVE  (m - n) * r = 0 - (n - m) * r
  OBVIOUS

LEMMA MulNat ==
  ASSUME NEW m \in Nat, NEW r \in Nat
  PROVE  m * r \in Nat
  OBVIOUS

LEMMA MulInt ==
  ASSUME NEW m \in Int, NEW r \in Int
  PROVE  m * r \in Int
  OBVIOUS

LEMMA MulDistr ==
  ASSUME NEW m \in Int, NEW n \in Int, NEW r \in Int
  PROVE  (m + n) * r = m * r + n * r
  OBVIOUS

LEMMA MulMono ==
  ASSUME NEW m \in Int, NEW n \in Int, NEW r \in Nat, m <= n
  PROVE  m * r <= n * r
  OBVIOUS

(* CeilDiv(a, b) is the least n with n * b >= a. *)
LEMMA CeilDivBounds ==
  ASSUME NEW a \in Nat, NEW b \in Nat \ {0}
  PROVE  /\ CeilDiv(a, b) \in Nat
         /\ CeilDiv(a, b) * b >= a
         /\ CeilDiv(a, b) * b < a + b
  BY DEF CeilDiv

-----------------------------------------------------------------------------

(* No check has refilled the bucket in this millisecond. *)
Fresh == key = "absent" \/ now > last_refill_ms

LEMMA ConstantsType ==
  /\ U \in Nat /\ R \in Nat \ {0} /\ Eps \in Nat /\ Eps < U /\ Slack \in Nat \ {0}
  /\ MaxTime \in Nat /\ Full \in Nat /\ Full >= U /\ Brim \in Nat /\ Brim = Full + Eps
<1>1. Capacity \in Nat /\ Capacity >= 1 /\ U \in Nat
  BY BucketAssumption
<1>2. 1 * U <= Capacity * U
  BY <1>1, MulMono
<1>3. Full \in Nat /\ Full >= U
  BY <1>1, <1>2, MulNat DEF Full
<1> QED BY <1>3, BucketAssumption, SlackAssumption DEF Brim

LEMMA WaitsBounds ==
  ASSUME NEW need \in Nat, NEW w \in Waits(need)
  PROVE  w \in Nat /\ w * R >= need - Eps /\ w * R < need + Eps + R
<1> USE ConstantsType
<1>1. CASE need = 0
  <2>1. w = 0 /\ 0 * R = 0
    BY <1>1 DEF Waits
  <2> QED BY <1>1, <2>1
<1>2. CASE need # 0
  <2> DEFINE lo == CeilDiv(MaxOf(1, need - Eps), R)
             hi == CeilDiv(need + Eps, R)
  <2>1. MaxOf(1, need - Eps) \in Nat /\ MaxOf(1, need - Eps) >= need - Eps /\ need + Eps \in Nat
    BY DEF MaxOf
  <2>2. lo \in Nat /\ lo * R >= MaxOf(1, need - Eps) /\ hi \in Nat /\ hi * R < need + Eps + R
    BY <2>1, CeilDivBounds
  <2>3. w \in lo .. hi
    BY <1>2 DEF Waits
  <2> HIDE DEF lo, hi
  <2>4. w \in Nat /\ lo * R <= w * R /\ w * R <= hi * R
    BY <2>2, <2>3, MulMono
  <2>5. lo * R \in Int /\ w * R \in Int /\ hi * R \in Int
    BY <2>2, <2>4, MulInt
  <2> QED BY <2>1, <2>2, <2>4, <2>5
<1> QED BY <1>1, <1>2

LEMMA FloorsType ==
  ASSUME NEW t \in 0 .. Full, NEW n \in Floors(t)
  PROVE  n \in Nat
<1>1. t \in Nat /\ U \in Nat \ {0} /\ t \div U \in Nat /\ (t + Eps) \div U \in Nat
  BY ConstantsType
<1> QED BY <1>1 DEF Floors

LEMMA RefilledType == TypeOK => Refilled \in 0 .. Brim
<1> SUFFICES ASSUME TypeOK PROVE Refilled \in 0 .. Brim
  OBVIOUS
<1>1. now - last_refill_ms \in Nat
  BY ConstantsType DEF TypeOK
<1>2. (now - last_refill_ms) * R \in Nat
  BY <1>1, ConstantsType, MulNat
<1> QED BY <1>2, ConstantsType DEF TypeOK, Refilled, MinOf

(* What a check finds: the refilled amount, rounded once per millisecond, and
   the capacity where the bucket is full beyond rounding. *)
LEMMA RefillsBounds ==
  ASSUME TypeOK, NEW b \in Refills
  PROVE  /\ b \in 0 .. Full
         /\ b >= Refilled - Eps /\ b <= Refilled + Eps
         /\ ~ Fresh => b = Refilled
         /\ Refilled = Brim => b = Full
<1> USE ConstantsType
<1>1. CASE key = "absent"
  BY <1>1 DEF Refills, Refilled, Fresh
<1>2. CASE key = "present" /\ now - last_refill_ms > 0
  <2> DEFINE x == tokens + (now - last_refill_ms) * R
  <2>1. x \in Nat
    <3>1. now - last_refill_ms \in Nat
      BY DEF TypeOK
    <3>2. (now - last_refill_ms) * R \in Nat
      BY <3>1, MulNat
    <3> QED BY <3>2 DEF TypeOK
  <2>2. b \in Rounded(x) /\ Refilled = MinOf(Brim, x) /\ Fresh
    BY <1>2 DEF Refills, Refilled, Fresh, TypeOK
  <2> HIDE DEF x
  <2> QED BY <2>1, <2>2 DEF Rounded, MinOf
<1>3. CASE key = "present" /\ ~ (now - last_refill_ms > 0)
  <2>1. now - last_refill_ms = 0 /\ ~ Fresh
    BY <1>3 DEF TypeOK, Fresh
  <2>2. (now - last_refill_ms) * R = 0
    BY <2>1
  <2>3. b = tokens /\ Refilled = tokens /\ tokens \in 0 .. Full
    BY <1>3, <2>2 DEF Refills, Refilled, TypeOK, MinOf
  <2> QED BY <2>1, <2>3
<1> QED BY <1>1, <1>2, <1>3 DEF TypeOK

(* A check reads the clock once, so right after it the bucket holds what it
   stored; and the deadline it arms gives the balance it found time to become
   full, and a second. *)
LEMMA WriteEffect ==
  ASSUME TypeOK, NEW b \in 0 .. Full, NEW t \in 0 .. Full, Write(b, t), now' = now
  PROVE  /\ key' = "present" /\ tokens' = t /\ last_refill_ms' = now
         /\ Refilled' = t /\ ~ Fresh'
         /\ expire_at' \in Nat
         /\ \E ttl \in Nat : /\ expire_at' = now + ttl /\ ttl >= Slack
                             /\ ttl * R >= Full - b - Eps + R * Slack
<1> USE ConstantsType
<1>1. key' = "present" /\ tokens' = t /\ last_refill_ms' = now
  BY DEF Write
<1>2. Refilled' = t
  <2>1. now' - last_refill_ms' = 0
    BY <1>1 DEF TypeOK
  <2>2. (now' - last_refill_ms') * R = 0
    BY <2>1
  <2>3. Refilled' = MinOf(Brim, tokens' + (now' - last_refill_ms') * R)
    BY <1>1 DEF Refilled, Brim, Full, MinOf
  <2> QED BY <1>1, <2>2, <2>3 DEF MinOf
<1>3. ~ Fresh'
  BY <1>1 DEF Fresh, TypeOK
<1>4. PICK w \in Waits(Full - b) : expire_at' = now + MaxOf(1, w + Slack)
  BY DEF Write, TTLs
<1>5. w \in Nat /\ w * R >= Full - b - Eps
  <2>1. Full - b \in Nat
    OBVIOUS
  <2> QED BY <2>1, WaitsBounds
<1>6. now \in Nat /\ expire_at' = now + (w + Slack) /\ w + Slack \in Nat /\ w + Slack >= Slack
  BY <1>4, <1>5 DEF MaxOf, TypeOK
<1>7. (w + Slack) * R = w * R + R * Slack
  BY <1>5, MulDistr
<1>8. w * R \in Int /\ R * Slack \in Int
  BY <1>5, MulInt
<1>9. (w + Slack) * R >= Full - b - Eps + R * Slack
  BY <1>5, <1>7, <1>8
<1> QED BY <1>1, <1>2, <1>3, <1>6, <1>9

(* What reset_at_ms of an answer announces. *)
Goal(r) == IF r.allowed = 1 THEN Full ELSE U

(* The answer r at time n announces its goal for the time when a bucket that
   holds t has gained what is missing, rounded. *)
Announces(r, n, t) ==
  /\ r \in Reply
  /\ (r.reset_at_ms - n) * R >= Goal(r) - t - Eps
  /\ (r.reset_at_ms - n) * R < Goal(r) - t + Eps + R

LEMMA AdmitEffect ==
  ASSUME TypeOK, Admit
  PROVE  \E b \in Refills, t \in 0 .. Full :
           /\ b \in 0 .. Full /\ b >= U /\ t >= b - U - Eps /\ t <= b - U + Eps
           /\ Write(b, t) /\ Announces(reply', now, t)
<1> USE ConstantsType
<1>1. PICK b \in Refills, t \in 0 .. Full :
        /\ b >= U /\ t \in Near(b - U) /\ Write(b, t)
        /\ \E n \in Floors(t), w \in Waits(Full - t) : reply' = Allow(n, now + w)
  BY DEF Admit
<1>2. PICK n \in Floors(t), w \in Waits(Full - t) : reply' = Allow(n, now + w)
  BY <1>1
<1>3. b \in 0 .. Full
  BY RefillsBounds
<1>4. t >= b - U - Eps /\ t <= b - U + Eps
  BY <1>1 DEF Near
<1>5. Full - t \in Nat /\ n \in Nat
  BY FloorsType
<1>6. w \in Nat /\ w * R >= Full - t - Eps /\ w * R < Full - t + Eps + R
  BY <1>5, WaitsBounds
<1>7. now \in Nat /\ now + w \in Nat
  BY <1>6 DEF TypeOK
<1>8. reply' \in Reply /\ reply'.reset_at_ms - now = w /\ Goal(reply') = Full
  BY <1>2, <1>5, <1>6, <1>7 DEF Allow, Reply, Goal
<1> QED BY <1>1, <1>3, <1>4, <1>6, <1>8 DEF Announces

LEMMA DenyEffect ==
  ASSUME TypeOK, Deny
  PROVE  \E b \in Refills :
           b \in 0 .. Full /\ b < U /\ Write(b, b) /\ Announces(reply', now, b)
<1> USE ConstantsType
<1>1. PICK b \in Refills :
        b < U /\ Write(b, b) /\ \E w \in Waits(U - b) : reply' = Block(w, now + w)
  BY DEF Deny
<1>2. PICK w \in Waits(U - b) : reply' = Block(w, now + w)
  BY <1>1
<1>3. b \in 0 .. Full
  BY RefillsBounds
<1>4. U - b \in Nat
  BY <1>1, <1>3
<1>5. w \in Nat /\ w * R >= U - b - Eps /\ w * R < U - b + Eps + R
  BY <1>4, WaitsBounds
<1>6. now \in Nat /\ now + w \in Nat
  BY <1>5 DEF TypeOK
<1>7. reply' \in Reply /\ reply'.reset_at_ms - now = w /\ Goal(reply') = U
  BY <1>2, <1>5, <1>6 DEF Block, Reply, Goal
<1> QED BY <1>1, <1>3, <1>5, <1>7 DEF Announces

-----------------------------------------------------------------------------

LEMMA InitType == Init => TypeOK
  BY ConstantsType DEF Init, TypeOK, Reply, NoReply

LEMMA TypeStep == TypeOK /\ [Next]_vars => TypeOK'
<1> SUFFICES ASSUME TypeOK, [Next]_vars PROVE TypeOK'
  OBVIOUS
<1> USE ConstantsType
<1>0. Full' = Full
  BY DEF Full
<1>1. CASE Tick
  BY <1>0, <1>1 DEF Tick, Remove, kvars, ovars, TypeOK
<1>2. CASE Expire
  BY <1>0, <1>2 DEF Expire, Remove, ovars, TypeOK
<1>3. CASE Admit
  <2>0. now' = now /\ from' = from /\ taken' = taken + 1 /\ told' = told
    BY <1>3 DEF Admit
  <2>1. PICK b \in Refills, t \in 0 .. Full :
          b \in 0 .. Full /\ Write(b, t) /\ Announces(reply', now, t)
    BY <1>3, AdmitEffect
  <2>2. /\ key' = "present" /\ tokens' = t /\ last_refill_ms' = now /\ expire_at' \in Nat
    BY <2>0, <2>1, WriteEffect
  <2> QED BY <1>0, <2>0, <2>1, <2>2 DEF TypeOK, Announces
<1>4. CASE Deny
  <2>0. now' = now /\ from' = from /\ taken' = taken /\ told' = told
    BY <1>4 DEF Deny
  <2>1. PICK b \in Refills : b \in 0 .. Full /\ Write(b, b) /\ Announces(reply', now, b)
    BY <1>4, DenyEffect
  <2>2. /\ key' = "present" /\ tokens' = b /\ last_refill_ms' = now /\ expire_at' \in Nat
    BY <2>0, <2>1, WriteEffect
  <2> QED BY <1>0, <2>0, <2>1, <2>2 DEF TypeOK, Announces
<1>5. CASE Observe
  BY <1>0, <1>5 DEF Observe, kvars, TypeOK
<1>6. CASE UNCHANGED vars
  BY <1>0, <1>6 DEF vars, TypeOK
<1> QED BY <1>1, <1>2, <1>3, <1>4, <1>5, <1>6 DEF Next

(* Types are kept by every step, and no check leaves more than the capacity
   in the bucket, or less than nothing, however it rounds. *)
THEOREM TokenBucketTypes == Spec => []TypeOK
  BY InitType, TypeStep, PTL DEF Spec

-----------------------------------------------------------------------------

(* What the expiry of a key may give away: the part of a token, and of the
   rounding, that the slack of the TTL does not pay for.  Nothing above one
   token per second. *)
Lost == MaxOf(0, U + 3 * Eps - R * Slack)

(* A key is kept for a second at least after each check, and when Redis drops
   it the bucket in it lacks at most Lost. *)
KeyLosesLittle ==
  key = "present" =>
    /\ now <= expire_at
    /\ expire_at - last_refill_ms >= Slack
    /\ tokens + (expire_at - last_refill_ms) * R >= Brim - Lost

LEMMA LossType ==
  /\ Lost \in Nat /\ R * Slack \in Nat
  /\ R * Slack + Lost = MaxOf(U + 3 * Eps, R * Slack)
  /\ FastRefill => Lost = 0
<1>1. R * Slack \in Nat
  BY ConstantsType, MulNat
<1> QED BY <1>1, ConstantsType DEF Lost, MaxOf, FastRefill

(* The deadline of a check that stores t of the balance b. *)
LEMMA DeadlineOfCheck ==
  ASSUME TypeOK, NEW b \in 0 .. Full, NEW t \in 0 .. Full, t >= b - U - Eps,
         Write(b, t), now' = now
  PROVE  KeyLosesLittle'
<1> USE ConstantsType
<1>1. PICK ttl \in Nat : /\ expire_at' = now + ttl /\ ttl >= Slack
                         /\ ttl * R >= Full - b - Eps + R * Slack
  BY WriteEffect
<1>2. key' = "present" /\ tokens' = t /\ last_refill_ms' = now /\ now \in Nat
  BY WriteEffect DEF TypeOK
<1> DEFINE gain == ttl * R
           slack == R * Slack
<1>3. gain \in Int /\ slack \in Int /\ gain >= Full - b - Eps + slack
  BY <1>1, MulInt
<1>4. Lost = MaxOf(0, U + 3 * Eps - slack)
  BY DEF Lost
<1> HIDE DEF gain, slack
<1>5. t + gain >= Brim - Lost
  BY <1>3, <1>4 DEF MaxOf
<1>6. Brim' = Brim /\ Lost' = Lost
  BY DEF Brim, Full, Lost, MaxOf
<1>7. now' <= expire_at' /\ expire_at' - last_refill_ms' = ttl
  BY <1>1, <1>2
<1>8. tokens' + (expire_at' - last_refill_ms') * R = t + gain
  BY <1>2, <1>7, Zenon DEF gain
<1> QED BY <1>1, <1>5, <1>6, <1>7, <1>8 DEF KeyLosesLittle

LEMMA KeyStep == TypeOK /\ KeyLosesLittle /\ [Next]_vars => KeyLosesLittle'
<1> SUFFICES ASSUME TypeOK, KeyLosesLittle, [Next]_vars PROVE KeyLosesLittle'
  OBVIOUS
<1> USE ConstantsType
<1>0. Brim' = Brim /\ Lost' = Lost
  BY DEF Brim, Full, Lost, MaxOf
<1>1. CASE Tick
  BY <1>0, <1>1 DEF Tick, Remove, kvars, KeyLosesLittle, TypeOK
<1>2. CASE Expire
  BY <1>2 DEF Expire, Remove, KeyLosesLittle
<1>3. CASE Admit
  <2>1. PICK b \in Refills, t \in 0 .. Full :
          b \in 0 .. Full /\ t >= b - U - Eps /\ Write(b, t)
    BY <1>3, AdmitEffect
  <2>2. now' = now
    BY <1>3 DEF Admit
  <2> QED BY <2>1, <2>2, DeadlineOfCheck
<1>4. CASE Deny
  <2>1. PICK b \in Refills : b \in 0 .. Full /\ Write(b, b)
    BY <1>4, DenyEffect
  <2>2. now' = now /\ b >= b - U - Eps
    BY <1>4, <2>1 DEF Deny
  <2> QED BY <2>1, <2>2, DeadlineOfCheck
<1>5. CASE Observe
  BY <1>0, <1>5 DEF Observe, kvars, KeyLosesLittle
<1>6. CASE UNCHANGED vars
  BY <1>0, <1>6 DEF vars, KeyLosesLittle
<1> QED BY <1>1, <1>2, <1>3, <1>4, <1>5, <1>6 DEF Next

(* Whatever the rate, Redis keeps the key a second at least after each check
   of token_bucket.lua, and gives away a token at most with it. *)
THEOREM TokenBucketKey == Spec => []KeyLosesLittle
<1>1. Init => KeyLosesLittle
  BY DEF Init, KeyLosesLittle
<1> QED BY <1>1, KeyStep, TokenBucketTypes, PTL DEF Spec

(* A key whose deadline has come. *)
LEMMA DeadlineReached ==
  ASSUME TypeOK, KeyLosesLittle, key = "present", now >= expire_at
  PROVE  Refilled + Lost >= Brim /\ now - last_refill_ms >= Slack /\ now > last_refill_ms
<1> USE ConstantsType, LossType
<1>1. now = expire_at /\ now - last_refill_ms \in Nat /\ now - last_refill_ms >= Slack
  BY DEF KeyLosesLittle, TypeOK
<1>2. tokens + (now - last_refill_ms) * R >= Brim - Lost
  BY <1>1 DEF KeyLosesLittle
<1>3. (now - last_refill_ms) * R \in Int /\ tokens \in Int
  BY <1>1, MulInt DEF TypeOK
<1>4. Refilled = MinOf(Brim, tokens + (now - last_refill_ms) * R)
  BY DEF Refilled
<1>5. Refilled + Lost >= Brim
  BY <1>2, <1>3, <1>4 DEF MinOf
<1> QED BY <1>1, <1>5 DEF TypeOK

(* With more than one token per second, Redis drops the key only when the
   bucket in it is full: the expiry cannot be observed. *)
THEOREM TokenBucketExpiry ==
  ASSUME FastRefill
  PROVE  Spec => []ExpiryIsUnobservable
<1>1. TypeOK /\ KeyLosesLittle => ExpiryIsUnobservable
  <2> SUFFICES ASSUME TypeOK, KeyLosesLittle, key = "present", now >= expire_at
               PROVE  Refilled = Brim
    BY DEF ExpiryIsUnobservable
  <2>1. Refilled + Lost >= Brim /\ Lost = 0
    BY DeadlineReached, LossType
  <2> QED BY <2>1, RefilledType, ConstantsType
<1> QED BY <1>1, TokenBucketKey, TokenBucketTypes, PTL

-----------------------------------------------------------------------------

(* How long the key has been idle, up to a second: the time it has already
   paid towards being dropped. *)
Idle == IF key = "absent" THEN 0 ELSE MinOf(now - last_refill_ms, Slack)

LEMMA IdleType == TypeOK => Idle \in 0 .. Slack
  BY ConstantsType DEF TypeOK, Idle, MinOf

(* The disappearance of a key, by active expiry or with a tick. *)
LEMMA RemoveEffect ==
  ASSUME TypeOK, KeyLosesLittle, key = "present", now >= expire_at, Remove
  PROVE  /\ Refilled + Lost >= Brim /\ Idle = Slack /\ Fresh
         /\ Refilled' = Brim /\ Idle' = 0 /\ Fresh'
<1>1. Refilled + Lost >= Brim /\ now - last_refill_ms >= Slack /\ now > last_refill_ms
  BY DeadlineReached
<1>2. Idle = Slack /\ Fresh
  BY <1>1, ConstantsType DEF Idle, Fresh, MinOf, TypeOK
<1>3. Refilled' = Brim /\ Idle' = 0 /\ Fresh'
  BY DEF Remove, Refilled, Idle, Fresh, Brim, Full
<1> QED BY <1>1, <1>2, <1>3

(* Refilling lazily over m + 1 milliseconds is refilling over m of them and
   then over one more. *)
LEMMA LazyRefill ==
  ASSUME NEW f \in Nat, NEW t \in 0 .. f, NEW m \in Nat
  PROVE  MinOf(f, t + (m + 1) * R) = MinOf(f, MinOf(f, t + m * R) + R)
<1>1. (m + 1) * R = m * R + R /\ m * R \in Nat /\ R \in Nat
  BY ConstantsType, MulSucc, MulNat
<1> QED BY <1>1 DEF MinOf

(* A millisecond is worth R units, unless Redis drops the key with it. *)
LEMMA TickEffect ==
  ASSUME TypeOK, KeyLosesLittle, Tick
  PROVE  /\ Fresh'
         /\ \/ Refilled' = MinOf(Brim, Refilled + R) /\ Idle' \in 0 .. Idle + 1
            \/ /\ Refilled + Lost >= Brim /\ Idle = Slack /\ Fresh
               /\ Refilled' = Brim /\ Idle' = 0
<1> USE ConstantsType
<1>1. CASE key = "absent"
  BY <1>1 DEF Tick, Refilled, Idle, Fresh, kvars, MinOf, Brim, Full
<1>2. CASE key = "present" /\ now + 1 > expire_at
  <2>1. now >= expire_at /\ Remove
    BY <1>2 DEF Tick, TypeOK
  <2> QED BY <1>2, <2>1, RemoveEffect
<1>3. CASE key = "present" /\ ~ (now + 1 > expire_at)
  <2>1. /\ key' = "present" /\ tokens' = tokens
        /\ last_refill_ms' = last_refill_ms /\ now' = now + 1
    BY <1>3 DEF Tick, kvars
  <2> DEFINE m == now - last_refill_ms
  <2>2. m \in Nat /\ now' - last_refill_ms' = m + 1 /\ now' > last_refill_ms'
        /\ tokens \in 0 .. Brim
    BY <2>1 DEF TypeOK
  <2>3. Refilled = MinOf(Brim, tokens + m * R)
    BY <1>3 DEF Refilled
  <2>4. Refilled' = MinOf(Brim, tokens + (now' - last_refill_ms') * R)
    BY <2>1 DEF Refilled, Brim, Full, MinOf
  <2>5. Idle' \in 0 .. Idle + 1 /\ Fresh'
    BY <1>3, <2>1, <2>2 DEF Idle, Fresh, MinOf
  <2> HIDE DEF m
  <2>6. MinOf(Brim, tokens + (m + 1) * R) = MinOf(Brim, MinOf(Brim, tokens + m * R) + R)
    BY ONLY <2>2, ConstantsType, LazyRefill, Zenon
  <2>7. Refilled' = MinOf(Brim, Refilled + R)
    BY <2>2, <2>3, <2>4, <2>6
  <2> QED BY <2>5, <2>7
<1> QED BY <1>1, <1>2, <1>3 DEF TypeOK

LEMMA ExpireEffect ==
  ASSUME TypeOK, KeyLosesLittle, Expire
  PROVE  /\ Refilled + Lost >= Brim /\ Idle = Slack /\ Fresh
         /\ Refilled' = Brim /\ Idle' = 0 /\ Fresh'
<1>1. key = "present" /\ now >= expire_at /\ Remove
  BY DEF Expire, TypeOK
<1> QED BY <1>1, RemoveEffect

-----------------------------------------------------------------------------

(* The ideal bucket, with the operators of this module. *)

LEMMA IdealFull == Ideal!Full = Full /\ Ideal!Brim = Brim
  BY DEF Ideal!Full, Full, Ideal!Brim, Brim

LEMMA IdealRounding ==
  ASSUME NEW x
  PROVE  /\ Ideal!Near(x) = Near(x) /\ Ideal!Rounded(x) = Rounded(x)
         /\ Ideal!Waits(x) = Waits(x) /\ Ideal!Floors(x) = Floors(x)
<1>1. Ideal!Near(x) = Near(x)
  BY IdealFull DEF Ideal!Near, Near
<1>2. Ideal!Rounded(x) = Rounded(x)
  BY IdealFull DEF Ideal!Rounded, Rounded, Ideal!MinOf, MinOf
<1>3. Ideal!Waits(x) = Waits(x)
  BY DEF Ideal!Waits, Waits, Ideal!CeilDiv, CeilDiv, Ideal!MaxOf, MaxOf
<1>4. Ideal!Floors(x) = Floors(x)
  BY DEF Ideal!Floors, Floors
<1> QED BY <1>1, <1>2, <1>3, <1>4

(* What the ideal bucket shows to a check is what token_bucket.lua finds. *)
LEMMA SeesIsRefills == TypeOK => Ideal!Sees = Refills
<1> SUFFICES ASSUME TypeOK PROVE Ideal!Sees = Refills
  OBVIOUS
<1> USE ConstantsType
<1>0. Ideal!Sees = IF Fresh THEN Rounded(Refilled) ELSE {Refilled}
  BY IdealRounding DEF Ideal!Sees, Fresh
<1>1. CASE key = "absent"
  <2>1. Rounded(Brim) = {Full}
    BY DEF Rounded, MinOf
  <2> QED BY <1>0, <1>1, <2>1 DEF Refills, Refilled, Fresh
<1>2. CASE key = "present" /\ now - last_refill_ms > 0
  <2> DEFINE x == tokens + (now - last_refill_ms) * R
  <2>1. x \in Nat
    <3>1. now - last_refill_ms \in Nat
      BY DEF TypeOK
    <3>2. (now - last_refill_ms) * R \in Nat
      BY <3>1, MulNat
    <3> QED BY <3>2 DEF TypeOK
  <2>2. Refills = Rounded(x) /\ Refilled = MinOf(Brim, x) /\ Fresh
    BY <1>2 DEF Refills, Refilled, Fresh, TypeOK
  <2> HIDE DEF x
  <2>3. Rounded(MinOf(Brim, x)) = Rounded(x)
    BY <2>1 DEF Rounded, MinOf
  <2> QED BY <1>0, <2>2, <2>3
<1>3. CASE key = "present" /\ ~ (now - last_refill_ms > 0)
  <2>1. now - last_refill_ms = 0 /\ ~ Fresh
    BY <1>3 DEF TypeOK, Fresh
  <2>2. (now - last_refill_ms) * R = 0
    BY <2>1
  <2>3. Refilled = tokens /\ Refills = {tokens}
    BY <1>3, <2>2 DEF Refills, Refilled, TypeOK, MinOf
  <2> QED BY <1>0, <2>1, <2>3
<1> QED BY <1>1, <1>2, <1>3 DEF TypeOK

LEMMA InitRefines == Init => Ideal!Init
  BY IdealFull DEF Init, Ideal!Init, Refilled, NoReply, Ideal!NoReply

LEMMA TickRefines ==
  ASSUME TypeOK, KeyLosesLittle, FastRefill, Tick
  PROVE  Ideal!Tick
<1> USE ConstantsType
<1>1. Refilled' = MinOf(Brim, Refilled + R) /\ Fresh'
  <2>1. Lost = 0 /\ Refilled \in 0 .. Brim
    BY LossType, RefilledType
  <2>2. Refilled + Lost >= Brim => MinOf(Brim, Refilled + R) = Brim
    BY <2>1 DEF MinOf
  <2> QED BY <2>2, TickEffect
<1>2. now < MaxTime /\ now' = now + 1 /\ reply' = reply /\ from' = from /\ taken' = taken /\ told' = told
  BY DEF Tick, ovars
<1>3. Refilled' = Ideal!MinOf(Ideal!Brim, Refilled + R)
  BY <1>1, IdealFull DEF Ideal!MinOf, MinOf
<1> QED BY <1>1, <1>2, <1>3 DEF Ideal!Tick, Fresh

LEMMA AdmitRefines ==
  ASSUME TypeOK, Admit
  PROVE  Ideal!Admit
<1>1. PICK b \in Refills, t \in 0 .. Full :
        /\ b >= U /\ t \in Near(b - U) /\ Write(b, t)
        /\ \E n \in Floors(t), w \in Waits(Full - t) : reply' = Allow(n, now + w)
  BY DEF Admit
<1>2. now' = now /\ from' = from /\ taken' = taken + 1 /\ told' = told
  BY DEF Admit
<1>3. Refilled' = t /\ ~ Fresh'
  <2>1. b \in 0 .. Full
    BY RefillsBounds
  <2> QED BY <1>1, <1>2, <2>1, WriteEffect
<1>4. \E n \in Ideal!Floors(t), w \in Ideal!Waits(Ideal!Full - t) : reply' = Ideal!Allow(n, now + w)
  BY <1>1, IdealFull, IdealRounding DEF Allow, Ideal!Allow
<1>5. b \in Ideal!Sees /\ t \in 0 .. Ideal!Full /\ t \in Ideal!Near(b - U)
  BY <1>1, SeesIsRefills, IdealFull, IdealRounding
<1> QED BY <1>1, <1>2, <1>3, <1>4, <1>5 DEF Ideal!Admit, Fresh

LEMMA DenyRefines ==
  ASSUME TypeOK, Deny
  PROVE  Ideal!Deny
<1>1. PICK b \in Refills :
        b < U /\ Write(b, b) /\ \E w \in Waits(U - b) : reply' = Block(w, now + w)
  BY DEF Deny
<1>2. now' = now /\ from' = from /\ taken' = taken /\ told' = told
  BY DEF Deny
<1>3. Refilled' = b /\ ~ Fresh'
  <2>1. b \in 0 .. Full
    BY RefillsBounds
  <2> QED BY <1>1, <1>2, <2>1, WriteEffect
<1>4. \E w \in Ideal!Waits(U - b) : reply' = Ideal!Block(w, now + w)
  BY <1>1, IdealRounding DEF Block, Ideal!Block
<1>5. b \in Ideal!Sees
  BY <1>1, SeesIsRefills
<1> QED BY <1>1, <1>2, <1>3, <1>4, <1>5 DEF Ideal!Deny, Fresh

LEMMA StepRefines ==
  ASSUME TypeOK, KeyLosesLittle, FastRefill, [Next]_vars
  PROVE  [Ideal!Next]_(Ideal!vars)
<1>1. CASE Tick
  BY <1>1, TickRefines DEF Ideal!Next
<1>2. CASE Expire
  <2>1. Refilled' = Refilled /\ Fresh' /\ Fresh
    <3>1. Refilled + Lost >= Brim /\ Refilled' = Brim /\ Fresh /\ Fresh'
      BY <1>2, ExpireEffect
    <3> QED BY <3>1, LossType, RefilledType, ConstantsType
  <2>2. now' = now /\ reply' = reply /\ from' = from /\ taken' = taken /\ told' = told
    BY <1>2 DEF Expire, ovars
  <2> QED BY <2>1, <2>2 DEF Ideal!vars, Fresh
<1>3. CASE Admit
  BY <1>3, AdmitRefines DEF Ideal!Next
<1>4. CASE Deny
  BY <1>4, DenyRefines DEF Ideal!Next
<1>5. CASE Observe
  <2>1. Refilled' = Refilled /\ (Fresh' <=> Fresh)
    BY <1>5 DEF Observe, kvars, Refilled, Fresh, Brim, Full, MinOf
  <2>2. Ideal!Observe
    BY <1>5, <2>1 DEF Observe, kvars, Ideal!Observe, Fresh
  <2> QED BY <2>2 DEF Ideal!Next
<1>6. CASE UNCHANGED vars
  <2>1. Refilled' = Refilled /\ (Fresh' <=> Fresh)
    BY <1>6 DEF vars, Refilled, Fresh, Brim, Full, MinOf
  <2> QED BY <1>6, <2>1 DEF vars, Ideal!vars, Fresh
<1> QED BY <1>1, <1>2, <1>3, <1>4, <1>5, <1>6 DEF Next

(* With more than one token per second a caller cannot tell the lazily
   refilled, expiring Redis key from an ideal bucket: every behaviour of
   token_bucket.lua is one of Bucket, with the same bound on rounding. *)
THEOREM TokenBucketImplementsBucket ==
  ASSUME FastRefill
  PROVE  Spec => ImplementsBucket
<1>1. TypeOK /\ KeyLosesLittle /\ [Next]_vars => [Ideal!Next]_(Ideal!vars)
  BY StepRefines
<1> QED BY <1>1, InitRefines, TokenBucketKey, TokenBucketTypes, PTL
        DEF Spec, ImplementsBucket, Ideal!Spec

-----------------------------------------------------------------------------

(* The limit that token_bucket.lua keeps at every rate, in every interval: one
   token at most above the capacity, and one token per second, or the
   configured rate where that is more; and what rounding adds. *)
RateBoundAnyRate ==
  (taken * (U - Eps)) * Slack
    <= (Full + Eps + Lost) * Slack
       + (now - from) * (MaxOf(U + 3 * Eps, R * Slack) + Eps * Slack)

(* What was taken or is left; the rounding of this millisecond's first check
   counts as long as it is to come. *)
Spent == taken * (U - Eps) + MinOf(Full, Refilled) + (IF Fresh THEN Eps ELSE 0)

(* What a millisecond adds to the budget, times a second. *)
Rate == (R + Eps) * Slack + Lost

(* A budget of d milliseconds covers x, and the time i that the key has been
   idle, which pays for the loss when Redis drops it. *)
Paid(x, i, d) == x * Slack + i * Lost <= (Full + Eps + Lost) * Slack + d * Rate

(* The inductive form of RateBoundAnyRate: a key that was idle for a second
   has not used the second's extra allowance. *)
LossPaid == Paid(Spent, Idle, now - from)

LEMMA RateType ==
  /\ Rate \in Nat /\ U - Eps \in Nat /\ R + Eps \in Nat
  /\ Rate = MaxOf(U + 3 * Eps, R * Slack) + Eps * Slack
<1>1. R + Eps \in Nat /\ U - Eps \in Nat /\ Slack \in Nat
  BY ConstantsType
<1>2. (R + Eps) * Slack \in Nat /\ Eps * Slack \in Nat /\ R * Slack \in Nat
  BY <1>1, ConstantsType, MulNat
<1>3. (R + Eps) * Slack = R * Slack + Eps * Slack
  BY ConstantsType, MulDistr
<1> DEFINE s == R * Slack
           m == MaxOf(U + 3 * Eps, R * Slack)
<1>4. s + Lost = m /\ Lost \in Nat
  BY LossType
<1>5. Rate = s + Eps * Slack + Lost
  BY <1>3 DEF Rate
<1> HIDE DEF s, m
<1>6. s \in Nat
  BY <1>2 DEF s
<1>7. Rate = m + Eps * Slack /\ Rate \in Nat
  BY <1>2, <1>4, <1>5, <1>6
<1> QED BY <1>1, <1>7 DEF m

LEMMA PaidType ==
  ASSUME NEW x \in Int, NEW i \in Int, NEW d \in Int
  PROVE  /\ x * Slack \in Int /\ i * Lost \in Int /\ d * Rate \in Int
         /\ (Full + Eps + Lost) * Slack \in Int
<1>1. Slack \in Int /\ Lost \in Int /\ Rate \in Int /\ Full + Eps + Lost \in Int
  BY ConstantsType, LossType, RateType
<1> QED BY <1>1, MulInt

(* The three ways in which a step moves the two sides of LossPaid. *)
LEMMA PaidByTime ==
  ASSUME NEW x \in Int, NEW i \in Int, NEW d \in Int, Paid(x, i, d),
         NEW y \in Int, NEW j \in Int, y <= x + R + Eps, j <= i + 1
  PROVE  Paid(y, j, d + 1)
<1>0. Slack \in Nat /\ Lost \in Nat /\ Rate \in Nat /\ R + Eps \in Nat
  BY ConstantsType, LossType, RateType
<1>1. y * Slack <= x * Slack + (R + Eps) * Slack
  <2>1. y <= x + (R + Eps) /\ x + (R + Eps) \in Int
    BY ConstantsType
  <2>2. y * Slack <= (x + (R + Eps)) * Slack
    BY <1>0, <2>1, MulMono
  <2> QED BY <1>0, <2>2, MulDistr
<1>2. j * Lost <= i * Lost + Lost
  <2>1. j * Lost <= (i + 1) * Lost
    BY <1>0, MulMono
  <2> QED BY <1>0, <2>1, MulSucc
<1>3. (d + 1) * Rate = d * Rate + Rate
  BY <1>0, MulSucc
<1>4. /\ x * Slack \in Int /\ i * Lost \in Int /\ d * Rate \in Int
      /\ y * Slack \in Int /\ j * Lost \in Int /\ (Full + Eps + Lost) * Slack \in Int
      /\ (R + Eps) * Slack \in Int
  BY <1>0, PaidType, MulInt
<1>5. Rate = (R + Eps) * Slack + Lost
  BY DEF Rate
<1> DEFINE xs == x * Slack
           ys == y * Slack
           il == i * Lost
           jl == j * Lost
           dr == d * Rate
           budget == (Full + Eps + Lost) * Slack
           rs == (R + Eps) * Slack
<1>6. xs + il <= budget + dr
  BY DEF Paid
<1>7. ys <= xs + rs /\ jl <= il + Lost /\ (d + 1) * Rate = dr + Rate /\ Rate = rs + Lost
  BY <1>1, <1>2, <1>3, <1>5
<1>8. xs \in Int /\ ys \in Int /\ il \in Int /\ jl \in Int /\ dr \in Int /\ budget \in Int /\ rs \in Int
  BY <1>4
<1>9. Paid(y, j, d + 1) <=> ys + jl <= budget + (d + 1) * Rate
  BY DEF Paid
<1> HIDE DEF xs, ys, il, jl, dr, budget, rs
<1> QED BY <1>0, <1>6, <1>7, <1>8, <1>9

LEMMA PaidByIdling ==
  ASSUME NEW x \in Int, NEW d \in Int, Paid(x, Slack, d),
         NEW y \in Int, y <= x + Lost
  PROVE  Paid(y, 0, d)
<1>0. Slack \in Nat /\ Lost \in Nat
  BY ConstantsType, LossType
<1>1. y * Slack <= x * Slack + Lost * Slack
  <2>1. x + Lost \in Int
    BY <1>0
  <2>2. y * Slack <= (x + Lost) * Slack
    BY <1>0, <2>1, MulMono
  <2> QED BY <1>0, <2>2, MulDistr
<1>2. Slack * Lost = Lost * Slack /\ 0 * Lost = 0
  BY <1>0
<1>3. /\ x * Slack \in Int /\ Lost * Slack \in Int /\ d * Rate \in Int
      /\ y * Slack \in Int /\ (Full + Eps + Lost) * Slack \in Int
  BY <1>0, PaidType, MulInt
<1> QED BY <1>1, <1>2, <1>3 DEF Paid

LEMMA PaidNothing ==
  ASSUME NEW x \in Int, NEW i \in Int, NEW d \in Int, Paid(x, i, d),
         NEW y \in Int, NEW j \in Int, NEW c \in Int, y <= x, j <= i, d <= c
  PROVE  Paid(y, j, c)
<1>1. y * Slack <= x * Slack /\ j * Lost <= i * Lost /\ d * Rate <= c * Rate
  BY ConstantsType, LossType, RateType, MulMono
<1>2. /\ x * Slack \in Int /\ i * Lost \in Int /\ d * Rate \in Int
      /\ y * Slack \in Int /\ j * Lost \in Int /\ c * Rate \in Int
      /\ (Full + Eps + Lost) * Slack \in Int
  BY PaidType
<1> QED BY <1>1, <1>2 DEF Paid

(* Every observation starts with the whole budget. *)
LEMMA PaidAtStart ==
  ASSUME NEW x \in Int, x <= Full + Eps, NEW i \in Int, i <= Slack
  PROVE  Paid(x, i, 0)
<1>0. Slack \in Nat /\ Lost \in Nat /\ Full + Eps \in Int /\ Rate \in Nat
  BY ConstantsType, LossType, RateType
<1>1. (Full + Eps + Lost) * Slack = (Full + Eps) * Slack + Lost * Slack /\ 0 * Rate = 0
  BY <1>0, MulDistr
<1>2. (Full + Eps) * Slack \in Int /\ Lost * Slack \in Int /\ Slack * Lost = Lost * Slack
  BY <1>0, MulInt
<1>3. Paid(Full + Eps, Slack, 0)
  BY <1>1, <1>2 DEF Paid
<1>4. Slack \in Int
  BY <1>0
<1> QED BY <1>0, <1>3, <1>4, PaidNothing

LEMMA SpentType ==
  ASSUME TypeOK
  PROVE  /\ Spent \in Int /\ taken * (U - Eps) \in Nat /\ MinOf(Full, Refilled) \in Nat
         /\ Refilled \in 0 .. Brim /\ Idle \in Int /\ Idle <= Slack
         /\ now \in Nat /\ from \in Nat /\ now - from \in Int
<1>1. taken * (U - Eps) \in Nat
  BY RateType, MulNat DEF TypeOK
<1>2. Refilled \in 0 .. Brim /\ Idle \in 0 .. Slack
  BY RefilledType, IdleType
<1>3. MinOf(Full, Refilled) \in Nat
  BY <1>2, ConstantsType DEF MinOf
<1> QED BY <1>1, <1>2, <1>3, ConstantsType DEF TypeOK, Spent

LEMMA LossPaidNext == LossPaid' <=> Paid(Spent', Idle', now' - from')
  BY DEF LossPaid, Paid, Lost, Rate, Full, MaxOf

LEMMA SpentNext ==
  Spent' = taken' * (U - Eps) + MinOf(Full, Refilled') + (IF Fresh' THEN Eps ELSE 0)
  BY DEF Spent, MinOf, Full

(* A check finds no more than is left and may be rounded. *)
LEMMA FoundIsLeft ==
  ASSUME TypeOK, NEW b \in Refills
  PROVE  b <= MinOf(Full, Refilled) + (IF Fresh THEN Eps ELSE 0)
<1>1. /\ b \in 0 .. Full /\ b <= Refilled + Eps
      /\ ~ Fresh => b = Refilled
  BY RefillsBounds
<1>2. Refilled \in 0 .. Brim /\ Full \in Nat /\ Eps \in Nat /\ Brim = Full + Eps
  BY RefilledType, ConstantsType
<1>3. CASE Fresh
  BY <1>1, <1>2, <1>3 DEF MinOf
<1>4. CASE ~ Fresh
  BY <1>1, <1>2, <1>4 DEF MinOf
<1> QED BY <1>3, <1>4

(* Right after a check the key has not been idle. *)
LEMMA IdleAfterWrite ==
  ASSUME TypeOK, NEW b, NEW t, Write(b, t), now' = now
  PROVE  Idle' = 0
<1>1. key' = "present" /\ last_refill_ms' = now /\ now \in Int
  BY ConstantsType DEF Write, TypeOK
<1>2. now' - last_refill_ms' = 0
  BY <1>1
<1> QED BY <1>1, <1>2, ConstantsType DEF Idle, MinOf

LEMMA AdmitPays ==
  ASSUME TypeOK, Admit
  PROVE  Spent' \in Int /\ Spent' <= Spent /\ Idle' = 0
<1> USE ConstantsType
<1>1. PICK b \in Refills, t \in 0 .. Full :
        b \in 0 .. Full /\ b >= U /\ t <= b - U + Eps /\ Write(b, t)
  BY AdmitEffect
<1>2. now' = now /\ taken' = taken + 1 /\ taken \in Int /\ U - Eps \in Int
  BY RateType DEF Admit, TypeOK
<1>3. Refilled' = t /\ ~ Fresh' /\ Idle' = 0
  BY <1>1, <1>2, WriteEffect, IdleAfterWrite
<1>4. (taken + 1) * (U - Eps) = taken * (U - Eps) + (U - Eps)
  BY <1>2, MulSucc
<1>5. Spent' = taken * (U - Eps) + (U - Eps) + t
  BY <1>2, <1>3, <1>4, SpentNext DEF MinOf
<1>6. b <= MinOf(Full, Refilled) + (IF Fresh THEN Eps ELSE 0)
  BY FoundIsLeft
<1>7. taken * (U - Eps) \in Nat /\ MinOf(Full, Refilled) \in Nat
  BY SpentType
<1>8. Spent' \in Int /\ Spent' <= Spent
  BY <1>1, <1>5, <1>6, <1>7 DEF Spent
<1> QED BY <1>3, <1>8

LEMMA DenyPays ==
  ASSUME TypeOK, Deny
  PROVE  Spent' \in Int /\ Spent' <= Spent /\ Idle' = 0
<1> USE ConstantsType
<1>1. PICK b \in Refills : b \in 0 .. Full /\ Write(b, b)
  BY DenyEffect
<1>2. now' = now /\ taken' = taken
  BY DEF Deny
<1>3. Refilled' = b /\ ~ Fresh' /\ Idle' = 0
  BY <1>1, <1>2, WriteEffect, IdleAfterWrite
<1>4. Spent' = taken * (U - Eps) + b
  BY <1>1, <1>2, <1>3, SpentNext, SpentType DEF MinOf
<1>5. b <= MinOf(Full, Refilled) + (IF Fresh THEN Eps ELSE 0)
  BY FoundIsLeft
<1>6. taken * (U - Eps) \in Nat /\ MinOf(Full, Refilled) \in Nat
  BY SpentType
<1>7. Spent' \in Int /\ Spent' <= Spent
  BY <1>1, <1>4, <1>5, <1>6 DEF Spent
<1> QED BY <1>3, <1>7

(* A key that is dropped in state s, be it by a tick. *)
LEMMA DropPays ==
  ASSUME TypeOK, Refilled + Lost >= Brim, Fresh, Refilled' = Brim, Fresh', taken' = taken
  PROVE  Spent' \in Int /\ Spent' <= Spent + Lost
<1> USE ConstantsType, LossType
<1>1. taken * (U - Eps) \in Nat /\ Refilled \in 0 .. Brim
  BY SpentType
<1>2. Spent' = taken * (U - Eps) + Full + Eps
  BY <1>1, SpentNext DEF MinOf
<1>3. Spent = taken * (U - Eps) + MinOf(Full, Refilled) + Eps
  BY DEF Spent
<1> QED BY <1>1, <1>2, <1>3 DEF MinOf

LEMMA TickPays ==
  ASSUME TypeOK, Refilled' = MinOf(Brim, Refilled + R), Fresh', taken' = taken
  PROVE  Spent' \in Int /\ Spent' <= Spent + R + Eps
<1> USE ConstantsType
<1>1. taken * (U - Eps) \in Nat /\ Refilled \in 0 .. Brim
  BY SpentType
<1>2. Spent' = taken * (U - Eps) + MinOf(Full, MinOf(Brim, Refilled + R)) + Eps
  BY SpentNext
<1>3. MinOf(Full, MinOf(Brim, Refilled + R)) \in Nat
      /\ MinOf(Full, MinOf(Brim, Refilled + R)) <= MinOf(Full, Refilled) + R
      /\ MinOf(Full, Refilled) \in Nat
  BY <1>1 DEF MinOf
<1> QED BY <1>1, <1>2, <1>3 DEF Spent

LEMMA LossPaidStep == TypeOK /\ KeyLosesLittle /\ LossPaid /\ [Next]_vars => LossPaid'
<1> SUFFICES ASSUME TypeOK, KeyLosesLittle, LossPaid, [Next]_vars PROVE LossPaid'
  OBVIOUS
<1>0. /\ Spent \in Int /\ Idle \in Int /\ now - from \in Int /\ now \in Nat /\ from \in Nat
      /\ Paid(Spent, Idle, now - from)
  BY SpentType DEF LossPaid
<1>1. CASE Tick
  <2>1. taken' = taken /\ now' - from' = (now - from) + 1 /\ (now - from) + 1 \in Int
    BY <1>0, <1>1 DEF Tick, ovars
  <2>2. CASE Refilled' = MinOf(Brim, Refilled + R) /\ Idle' \in 0 .. Idle + 1
    <3>1. Spent' \in Int /\ Spent' <= Spent + R + Eps
      BY <1>1, <2>1, <2>2, TickEffect, TickPays
    <3>2. Idle' \in Int /\ Idle' <= Idle + 1
      BY <1>0, <2>2
    <3>3. Paid(Spent', Idle', (now - from) + 1)
      BY ONLY <1>0, <3>1, <3>2, PaidByTime
    <3> QED BY <2>1, <3>3, LossPaidNext
  <2>3. CASE Refilled + Lost >= Brim /\ Idle = Slack /\ Fresh /\ Refilled' = Brim /\ Idle' = 0
    <3>1. Spent' \in Int /\ Spent' <= Spent + Lost
      BY <1>1, <2>1, <2>3, TickEffect, DropPays
    <3>2. Paid(Spent, Slack, now - from)
      BY <1>0, <2>3
    <3>3. Paid(Spent', 0, now - from)
      BY ONLY <1>0, <3>1, <3>2, PaidByIdling
    <3>4. now - from <= (now - from) + 1 /\ 0 \in Int /\ 0 <= 0
      BY <1>0
    <3>5. Paid(Spent', 0, (now - from) + 1)
      <4>1. Spent' <= Spent'
        BY <3>1
      <4> QED BY ONLY <1>0, <2>1, <3>1, <3>3, <3>4, <4>1, PaidNothing
    <3> QED BY <2>1, <2>3, <3>5, LossPaidNext
  <2> QED BY <1>1, <2>2, <2>3, TickEffect
<1>2. CASE Expire
  <2>1. /\ Refilled + Lost >= Brim /\ Idle = Slack /\ Fresh
        /\ Refilled' = Brim /\ Idle' = 0 /\ Fresh'
    BY <1>2, ExpireEffect
  <2>2. taken' = taken /\ from' = from /\ now' = now
    BY <1>2 DEF Expire, ovars
  <2>3. Spent' \in Int /\ Spent' <= Spent + Lost
    BY <2>1, <2>2, DropPays
  <2>4. Paid(Spent, Slack, now - from)
    BY <1>0, <2>1
  <2>5. Paid(Spent', 0, now - from)
    BY ONLY <1>0, <2>3, <2>4, PaidByIdling
  <2> QED BY <2>1, <2>2, <2>5, LossPaidNext
<1>3. CASE Admit \/ Deny
  <2>1. Spent' \in Int /\ Spent' <= Spent /\ Idle' = 0 /\ now' - from' = now - from
    BY <1>3, AdmitPays, DenyPays DEF Admit, Deny
  <2>2. 0 \in Int /\ 0 <= Idle /\ now - from <= now - from
    BY <1>0, IdleType
  <2>3. Paid(Spent', 0, now - from)
    BY ONLY <1>0, <2>1, <2>2, PaidNothing
  <2> QED BY <2>1, <2>3, LossPaidNext
<1>4. CASE Observe
  <2>1. Refilled' = Refilled /\ (Fresh' <=> Fresh) /\ Idle' = Idle /\ taken' = 0 /\ from' = now /\ now' = now
    BY <1>4 DEF Observe, kvars, Refilled, Fresh, Idle, MinOf, Brim, Full
  <2>2. 0 * (U - Eps) = 0
    BY RateType
  <2>3. Spent' = MinOf(Full, Refilled) + (IF Fresh THEN Eps ELSE 0)
    BY <2>1, <2>2, SpentNext, SpentType, ConstantsType
  <2>4. Spent' \in Int /\ Spent' <= Full + Eps /\ Idle' \in Int /\ Idle' <= Slack
    <3>1. MinOf(Full, Refilled) \in Nat /\ MinOf(Full, Refilled) <= Full
      BY SpentType, ConstantsType DEF MinOf
    <3> QED BY <2>1, <2>3, <3>1, SpentType, ConstantsType
  <2>5. Paid(Spent', Idle', 0) /\ now' - from' = 0
    BY <1>0, <2>1, <2>4, PaidAtStart
  <2> QED BY <2>5, LossPaidNext
<1>5. CASE UNCHANGED vars
  <2>1. Refilled' = Refilled /\ (Fresh' <=> Fresh) /\ Idle' = Idle /\ taken' = taken /\ from' = from /\ now' = now
    BY <1>5 DEF vars, Refilled, Fresh, Idle, MinOf, Brim, Full
  <2>2. Spent' = Spent
    BY <2>1, SpentNext DEF Spent
  <2> QED BY <1>0, <2>1, <2>2, LossPaidNext
<1> QED BY <1>1, <1>2, <1>3, <1>4, <1>5 DEF Next

LEMMA LossPaidInit == Init => LossPaid
<1> SUFFICES ASSUME Init PROVE LossPaid
  OBVIOUS
<1>1. Refilled = Brim /\ Fresh /\ Idle = 0 /\ now - from = 0 /\ taken = 0
  BY DEF Init, Refilled, Fresh, Idle
<1>2. 0 * (U - Eps) = 0
  BY RateType
<1>3. Spent = Full + Eps
  BY <1>1, <1>2, ConstantsType DEF Spent, MinOf
<1>4. Full + Eps \in Int /\ 0 \in Int /\ 0 <= Slack /\ Full + Eps <= Full + Eps
  BY ConstantsType
<1> QED BY <1>1, <1>3, <1>4, PaidAtStart DEF LossPaid

LEMMA TokenBucketPaid == Spec => []LossPaid
  BY LossPaidInit, LossPaidStep, TokenBucketKey, TokenBucketTypes, PTL DEF Spec

LEMMA LossPaidBounds == TypeOK /\ LossPaid => RateBoundAnyRate
<1> SUFFICES ASSUME TypeOK, LossPaid PROVE RateBoundAnyRate
  OBVIOUS
<1>1. /\ taken * (U - Eps) \in Nat /\ MinOf(Full, Refilled) \in Nat /\ Spent \in Int
      /\ Idle \in 0 .. Slack /\ Idle \in Int /\ now - from \in Int
  BY SpentType, IdleType
<1>2. Paid(Spent, Idle, now - from)
  BY DEF LossPaid
<1>3. taken * (U - Eps) \in Int /\ taken * (U - Eps) <= Spent /\ 0 \in Int /\ 0 <= Idle
  BY <1>1, ConstantsType DEF Spent
<1>4. now - from <= now - from
  BY <1>1
<1>5. Paid(taken * (U - Eps), 0, now - from)
  BY ONLY <1>1, <1>2, <1>3, <1>4, PaidNothing
<1>6. 0 * Lost = 0 /\ (taken * (U - Eps)) * Slack \in Int
  BY <1>1, LossType, ConstantsType, MulInt
<1>7. (taken * (U - Eps)) * Slack <= (Full + Eps + Lost) * Slack + (now - from) * Rate
  BY <1>5, <1>6 DEF Paid
<1> QED BY <1>7, RateType DEF RateBoundAnyRate

(* Whatever the rate, token_bucket.lua admits in no interval more than
   capacity + 1 checks and one per second, or the configured rate where that
   is more, and what rounding adds. *)
THEOREM TokenBucketAnyRate == Spec => [](KeyLosesLittle /\ RateBoundAnyRate)
  BY LossPaidBounds, TokenBucketPaid, TokenBucketKey, TokenBucketTypes, PTL

LEMMA NothingLost ==
  ASSUME FastRefill, TypeOK, LossPaid
  PROVE  RateBound
<1> DEFINE budget == Full + Eps + (now - from) * (R + Eps)
<1>0. Slack \in Nat \ {0} /\ Lost = 0 /\ R + Eps \in Int /\ Full + Eps \in Int
  BY ConstantsType, LossType
<1>1. Spent \in Int /\ Idle \in Int /\ now - from \in Int
  BY SpentType
<1>2. Rate = (R + Eps) * Slack + 0
  BY <1>0 DEF Rate
<1>3. (now - from) * (R + Eps) \in Int /\ budget \in Int /\ (R + Eps) * Slack \in Int
  <2>1. (now - from) * (R + Eps) \in Int /\ (R + Eps) * Slack \in Int
    BY <1>0, <1>1, MulInt
  <2> QED BY <1>0, <2>1
<1>4. Rate = (R + Eps) * Slack
  BY <1>2, <1>3
<1>5. (now - from) * ((R + Eps) * Slack) = ((now - from) * (R + Eps)) * Slack
  <2> DEFINE a == now - from
             c == R + Eps
  <2>1. a \in Int /\ c \in Int
    BY <1>0, <1>1
  <2> HIDE DEF a, c
  <2>2. a * (c * Slack) = (a * c) * Slack
    BY <1>0, <2>1
  <2> QED BY <2>2 DEF a, c
<1>6. budget * Slack = (Full + Eps) * Slack + ((now - from) * (R + Eps)) * Slack
  BY <1>0, <1>3, MulDistr
<1>7. Idle * Lost = 0 /\ Full + Eps + Lost = Full + Eps
  BY <1>0, <1>1
<1>8. Spent * Slack + 0 <= (Full + Eps) * Slack + ((now - from) * (R + Eps)) * Slack
  <2>1. Spent * Slack + Idle * Lost <= (Full + Eps + Lost) * Slack + (now - from) * Rate
    BY DEF LossPaid, Paid
  <2> QED BY <1>4, <1>5, <1>7, <2>1
<1>9. Spent * Slack <= budget * Slack
  <2>1. Spent * Slack \in Int
    BY <1>0, <1>1, MulInt
  <2> QED BY <1>6, <1>8, <2>1
<1> HIDE DEF budget
<1>10. Spent <= budget
  <2>1. Spent >= budget + 1 => (budget + 1) * Slack <= Spent * Slack
    BY <1>0, <1>1, <1>3, MulMono
  <2>2. (budget + 1) * Slack = budget * Slack + Slack
    BY <1>0, <1>3, MulSucc
  <2>3. budget * Slack \in Int /\ Spent * Slack \in Int
    BY <1>0, <1>1, <1>3, MulInt
  <2> QED BY <1>0, <1>1, <1>3, <1>9, <2>1, <2>2, <2>3
<1>11. /\ taken * (U - Eps) \in Int /\ MinOf(Full, Refilled) \in Int
       /\ Ideal!MinOf(Ideal!Full, Refilled) = MinOf(Full, Refilled)
  BY SpentType, IdealFull DEF Ideal!MinOf, MinOf
<1>12. taken * (U - Eps) + MinOf(Full, Refilled)
         <= Full + (now - from) * (R + Eps) + (IF Fresh THEN 0 ELSE Eps)
  BY <1>3, <1>10, <1>11, ConstantsType DEF Spent, budget
<1> QED BY <1>11, <1>12, IdealFull DEF RateBound, Ideal!RateBound, Fresh

(* With more than one token per second, token_bucket.lua honours its limit in
   every interval, expiry of the key included: capacity + rate * interval, and
   what rounding adds in the milliseconds that see a check. *)
THEOREM TokenBucketRate ==
  ASSUME FastRefill
  PROVE  Spec => []RateBound
<1>1. TypeOK /\ LossPaid => RateBound
  BY NothingLost
<1> QED BY <1>1, TokenBucketPaid, TokenBucketTypes, PTL

-----------------------------------------------------------------------------

(* Milliseconds of the interval in which a refill may have been rounded. *)
Drift == (now - from) + (IF Fresh THEN 0 ELSE 1)

(* A bucket that holds a at time n reaches what r announced in time, but for k
   roundings and the one of the answer itself; so it does when it is full
   beyond rounding. *)
NotLate(r, a, n, k) ==
  a = Brim \/ a + (r.reset_at_ms - n) * R + (k + 1) * Eps >= Goal(r)

(* It does not reach it more than a millisecond before, but for roundings. *)
NotEarly(r, a, n, k) ==
  a + (r.reset_at_ms - n) * R < Goal(r) + (k + 1) * Eps + R

(* The last answer, and the one that was the last when the observer began,
   unless a check was admitted since. *)
OnTime ==
  /\ reply # NoReply => NotLate(reply, Refilled, now, 0)
  /\ told # NoReply /\ taken = 0 => NotLate(told, Refilled, now, Drift)

OnTimeOnly ==
  /\ reply # NoReply => NotEarly(reply, Refilled, now, 0)
  /\ told # NoReply /\ taken = 0 => NotEarly(told, Refilled, now, Drift)

(* The half of AnswersKept that holds at every rate: whoever waits as told,
   and as much longer as rounding may ask for, finds what was announced. *)
NeverLate ==
  told # NoReply /\ taken = 0 /\ (now - told.reset_at_ms) * R >= (now - from + 2) * Eps
    => \A b \in Refills : b >= Goal(told)

(* The other half. *)
NeverEarly ==
  told # NoReply /\ taken = 0 /\ (told.reset_at_ms - now - 1) * R >= (now - from + 2) * Eps
    => \A b \in Refills : b < Goal(told)

LEMMA GoalType ==
  ASSUME NEW r
  PROVE  Goal(r) \in Nat /\ Goal(r) >= U /\ Goal(r) <= Full
  BY ConstantsType DEF Goal

LEMMA DriftType == TypeOK => Drift \in Nat
  BY ConstantsType DEF TypeOK, Drift

(* The terms of the two bounds. *)
LEMMA BoundsType ==
  ASSUME NEW r \in Reply, NEW n \in Nat, NEW k \in Nat
  PROVE  /\ r.reset_at_ms \in Nat
         /\ (r.reset_at_ms - n) * R \in Int /\ (k + 1) * Eps \in Nat
         /\ (r.reset_at_ms - (n + 1)) * R = (r.reset_at_ms - n) * R - R
         /\ ((k + 1) + 1) * Eps = (k + 1) * Eps + Eps
         /\ \A j \in Nat : k <= j => (k + 1) * Eps <= (j + 1) * Eps /\ (j + 1) * Eps \in Nat
<1> USE ConstantsType
<1>1. r.reset_at_ms \in Nat
  BY DEF Reply
<1>2. (r.reset_at_ms - n) * R \in Int /\ (k + 1) * Eps \in Nat
  BY <1>1, MulInt, MulNat
<1>3. r.reset_at_ms - (n + 1) = (r.reset_at_ms - n) - 1 /\ r.reset_at_ms - n \in Int
  BY <1>1
<1>4. (r.reset_at_ms - (n + 1)) * R = (r.reset_at_ms - n) * R - R
  BY <1>3, MulPred
<1>5. ((k + 1) + 1) * Eps = (k + 1) * Eps + Eps
  BY MulSucc
<1>6. ASSUME NEW j \in Nat, k <= j PROVE (k + 1) * Eps <= (j + 1) * Eps /\ (j + 1) * Eps \in Nat
  BY <1>6, MulMono, MulNat
<1> QED BY <1>1, <1>2, <1>4, <1>5, <1>6

(* A tick brings the announced time and the announced amount as much closer. *)
LEMMA TickOnTime ==
  ASSUME NEW r \in Reply, NEW a \in 0 .. Brim, NEW n \in Nat, NEW k \in Nat, NEW j \in Nat, k <= j
  PROVE  /\ NotLate(r, a, n, k) => NotLate(r, MinOf(Brim, a + R), n + 1, j)
         /\ NotEarly(r, a, n, k) => NotEarly(r, MinOf(Brim, a + R), n + 1, j)
<1> DEFINE left == (r.reset_at_ms - n) * R
           next == (r.reset_at_ms - (n + 1)) * R
           was == (k + 1) * Eps
           is == (j + 1) * Eps
<1>1. left \in Int /\ next = left - R /\ was \in Nat /\ is \in Nat /\ was <= is
  BY BoundsType
<1>2. /\ NotLate(r, a, n, k) <=> a = Brim \/ a + left + was >= Goal(r)
      /\ NotEarly(r, a, n, k) <=> a + left < Goal(r) + was + R
  BY DEF NotLate, NotEarly
<1>3. \A b : /\ NotLate(r, b, n + 1, j) <=> b = Brim \/ b + next + is >= Goal(r)
             /\ NotEarly(r, b, n + 1, j) <=> b + next < Goal(r) + is + R
  BY DEF NotLate, NotEarly
<1> HIDE DEF left, next, was, is
<1>4. a \in Nat /\ a <= Brim /\ R \in Nat /\ Brim \in Nat /\ Goal(r) \in Nat
  BY ConstantsType, GoalType
<1>5. CASE a + R <= Brim
  <2>1. MinOf(Brim, a + R) = a + R
    BY <1>4, <1>5 DEF MinOf
  <2>2. a = Brim => MinOf(Brim, a + R) = Brim
    BY <1>4 DEF MinOf
  <2> QED BY <1>1, <1>2, <1>3, <1>4, <2>1, <2>2
<1>6. CASE ~ (a + R <= Brim)
  <2>1. MinOf(Brim, a + R) = Brim /\ Brim < a + R
    BY <1>4, <1>6 DEF MinOf
  <2> QED BY <1>1, <1>2, <1>3, <1>4, <2>1
<1> QED BY <1>5, <1>6

(* A denied check rounds once more. *)
LEMMA DenyOnTime ==
  ASSUME NEW r \in Reply, NEW a \in 0 .. Brim, NEW n \in Nat, NEW k \in Nat,
         NEW b \in 0 .. Full, b >= a - Eps, b <= a + Eps, a = Brim => b = Full, b < U
  PROVE  /\ NotLate(r, a, n, k) => NotLate(r, b, n, k + 1)
         /\ NotEarly(r, a, n, k) => NotEarly(r, b, n, k + 1)
<1> DEFINE left == (r.reset_at_ms - n) * R
           was == (k + 1) * Eps
           is == ((k + 1) + 1) * Eps
<1>1. left \in Int /\ was \in Nat /\ is = was + Eps
  BY BoundsType
<1>2. /\ NotLate(r, a, n, k) <=> a = Brim \/ a + left + was >= Goal(r)
      /\ NotEarly(r, a, n, k) <=> a + left < Goal(r) + was + R
      /\ NotLate(r, b, n, k + 1) <=> b = Brim \/ b + left + is >= Goal(r)
      /\ NotEarly(r, b, n, k + 1) <=> b + left < Goal(r) + is + R
  BY DEF NotLate, NotEarly
<1> HIDE DEF left, was, is
<1>3. a # Brim
  BY ConstantsType
<1> QED BY <1>1, <1>2, <1>3, ConstantsType, GoalType

(* More drift is as good. *)
LEMMA DriftOnTime ==
  ASSUME NEW r \in Reply, NEW a \in 0 .. Brim, NEW n \in Nat, NEW k \in Nat, NEW j \in Nat, k <= j
  PROVE  /\ NotLate(r, a, n, k) => NotLate(r, a, n, j)
         /\ NotEarly(r, a, n, k) => NotEarly(r, a, n, j)
<1> DEFINE left == (r.reset_at_ms - n) * R
           was == (k + 1) * Eps
           is == (j + 1) * Eps
<1>1. left \in Int /\ was \in Nat /\ is \in Nat /\ was <= is
  BY BoundsType
<1>2. /\ NotLate(r, a, n, k) <=> a = Brim \/ a + left + was >= Goal(r)
      /\ NotEarly(r, a, n, k) <=> a + left < Goal(r) + was + R
      /\ NotLate(r, a, n, j) <=> a = Brim \/ a + left + is >= Goal(r)
      /\ NotEarly(r, a, n, j) <=> a + left < Goal(r) + is + R
  BY DEF NotLate, NotEarly
<1> HIDE DEF left, was, is
<1> QED BY <1>1, <1>2, ConstantsType, GoalType

LEMMA AnnouncedOnTime ==
  ASSUME NEW r, NEW n \in Nat, NEW t \in 0 .. Full, Announces(r, n, t)
  PROVE  NotLate(r, t, n, 0) /\ NotEarly(r, t, n, 0)
<1> DEFINE left == (r.reset_at_ms - n) * R
<1>1. r \in Reply /\ left >= Goal(r) - t - Eps /\ left < Goal(r) - t + Eps + R
  BY DEF Announces
<1>2. left \in Int /\ (0 + 1) * Eps = Eps
  BY <1>1, BoundsType, ConstantsType
<1>3. /\ NotLate(r, t, n, 0) <=> t = Brim \/ t + left + Eps >= Goal(r)
      /\ NotEarly(r, t, n, 0) <=> t + left < Goal(r) + Eps + R
  BY <1>2 DEF NotLate, NotEarly
<1> HIDE DEF left
<1> QED BY <1>1, <1>2, <1>3, ConstantsType, GoalType

LEMMA OnTimeNext ==
  /\ OnTime' <=>
       /\ reply' # NoReply => NotLate(reply', Refilled', now', 0)
       /\ told' # NoReply /\ taken' = 0 => NotLate(told', Refilled', now', Drift')
  /\ OnTimeOnly' <=>
       /\ reply' # NoReply => NotEarly(reply', Refilled', now', 0)
       /\ told' # NoReply /\ taken' = 0 => NotEarly(told', Refilled', now', Drift')
  BY DEF OnTime, OnTimeOnly, NotLate, NotEarly, Goal, Brim, Full, NoReply

(* A check that keeps the observer waiting is a denied one; what it does to
   the amount and to the drift. *)
LEMMA DenyDrift ==
  ASSUME TypeOK, Deny, NEW r \in Reply
  PROVE  /\ NotLate(r, Refilled, now, Drift) => NotLate(r, Refilled', now', Drift')
         /\ NotEarly(r, Refilled, now, Drift) => NotEarly(r, Refilled', now', Drift')
<1> USE ConstantsType
<1>1. PICK b \in Refills : b \in 0 .. Full /\ b < U /\ Write(b, b)
  BY DenyEffect
<1>2. now' = now /\ from' = from /\ now \in Nat /\ from \in Nat
  BY DEF Deny, TypeOK
<1>3. Refilled' = b /\ ~ Fresh'
  BY <1>1, <1>2, WriteEffect
<1>4. /\ b >= Refilled - Eps /\ b <= Refilled + Eps /\ (Refilled = Brim => b = Full)
      /\ ~ Fresh => b = Refilled
  BY RefillsBounds
<1>5. Refilled \in 0 .. Brim /\ Drift \in Nat
  BY RefilledType, DriftType
<1>6. CASE Fresh
  <2>1. Drift' = Drift + 1
    BY <1>2, <1>3, <1>6 DEF Drift
  <2> QED BY <1>1, <1>2, <1>3, <1>4, <1>5, <2>1, DenyOnTime
<1>7. CASE ~ Fresh
  <2>1. Drift' = Drift /\ Refilled' = Refilled
    BY <1>2, <1>3, <1>4, <1>7 DEF Drift
  <2> QED BY <1>2, <2>1
<1> QED BY <1>6, <1>7

LEMMA TickDrift ==
  ASSUME TypeOK, Tick, Fresh'
  PROVE  Drift \in Nat /\ Drift' \in Nat /\ Drift <= Drift' /\ now' = now + 1 /\ now \in Nat
<1>1. now' = now + 1 /\ from' = from /\ now \in Nat /\ from \in 0 .. now
  BY ConstantsType DEF Tick, ovars, TypeOK
<1>2. Drift' = now + 1 - from
  BY <1>1 DEF Drift
<1> QED BY <1>1, <1>2 DEF Drift

(* A full bucket is not late. *)
LEMMA BrimOnTime ==
  ASSUME NEW r, NEW n, NEW k
  PROVE  NotLate(r, Brim, n, k)
  BY DEF NotLate

(* The steps that keep or renew both answers, whatever the rate: all but the
   disappearance of the key. *)
LEMMA StepOnTime ==
  ASSUME TypeOK, Admit \/ Deny \/ Observe \/ UNCHANGED vars
  PROVE  (OnTime => OnTime') /\ (OnTimeOnly => OnTimeOnly')
<1> USE ConstantsType
<1>0. reply \in Reply /\ told \in Reply /\ now \in Nat /\ taken \in Nat
      /\ Refilled \in 0 .. Brim /\ Drift \in Nat
  BY RefilledType, DriftType DEF TypeOK
<1>1. CASE Admit
  <2>1. PICK b \in Refills, t \in 0 .. Full :
          b \in 0 .. Full /\ Write(b, t) /\ Announces(reply', now, t)
    BY <1>1, AdmitEffect
  <2>2. now' = now /\ taken' # 0
    BY <1>0, <1>1 DEF Admit
  <2>3. Refilled' = t
    BY <2>1, <2>2, WriteEffect
  <2>4. NotLate(reply', Refilled', now', 0) /\ NotEarly(reply', Refilled', now', 0)
    BY <1>0, <2>1, <2>2, <2>3, AnnouncedOnTime
  <2> QED BY <2>2, <2>4, OnTimeNext
<1>2. CASE Deny
  <2>1. PICK b \in Refills : b \in 0 .. Full /\ Write(b, b) /\ Announces(reply', now, b)
    BY <1>2, DenyEffect
  <2>2. now' = now /\ taken' = taken /\ told' = told
    BY <1>2 DEF Deny
  <2>3. Refilled' = b
    BY <2>1, <2>2, WriteEffect
  <2>4. NotLate(reply', Refilled', now', 0) /\ NotEarly(reply', Refilled', now', 0)
    BY <1>0, <2>1, <2>2, <2>3, AnnouncedOnTime
  <2>5. /\ NotLate(told, Refilled, now, Drift) => NotLate(told, Refilled', now', Drift')
        /\ NotEarly(told, Refilled, now, Drift) => NotEarly(told, Refilled', now', Drift')
    BY <1>0, <1>2, DenyDrift
  <2> QED BY <2>2, <2>4, <2>5, OnTimeNext DEF OnTime, OnTimeOnly
<1>3. CASE Observe
  <2>1. /\ Refilled' = Refilled /\ now' = now /\ reply' = reply /\ told' = reply /\ from' = now
        /\ (Fresh' <=> Fresh)
    BY <1>3 DEF Observe, kvars, Refilled, Fresh, MinOf, Brim, Full
  <2>2. Drift' \in Nat /\ 0 <= Drift' /\ 0 \in Nat
    BY <1>0, <2>1 DEF Drift
  <2>3. /\ NotLate(reply, Refilled, now, 0) => NotLate(reply, Refilled, now, Drift')
        /\ NotEarly(reply, Refilled, now, 0) => NotEarly(reply, Refilled, now, Drift')
    BY ONLY <1>0, <2>2, DriftOnTime
  <2> QED BY <2>1, <2>3, OnTimeNext DEF OnTime, OnTimeOnly
<1>4. CASE UNCHANGED vars
  <2>1. /\ Refilled' = Refilled /\ now' = now /\ reply' = reply /\ told' = told /\ taken' = taken
        /\ Drift' = Drift
    BY <1>4 DEF vars, Refilled, Drift, Fresh, MinOf, Brim, Full
  <2> QED BY <2>1, OnTimeNext DEF OnTime, OnTimeOnly
<1> QED BY <1>1, <1>2, <1>3, <1>4

LEMMA TickKeepsTime ==
  ASSUME TypeOK, Tick, Fresh', Refilled' = MinOf(Brim, Refilled + R)
  PROVE  (OnTime => OnTime') /\ (OnTimeOnly => OnTimeOnly')
<1>1. reply' = reply /\ told' = told /\ taken' = taken
  BY DEF Tick, ovars
<1>2. reply \in Reply /\ told \in Reply /\ Refilled \in 0 .. Brim
  BY RefilledType DEF TypeOK
<1>3. Drift \in Nat /\ Drift' \in Nat /\ Drift <= Drift' /\ now' = now + 1 /\ now \in Nat
  BY TickDrift
<1>4. 0 \in Nat /\ 0 <= 0
  OBVIOUS
<1>5. /\ NotLate(reply, Refilled, now, 0) => NotLate(reply, MinOf(Brim, Refilled + R), now + 1, 0)
      /\ NotEarly(reply, Refilled, now, 0) => NotEarly(reply, MinOf(Brim, Refilled + R), now + 1, 0)
  BY ONLY <1>2, <1>3, <1>4, TickOnTime
<1>6. /\ NotLate(told, Refilled, now, Drift) => NotLate(told, MinOf(Brim, Refilled + R), now + 1, Drift')
      /\ NotEarly(told, Refilled, now, Drift) => NotEarly(told, MinOf(Brim, Refilled + R), now + 1, Drift')
  BY ONLY <1>2, <1>3, TickOnTime
<1> QED BY <1>1, <1>3, <1>5, <1>6, OnTimeNext DEF OnTime, OnTimeOnly

LEMMA OnTimeStep == TypeOK /\ KeyLosesLittle /\ OnTime /\ [Next]_vars => OnTime'
<1> SUFFICES ASSUME TypeOK, KeyLosesLittle, OnTime, [Next]_vars PROVE OnTime'
  OBVIOUS
<1>1. CASE Tick
  <2>1. CASE Refilled' = MinOf(Brim, Refilled + R)
    BY <1>1, <2>1, TickEffect, TickKeepsTime
  <2>2. CASE Refilled' = Brim
    BY <2>2, BrimOnTime, OnTimeNext
  <2> QED BY <1>1, <2>1, <2>2, TickEffect
<1>2. CASE Expire
  BY <1>2, ExpireEffect, BrimOnTime, OnTimeNext
<1> QED BY <1>1, <1>2, StepOnTime DEF Next

LEMMA OnTimeGives == TypeOK /\ OnTime => NeverLate
<1> SUFFICES ASSUME TypeOK, OnTime, told # NoReply, taken = 0,
                    (now - told.reset_at_ms) * R >= (now - from + 2) * Eps,
                    NEW b \in Refills
             PROVE  b >= Goal(told)
  BY DEF NeverLate
<1> USE ConstantsType
<1>0. told \in Reply /\ now \in Nat /\ from \in Nat /\ Drift \in Nat /\ Refilled \in 0 .. Brim
  BY RefilledType, DriftType DEF TypeOK
<1>1. told.reset_at_ms \in Nat /\ (told.reset_at_ms - now) * R \in Int
  BY <1>0, BoundsType
<1> DEFINE late == (now - told.reset_at_ms) * R
           left == (told.reset_at_ms - now) * R
           drift == (Drift + 1) * Eps
           most == (now - from + 2) * Eps
<1>2. left = 0 - late /\ late \in Int
  BY <1>0, <1>1, MulNeg, MulInt
<1>3. /\ Fresh => most = drift + Eps
      /\ ~ Fresh => most = drift
      /\ drift \in Int
  <2>1. /\ Fresh => now - from + 2 = (Drift + 1) + 1
        /\ ~ Fresh => now - from + 2 = Drift + 1
    BY <1>0 DEF Drift
  <2>2. ((Drift + 1) + 1) * Eps = (Drift + 1) * Eps + Eps /\ (Drift + 1) * Eps \in Int
    BY <1>0, MulSucc, MulInt
  <2> QED BY <2>1, <2>2
<1>4. Refilled = Brim \/ Refilled + left + drift >= Goal(told)
  BY DEF OnTime, NotLate
<1>5. late >= most
  OBVIOUS
<1> HIDE DEF late, left, drift, most
<1>6. b \in 0 .. Full /\ b >= Refilled - Eps /\ (~ Fresh => b = Refilled) /\ (Refilled = Brim => b = Full)
  BY RefillsBounds
<1>7. Goal(told) \in Nat /\ Goal(told) <= Full
  BY GoalType
<1>8. CASE Refilled = Brim
  BY <1>6, <1>7, <1>8
<1>9. CASE Fresh /\ Refilled + left + drift >= Goal(told)
  BY <1>0, <1>2, <1>3, <1>5, <1>6, <1>7, <1>9
<1>10. CASE ~ Fresh /\ Refilled + left + drift >= Goal(told)
  BY <1>0, <1>2, <1>3, <1>5, <1>6, <1>7, <1>10
<1> QED BY <1>4, <1>8, <1>9, <1>10

(* Whatever the rate, and whether or not Redis has dropped the key by then,
   whoever waits as told by token_bucket.lua, and as much longer as the
   rounding in between may ask for, finds what was announced. *)
THEOREM TokenBucketNeverLate == Spec => []NeverLate
<1>1. Init => OnTime
  BY DEF Init, OnTime
<1>2. Spec => []OnTime
  BY <1>1, OnTimeStep, TokenBucketKey, TokenBucketTypes, PTL DEF Spec
<1> QED BY <1>2, OnTimeGives, TokenBucketTypes, PTL

LEMMA OnTimeOnlyStep ==
  ASSUME FastRefill
  PROVE  TypeOK /\ KeyLosesLittle /\ OnTimeOnly /\ [Next]_vars => OnTimeOnly'
<1> SUFFICES ASSUME TypeOK, KeyLosesLittle, OnTimeOnly, [Next]_vars PROVE OnTimeOnly'
  OBVIOUS
<1> USE ConstantsType
<1>0. Lost = 0 /\ Refilled \in 0 .. Brim
  BY LossType, RefilledType
<1>1. CASE Tick
  <2>1. Refilled + Lost >= Brim => MinOf(Brim, Refilled + R) = Brim
    BY <1>0 DEF MinOf
  <2>2. Refilled' = MinOf(Brim, Refilled + R) /\ Fresh'
    BY <1>1, <2>1, TickEffect
  <2> QED BY <1>1, <2>2, TickKeepsTime
<1>2. CASE Expire
  <2>1. Refilled + Lost >= Brim /\ Refilled' = Brim /\ Fresh /\ Fresh'
    BY <1>2, ExpireEffect
  <2>2. Refilled' = Refilled
    BY <1>0, <2>1
  <2>3. now' = now /\ reply' = reply /\ told' = told /\ taken' = taken /\ from' = from
    BY <1>2 DEF Expire, ovars
  <2>4. Drift' = Drift
    BY <2>1, <2>3 DEF Drift
  <2> QED BY <2>2, <2>3, <2>4, OnTimeNext DEF OnTimeOnly
<1> QED BY <1>1, <1>2, StepOnTime DEF Next

LEMMA OnTimeOnlyGives == TypeOK /\ OnTimeOnly => NeverEarly
<1> SUFFICES ASSUME TypeOK, OnTimeOnly, told # NoReply, taken = 0,
                    (told.reset_at_ms - now - 1) * R >= (now - from + 2) * Eps,
                    NEW b \in Refills
             PROVE  b < Goal(told)
  BY DEF NeverEarly
<1> USE ConstantsType
<1>0. told \in Reply /\ now \in Nat /\ from \in Nat /\ Drift \in Nat /\ Refilled \in 0 .. Brim
  BY RefilledType, DriftType DEF TypeOK
<1>1. told.reset_at_ms \in Nat /\ (told.reset_at_ms - now) * R \in Int
  BY <1>0, BoundsType
<1> DEFINE early == (told.reset_at_ms - now - 1) * R
           left == (told.reset_at_ms - now) * R
           drift == (Drift + 1) * Eps
           most == (now - from + 2) * Eps
<1>2. early = left - R /\ left \in Int
  BY <1>0, <1>1, MulPred
<1>3. /\ Fresh => most = drift + Eps
      /\ ~ Fresh => most = drift
      /\ drift \in Int
  <2>1. /\ Fresh => now - from + 2 = (Drift + 1) + 1
        /\ ~ Fresh => now - from + 2 = Drift + 1
    BY <1>0 DEF Drift
  <2>2. ((Drift + 1) + 1) * Eps = (Drift + 1) * Eps + Eps /\ (Drift + 1) * Eps \in Int
    BY <1>0, MulSucc, MulInt
  <2> QED BY <2>1, <2>2
<1>4. Refilled + left < Goal(told) + drift + R
  BY DEF OnTimeOnly, NotEarly
<1>5. early >= most
  OBVIOUS
<1> HIDE DEF early, left, drift, most
<1>6. b \in 0 .. Full /\ b <= Refilled + Eps /\ (~ Fresh => b = Refilled)
  BY RefillsBounds
<1>7. Goal(told) \in Nat
  BY GoalType
<1>8. CASE Fresh
  BY <1>0, <1>2, <1>3, <1>4, <1>5, <1>6, <1>7, <1>8
<1>9. CASE ~ Fresh
  BY <1>0, <1>2, <1>3, <1>4, <1>5, <1>6, <1>7, <1>9
<1> QED BY <1>8, <1>9

(* With more than one token per second the times that token_bucket.lua answers
   are right up to rounding, both ways, expiry of the key included. *)
THEOREM TokenBucketAnswers ==
  ASSUME FastRefill
  PROVE  Spec => []AnswersKept
<1>1. Init => OnTimeOnly
  BY DEF Init, OnTimeOnly
<1>2. TypeOK /\ KeyLosesLittle /\ OnTimeOnly /\ [Next]_vars => OnTimeOnly'
  BY OnTimeOnlyStep
<1>3. Spec => []OnTimeOnly
  BY <1>1, <1>2, TokenBucketKey, TokenBucketTypes, PTL DEF Spec
<1>4. TypeOK /\ NeverLate /\ NeverEarly => AnswersKept
  <2> SUFFICES ASSUME TypeOK, NeverLate, NeverEarly PROVE AnswersKept
    OBVIOUS
  <2>1. Ideal!Sees = Refills /\ Ideal!NoReply = NoReply /\ Ideal!Goal(told) = Goal(told)
    BY SeesIsRefills, IdealFull DEF Ideal!NoReply, NoReply, Ideal!Goal, Goal
  <2> QED BY <2>1 DEF NeverLate, NeverEarly, AnswersKept, Ideal!AnswersKept
<1> QED BY <1>3, <1>4, OnTimeOnlyGives, TokenBucketNeverLate, TokenBucketTypes, PTL

=============================================================================
