------------------------- MODULE LeakyBucketProofs -------------------------
(***************************************************************************)
(* leaky_bucket.lua is token_bucket.lua seen from the other end, for every *)
(* capacity, every rate and every bound on rounding, so all that is proved *)
(* of the token bucket holds of it.                                        *)
(***************************************************************************)
EXTENDS LeakyBucket, TLAPS

(* The theorems about the token bucket, on the key of the leaky one. *)
DualProofs == INSTANCE TokenBucketProofs WITH tokens <- Room, last_refill_ms <- last_leak_ms

(* Dual and DualProofs are the same specification, with the operators of this
   module. *)

LEMMA SameFull ==
  /\ Dual!Full = Full /\ Dual!Brim = Brim /\ DualProofs!Full = Full /\ DualProofs!Brim = Brim
  BY DEF Dual!Full, DualProofs!Full, Full, Dual!Brim, DualProofs!Brim, Brim

LEMMA SameRounding ==
  ASSUME NEW x
  PROVE  /\ Dual!Near(x) = Near(x) /\ DualProofs!Near(x) = Near(x)
         /\ Dual!Rounded(x) = Rounded(x) /\ DualProofs!Rounded(x) = Rounded(x)
         /\ Dual!Waits(x) = Waits(x) /\ DualProofs!Waits(x) = Waits(x)
         /\ Dual!Floors(x) = Floors(x) /\ DualProofs!Floors(x) = Floors(x)
<1>1. Dual!Near(x) = Near(x) /\ DualProofs!Near(x) = Near(x)
  BY SameFull DEF Dual!Near, DualProofs!Near, Near
<1>2. Dual!Rounded(x) = Rounded(x) /\ DualProofs!Rounded(x) = Rounded(x)
  BY SameFull DEF Dual!Rounded, DualProofs!Rounded, Rounded, Dual!MinOf, DualProofs!MinOf, MinOf
<1>3. Dual!Waits(x) = Waits(x) /\ DualProofs!Waits(x) = Waits(x)
  BY DEF Dual!Waits, DualProofs!Waits, Waits, Dual!CeilDiv, DualProofs!CeilDiv, CeilDiv,
         Dual!MaxOf, DualProofs!MaxOf, MaxOf
<1>4. Dual!Floors(x) = Floors(x) /\ DualProofs!Floors(x) = Floors(x)
  BY DEF Dual!Floors, DualProofs!Floors, Floors
<1> QED BY <1>1, <1>2, <1>3, <1>4

LEMMA Constants ==
  /\ U \in Nat /\ R \in Nat \ {0} /\ Eps \in Nat /\ Eps < U /\ Slack \in Nat \ {0}
  /\ MaxTime \in Nat /\ Full \in Nat /\ Full >= U
  BY DualProofs!ConstantsType, SameFull, BucketAssumption, SlackAssumption

LEMMA WaitsType ==
  ASSUME NEW need \in Nat, NEW w \in Waits(need)
  PROVE  w \in Nat
  BY DualProofs!WaitsBounds, SameRounding, BucketAssumption, SlackAssumption

LEMMA RemainingType ==
  ASSUME NEW t \in 0 .. Full, NEW n \in Floors(t)
  PROVE  n \in Nat
  BY DualProofs!FloorsType, SameFull, SameRounding, BucketAssumption, SlackAssumption

-----------------------------------------------------------------------------

LEMMA InitType == Init => TypeOK
  BY Constants DEF Init, TypeOK, Reply, NoReply

LEMMA DrainsType ==
  ASSUME TypeOK, NEW d \in Drains
  PROVE  d \in 0 .. Full
  BY Constants DEF TypeOK, Drains, Drained

LEMMA WriteType ==
  ASSUME TypeOK, NEW d \in 0 .. Full, NEW l, Write(d, l)
  PROVE  key' = "present" /\ level' = l /\ last_leak_ms' = now /\ expire_at' \in Nat
<1>1. PICK w \in Waits(d) : expire_at' = now + MaxOf(1, w + Slack)
  BY DEF Write, TTLs
<1>2. d \in Nat
  BY Constants
<1>3. w \in Nat
  BY <1>2, WaitsType
<1>4. expire_at' \in Nat
  BY <1>1, <1>3, Constants DEF MaxOf, TypeOK
<1> QED BY <1>4 DEF Write

LEMMA TypeStep == TypeOK /\ [Next]_vars => TypeOK'
<1> SUFFICES ASSUME TypeOK, [Next]_vars PROVE TypeOK'
  OBVIOUS
<1> USE Constants
<1>0. Full' = Full
  BY DEF Full
<1>1. CASE Tick
  BY <1>0, <1>1 DEF Tick, Remove, kvars, ovars, TypeOK
<1>2. CASE Expire
  BY <1>0, <1>2 DEF Expire, Remove, ovars, TypeOK
<1>3. CASE Admit
  <2>1. PICK d \in Drains, l \in 0 .. Full :
          /\ Write(d, l)
          /\ \E n \in Floors(Full - l), w \in Waits(l) : reply' = Allow(n, now + w)
    BY <1>3 DEF Admit
  <2>2. PICK n \in Floors(Full - l), w \in Waits(l) : reply' = Allow(n, now + w)
    BY <2>1
  <2>3. l \in Nat /\ Full - l \in 0 .. Full
    OBVIOUS
  <2>4. n \in Nat /\ w \in Nat
    BY <2>3, WaitsType, RemainingType
  <2>5. reply' \in Reply
    BY <2>2, <2>4 DEF Allow, Reply, TypeOK
  <2>6. key' = "present" /\ level' = l /\ last_leak_ms' = now /\ expire_at' \in Nat
    BY <2>1, DrainsType, WriteType
  <2>7. now' = now /\ from' = from /\ taken' = taken + 1 /\ told' = told
    BY <1>3 DEF Admit
  <2> QED BY <1>0, <2>5, <2>6, <2>7 DEF TypeOK
<1>4. CASE Deny
  <2>1. PICK d \in Drains :
          d > Full - U /\ Write(d, d) /\ \E w \in Waits(d - Full + U) : reply' = Block(w, now + w)
    BY <1>4 DEF Deny
  <2>2. PICK w \in Waits(d - Full + U) : reply' = Block(w, now + w)
    BY <2>1
  <2>3. d \in 0 .. Full
    BY DrainsType
  <2>4. d - Full + U \in Nat
    BY <2>1, <2>3
  <2>5. w \in Nat
    BY <2>4, WaitsType
  <2>6. reply' \in Reply
    BY <2>2, <2>5 DEF Block, Reply, TypeOK
  <2>7. key' = "present" /\ level' = d /\ last_leak_ms' = now /\ expire_at' \in Nat
    BY <2>1, <2>3, WriteType
  <2>8. now' = now /\ from' = from /\ taken' = taken /\ told' = told
    BY <1>4 DEF Deny
  <2> QED BY <1>0, <2>3, <2>6, <2>7, <2>8 DEF TypeOK
<1>5. CASE Observe
  BY <1>0, <1>5 DEF Observe, kvars, TypeOK
<1>6. CASE UNCHANGED vars
  BY <1>0, <1>6 DEF vars, TypeOK
<1> QED BY <1>1, <1>2, <1>3, <1>4, <1>5, <1>6 DEF Next

(* Types are kept by every step of leaky_bucket.lua, and the level stays within
   the capacity, however it rounds. *)
THEOREM LeakyBucketTypes == Spec => []TypeOK
  BY InitType, TypeStep, PTL DEF Spec

-----------------------------------------------------------------------------

(* What may have drained is what a token bucket may have refilled. *)
LEMMA RefillsIsRoom ==
  ASSUME TypeOK, NEW d \in Drains
  PROVE  Full - d \in Dual!Refills
<1> USE Constants
<1>0. d \in 0 .. Full
  BY DrainsType
<1>1. CASE key = "absent"
  BY <1>1, SameFull DEF Drains, Dual!Refills
<1>2. CASE key = "present" /\ now - last_leak_ms > 0
  <2> DEFINE gain == (now - last_leak_ms) * R
  <2>1. now - last_leak_ms \in Int
    BY DEF TypeOK
  <2>2. gain \in Int
    BY <2>1, DualProofs!MulInt
  <2>3. Room = Full - level /\ ~ (key = "absent")
    BY <1>2 DEF Room
  <2>4. Dual!Refills = Rounded((Full - level) + gain)
    BY <1>2, <2>3, SameRounding DEF Dual!Refills
  <2>5. d \in Drained(level - gain)
    BY <1>2, <2>3 DEF Drains
  <2> HIDE DEF gain
  <2>6. level \in 0 .. Full
    BY DEF TypeOK
  <2>7. Full - d \in Rounded((Full - level) + gain)
    BY <1>0, <2>2, <2>5, <2>6 DEF Drained, Rounded, MinOf, MaxOf
  <2> QED BY <2>4, <2>7
<1>3. CASE key = "present" /\ ~ (now - last_leak_ms > 0)
  <2>1. Room = Full - level /\ ~ (key = "absent")
    BY <1>3 DEF Room
  <2> QED BY <1>3, <2>1 DEF Drains, Dual!Refills
<1> QED BY <1>1, <1>2, <1>3 DEF TypeOK

(* Both checks write their key in the same way. *)
LEMMA WriteRefines ==
  ASSUME TypeOK, NEW d \in 0 .. Full, NEW l \in 0 .. Full, Write(d, l)
  PROVE  Dual!Write(Full - d, Full - l) /\ Room' = Full - l
<1> USE Constants
<1>1. Room' = Full - l
  BY DEF Write, Room, Full
<1>2. Full - (Full - d) = d
  OBVIOUS
<1>3. Dual!TTLs(Full - d) = TTLs(d)
  BY <1>2, SameFull, SameRounding DEF Dual!TTLs, TTLs, Dual!MaxOf, MaxOf
<1>4. \E ttl \in Dual!TTLs(Full - d) : expire_at' = now + ttl
  BY <1>3 DEF Write
<1>5. key' = "present" /\ last_leak_ms' = now
  BY DEF Write
<1> QED BY <1>1, <1>4, <1>5 DEF Dual!Write

LEMMA AdmitRefines ==
  ASSUME TypeOK, Admit
  PROVE  Dual!Admit
<1> USE Constants
<1>1. PICK d \in Drains, l \in 0 .. Full :
        /\ d <= Full - U /\ l \in Near(d + U) /\ Write(d, l)
        /\ \E n \in Floors(Full - l), w \in Waits(l) : reply' = Allow(n, now + w)
  BY DEF Admit
<1>2. d \in 0 .. Full
  BY DrainsType
<1>3. Full - d \in Dual!Refills /\ Full - d >= U
  BY <1>1, <1>2, RefillsIsRoom
<1>4. Full - l \in 0 .. Dual!Full
  BY SameFull
<1>5. Full - l \in Dual!Near((Full - d) - U)
  <2>1. Full - l \in Near((Full - d) - U)
    BY <1>1, <1>2 DEF Near
  <2> QED BY <2>1, SameRounding
<1>6. Dual!Write(Full - d, Full - l)
  BY <1>1, <1>2, WriteRefines
<1>7. \E n \in Dual!Floors(Full - l), w \in Dual!Waits(Dual!Full - (Full - l)) :
        reply' = Dual!Allow(n, now + w)
  <2>1. Dual!Full - (Full - l) = l
    BY SameFull
  <2> QED BY <1>1, <2>1, SameRounding DEF Allow, Dual!Allow
<1>8. taken' = taken + 1 /\ now' = now /\ from' = from /\ told' = told
  BY DEF Admit
<1> QED BY <1>3, <1>4, <1>5, <1>6, <1>7, <1>8 DEF Dual!Admit

LEMMA DenyRefines ==
  ASSUME TypeOK, Deny
  PROVE  Dual!Deny
<1> USE Constants
<1>1. PICK d \in Drains :
        d > Full - U /\ Write(d, d) /\ \E w \in Waits(d - Full + U) : reply' = Block(w, now + w)
  BY DEF Deny
<1>2. d \in 0 .. Full
  BY DrainsType
<1>3. Full - d \in Dual!Refills /\ Full - d < U
  BY <1>1, <1>2, RefillsIsRoom
<1>4. Dual!Write(Full - d, Full - d)
  BY <1>1, <1>2, WriteRefines
<1>5. \E w \in Dual!Waits(U - (Full - d)) : reply' = Dual!Block(w, now + w)
  <2>1. U - (Full - d) = d - Full + U
    BY <1>2
  <2> QED BY <1>1, <2>1, SameRounding DEF Block, Dual!Block
<1>6. taken' = taken /\ now' = now /\ from' = from /\ told' = told
  BY DEF Deny
<1> QED BY <1>3, <1>4, <1>5, <1>6 DEF Dual!Deny

LEMMA InitRefines == Init => Dual!Init
  BY DEF Init, Dual!Init, Room, NoReply, Dual!NoReply

LEMMA StepRefines ==
  ASSUME TypeOK, [Next]_vars
  PROVE  [Dual!Next]_(Dual!vars)
<1>0. /\ UNCHANGED kvars => UNCHANGED Dual!kvars
      /\ Remove => Dual!Remove
      /\ UNCHANGED ovars => UNCHANGED Dual!ovars
  BY DEF kvars, Dual!kvars, Room, Full, Remove, Dual!Remove, ovars, Dual!ovars
<1>1. CASE Tick
  <2>1. Dual!Tick
    BY <1>0, <1>1 DEF Tick, Dual!Tick
  <2> QED BY <2>1 DEF Dual!Next
<1>2. CASE Expire
  <2>1. Dual!Expire
    BY <1>0, <1>2 DEF Expire, Dual!Expire
  <2> QED BY <2>1 DEF Dual!Next
<1>3. CASE Admit
  BY <1>3, AdmitRefines DEF Dual!Next
<1>4. CASE Deny
  BY <1>4, DenyRefines DEF Dual!Next
<1>5. CASE Observe
  <2>1. Dual!Observe
    BY <1>0, <1>5 DEF Observe, Dual!Observe
  <2> QED BY <2>1 DEF Dual!Next
<1>6. CASE UNCHANGED vars
  BY <1>6 DEF vars, Dual!vars, Room, Full
<1> QED BY <1>1, <1>2, <1>3, <1>4, <1>5, <1>6 DEF Next

(* Every behaviour of leaky_bucket.lua is one of token_bucket.lua on the room
   left in the bucket, whatever the rate and the bound on rounding: what is
   proved of one script, and what is wrong with it, carries over to the
   other. *)
THEOREM LeakyBucketIsTokenBucket == Spec => LeakyIsTokenBucket
<1>1. TypeOK /\ [Next]_vars => [Dual!Next]_(Dual!vars)
  BY StepRefines
<1> QED BY <1>1, InitRefines, LeakyBucketTypes, PTL DEF Spec, LeakyIsTokenBucket, Dual!Spec

-----------------------------------------------------------------------------

LEMMA SameWrite ==
  ASSUME NEW b, NEW t, Dual!Write(b, t)
  PROVE  DualProofs!Write(b, t)
<1>1. DualProofs!TTLs(b) = Dual!TTLs(b)
  BY SameFull, SameRounding DEF DualProofs!TTLs, Dual!TTLs, DualProofs!MaxOf, Dual!MaxOf
<1> QED BY <1>1 DEF DualProofs!Write, Dual!Write

LEMMA SameRefills == DualProofs!Refills = Dual!Refills
  BY SameFull, SameRounding DEF DualProofs!Refills, Dual!Refills

LEMMA SameSteps == [Dual!Next]_(Dual!vars) => [DualProofs!Next]_(DualProofs!vars)
<1>0. /\ Dual!Remove => DualProofs!Remove
      /\ UNCHANGED Dual!kvars => UNCHANGED DualProofs!kvars
      /\ UNCHANGED Dual!ovars => UNCHANGED DualProofs!ovars
  BY DEF Dual!Remove, DualProofs!Remove, Dual!kvars, DualProofs!kvars, Dual!ovars, DualProofs!ovars
<1>1. Dual!Tick => DualProofs!Tick
  BY <1>0 DEF Dual!Tick, DualProofs!Tick
<1>2. Dual!Expire => DualProofs!Expire
  BY <1>0 DEF Dual!Expire, DualProofs!Expire
<1>3. Dual!Admit => DualProofs!Admit
  BY SameFull, SameRounding, SameRefills, SameWrite
  DEF Dual!Admit, DualProofs!Admit, Dual!Allow, DualProofs!Allow
<1>4. Dual!Deny => DualProofs!Deny
  BY SameRounding, SameRefills, SameWrite
  DEF Dual!Deny, DualProofs!Deny, Dual!Block, DualProofs!Block
<1>5. Dual!Observe => DualProofs!Observe
  BY <1>0 DEF Dual!Observe, DualProofs!Observe
<1> QED BY <1>1, <1>2, <1>3, <1>4, <1>5
        DEF Dual!Next, DualProofs!Next, Dual!vars, DualProofs!vars

LEMMA SameInit == Dual!Init => DualProofs!Init
  BY DEF Dual!Init, DualProofs!Init, Dual!NoReply, DualProofs!NoReply

LEMMA LeakyIsDual == Spec => DualProofs!Spec
  BY LeakyBucketIsTokenBucket, SameInit, SameSteps, PTL
  DEF LeakyIsTokenBucket, Dual!Spec, DualProofs!Spec

(* With a leak of more than one unit per second, leaky_bucket.lua honours its
   limit in every interval, and the times it answers are right, up to rounding
   and expiry of the key included. *)
THEOREM LeakyBucketPromises ==
  ASSUME FastRefill
  PROVE  Spec => [](DualProofs!RateBound /\ DualProofs!AnswersKept)
<1>1. DualProofs!FastRefill
  BY DEF FastRefill, DualProofs!FastRefill
<1>2. DualProofs!Spec => []DualProofs!RateBound
  BY <1>1, DualProofs!TokenBucketRate, BucketAssumption, SlackAssumption
<1>3. DualProofs!Spec => []DualProofs!AnswersKept
  BY <1>1, DualProofs!TokenBucketAnswers, BucketAssumption, SlackAssumption
<1> QED BY <1>2, <1>3, LeakyIsDual, PTL

(* Whatever the rate, leaky_bucket.lua admits in no interval more than
   capacity + 1 checks and one per second, or the configured rate where that
   is more, and what rounding adds; and whoever waits as told, and as much
   longer as rounding may ask for, finds what was announced. *)
THEOREM LeakyBucketAnyRate ==
  Spec => [](/\ DualProofs!KeyLosesLittle
             /\ DualProofs!RateBoundAnyRate
             /\ DualProofs!NeverLate)
<1>1. DualProofs!Spec => [](DualProofs!KeyLosesLittle /\ DualProofs!RateBoundAnyRate)
  BY DualProofs!TokenBucketAnyRate, BucketAssumption, SlackAssumption
<1>2. DualProofs!Spec => []DualProofs!NeverLate
  BY DualProofs!TokenBucketNeverLate, BucketAssumption, SlackAssumption
<1> QED BY <1>1, <1>2, LeakyIsDual, PTL

=============================================================================
