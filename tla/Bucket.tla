------------------------------- MODULE Bucket -------------------------------
(***************************************************************************)
(* What a bucket algorithm promises, independently of how Redis stores it. *)
(*                                                                         *)
(* token_bucket.lua and leaky_bucket.lua keep one hash per key, refill (or *)
(* drain) it lazily when a check arrives, and let Redis expire it.  Seen   *)
(* from a caller both are the same thing: an amount `avail' of admissions  *)
(* that grows by a constant amount per millisecond up to the capacity and  *)
(* from which every admitted check takes one.  The first check of a        *)
(* millisecond rounds what it finds; what it leaves is what later checks   *)
(* of that millisecond find.  TokenBucket and LeakyBucket implement this   *)
(* module.                                                                 *)
(***************************************************************************)
EXTENDS BucketParams

VARIABLES
  now,      \* the Redis clock, in milliseconds
  avail,    \* units available to a check that arrives now, before rounding
  fresh,    \* no check has been made in this millisecond
  reply,    \* what the last check answered
  from,     \* observer: when the interval being measured began
  taken,    \* observer: checks admitted since `from'
  told      \* observer: the last answer given when the interval began

vars == <<now, avail, fresh, reply, from, taken, told>>

-----------------------------------------------------------------------------

Init ==
  /\ now = 0
  /\ avail = Brim
  /\ fresh = TRUE
  /\ reply = NoReply
  /\ from = 0
  /\ taken = 0
  /\ told = NoReply

(* The balances that a check may find. *)
Sees == IF fresh THEN Rounded(avail) ELSE {avail}

(* One millisecond passes. *)
Tick ==
  /\ now < MaxTime
  /\ now' = now + 1
  /\ avail' = MinOf(Brim, avail + R)
  /\ fresh' = TRUE
  /\ UNCHANGED <<reply, from, taken, told>>

(* A check that finds a whole token. *)
Admit ==
  /\ \E b \in Sees, t \in 0 .. Full :
       /\ b >= U
       /\ t \in Near(b - U)
       /\ avail' = t
       /\ \E n \in Floors(t), w \in Waits(Full - t) : reply' = Allow(n, now + w)
  /\ fresh' = FALSE
  /\ taken' = taken + 1
  /\ UNCHANGED <<now, from, told>>

(* A check that does not. *)
Deny ==
  /\ \E b \in Sees :
       /\ b < U
       /\ avail' = b
       /\ \E w \in Waits(U - b) : reply' = Block(w, now + w)
  /\ fresh' = FALSE
  /\ UNCHANGED <<now, from, taken, told>>

(* An observer starts to count admissions afresh, and remembers the last
   answer: what follows is about every interval and every answer, not only
   about the interval from time 0 and the last answer. *)
Observe ==
  /\ from' = now
  /\ taken' = 0
  /\ told' = reply
  /\ UNCHANGED <<now, avail, fresh, reply>>

Next == Tick \/ Admit \/ Deny \/ Observe

Spec == Init /\ [][Next]_vars

-----------------------------------------------------------------------------

(* Types, and the capacity is never exceeded. *)
TypeOK ==
  /\ now \in 0 .. MaxTime
  /\ avail \in 0 .. Brim
  /\ fresh \in BOOLEAN
  /\ reply \in Reply
  /\ from \in 0 .. now
  /\ taken \in Nat
  /\ told \in Reply

(* The rate limit itself: in every interval of d milliseconds, whenever it
   starts and however the checks are spread, at most
   capacity + d * refill_rate checks are admitted; what is still available
   counts against the same budget.  Rounding may add Eps to the budget with
   each millisecond in which a check is made, and takes Eps from what an
   admission costs. *)
RateBound ==
  taken * (U - Eps) + MinOf(Full, avail)
    <= Full + (now - from) * (R + Eps) + (IF fresh THEN 0 ELSE Eps)

(* What reset_at_ms of an answer announces: a whole token after a denial, a
   full bucket after an admission. *)
Goal(r) == IF r.allowed = 1 THEN Full ELSE U

(* The times that a check answers are right up to rounding, which is added up
   over the milliseconds since: from reset_at_ms on, or as soon after it as
   the refill makes up for the rounding, every check finds what was announced;
   and none finds it earlier than one millisecond before reset_at_ms, less
   what rounding gained.  Denied checks in between, however many, do not
   matter. *)
AnswersKept ==
  told # NoReply /\ taken = 0 =>
    /\ (now - told.reset_at_ms) * R >= (now - from + 2) * Eps
         => \A b \in Sees : b >= Goal(told)
    /\ (told.reset_at_ms - now - 1) * R >= (now - from + 2) * Eps
         => \A b \in Sees : b < Goal(told)

=============================================================================
