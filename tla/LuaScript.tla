----------------------------- MODULE LuaScript -----------------------------
(***************************************************************************)
(* What the five rate-limiting scripts under services/rate_limiter/scripts *)
(* have in common: the arithmetic they use and the tuple they return.      *)
(***************************************************************************)
EXTENDS Integers

(* math.min and math.max of two numbers *)
MinOf(a, b) == IF a <= b THEN a ELSE b

MaxOf(a, b) == IF a >= b THEN a ELSE b

(* math.ceil(a / b), for a natural a and a positive b *)
CeilDiv(a, b) == (a + b - 1) \div b

(* The tuple { allowed, limit, remaining, retry_after_ms, reset_at_ms }
   without its limit, which is always the configured one.  retry_after_ms
   is -1 for an admitted check. *)
Reply ==
  [allowed : {-1, 0, 1}, remaining : Nat, retry_after_ms : Nat \cup {-1},
   reset_at_ms : Nat]

(* No check has been answered yet. *)
NoReply ==
  [allowed |-> -1, remaining |-> 0, retry_after_ms |-> -1, reset_at_ms |-> 0]

Allow(remaining, reset) ==
  [allowed |-> 1, remaining |-> remaining, retry_after_ms |-> -1,
   reset_at_ms |-> reset]

Block(retry, reset) ==
  [allowed |-> 0, remaining |-> 0, retry_after_ms |-> retry,
   reset_at_ms |-> reset]

=============================================================================
