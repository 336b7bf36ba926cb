---------------------------- MODULE BucketParams ----------------------------
(***************************************************************************)
(* The parameters of a bucket rule, and the arithmetic of its script.      *)
(*                                                                         *)
(* Amounts are integers: U units make one token, and R units are gained    *)
(* per millisecond, so that refill_rate_per_second (leak_rate_per_second)  *)
(* is 1000 * R / U.  The scripts compute with Lua numbers, which are IEEE  *)
(* doubles, so no result is the exact one: Eps bounds, in units, by how    *)
(* much rounding may move the amount that one line of a script computes or *)
(* rounds up to milliseconds.  For doubles it is Capacity * U * 2^-50.  A  *)
(* unit may be as small as one likes, so that every double is a whole      *)
(* number of them.  Each operator below is the set of results that         *)
(* rounding within Eps allows, whichever of the two scripts rounds so.     *)
(***************************************************************************)
EXTENDS LuaScript

CONSTANTS
  Capacity,   \* capacity of the rule, in tokens (ARGV[1])
  U,          \* units per token
  R,          \* units gained per tick (a tick is one millisecond)
  Eps,        \* bound on the rounding of one amount, in units
  MaxTime     \* bound on the clock

ASSUME BucketAssumption ==
  /\ Capacity \in Nat \ {0}
  /\ U \in Nat \ {0}
  /\ R \in Nat \ {0}
  /\ Eps \in Nat
  /\ Eps < U
  /\ MaxTime \in Nat

Full == Capacity * U

(* From here on a bucket is full however its refill is rounded. *)
Brim == Full + Eps

(* tokens - 1, level + 1: an amount x of the bucket, rounded. *)
Near(x) == {y \in 0 .. Full : x - Eps <= y /\ y <= x + Eps}

(* math.min(capacity, ...) of the amount x of a refill, which is rounded
   before it is capped. *)
Rounded(x) == {y \in 0 .. Full : MinOf(Full, x - Eps) <= y /\ y <= x + Eps}

(* math.ceil((units / rate) * 1000): ticks until `units' have been gained. *)
Waits(units) ==
  IF units = 0 THEN {0}
  ELSE CeilDiv(MaxOf(1, units - Eps), R) .. CeilDiv(units + Eps, R)

(* math.floor of an amount, in tokens.  Whole numbers are doubles, so that
   rounding takes an amount past one only upwards, onto it. *)
Floors(units) == units \div U .. (units + Eps) \div U

=============================================================================
