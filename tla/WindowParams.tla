---------------------------- MODULE WindowParams ----------------------------
(* The parameters of a window rule, common to the three window scripts. *)
EXTENDS LuaScript

CONSTANTS
  WindowSize,     \* window_size_ms (ARGV[1])
  MaxRequests,    \* max_requests (ARGV[2])
  MaxTime         \* bound on the clock

ASSUME WindowAssumption ==
  /\ WindowSize \in Nat \ {0}
  /\ MaxRequests \in Nat \ {0}
  /\ MaxTime \in Nat

=============================================================================
