----------------------------- MODULE BucketKey -----------------------------
(***************************************************************************)
(* What token_bucket.lua and leaky_bucket.lua add to a bucket rule: the    *)
(* slack of the TTL they give their Redis key.                             *)
(***************************************************************************)
EXTENDS BucketParams

CONSTANT Slack    \* milliseconds a script adds to the TTL (1000)

ASSUME SlackAssumption == Slack \in Nat \ {0}

(* The rate at which the slack covers the token that the TTL leaves out, and
   the rounding of the refill, of the TTL and of the token taken: more than
   one token per second, by a hair. *)
FastRefill == R * Slack >= U + 3 * Eps

=============================================================================
