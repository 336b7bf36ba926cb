----------------------------- MODULE MCBuckets -----------------------------
(***************************************************************************)
(* token_bucket.lua and leaky_bucket.lua, each on a key of its own.  The   *)
(* two share nothing, so that it is enough to let one of them be checked   *)
(* in a behaviour: the variables that start with l_ are those of the leaky *)
(* bucket.                                                                 *)
(***************************************************************************)
EXTENDS TokenBucket

VARIABLES
  checked,    \* the script whose key is checked
  l_now, l_key, level, last_leak_ms, l_expire_at, l_reply, l_from, l_taken, l_told

leakyVars ==
  <<l_now, l_key, level, last_leak_ms, l_expire_at, l_reply, l_from, l_taken, l_told>>

Leaky == INSTANCE LeakyBucket WITH
  now <- l_now, key <- l_key, expire_at <- l_expire_at, reply <- l_reply,
  from <- l_from, taken <- l_taken, told <- l_told

MCInit == Init /\ Leaky!Init /\ checked \in {"token_bucket", "leaky_bucket"}

TokenStep == checked = "token_bucket" /\ Next /\ UNCHANGED <<checked, leakyVars>>

LeakyStep == checked = "leaky_bucket" /\ Leaky!Next /\ UNCHANGED <<checked, vars>>

MCSpec == MCInit /\ [][TokenStep \/ LeakyStep]_<<checked, vars, leakyVars>>

(* The bucket of leaky_bucket.lua never holds more than its capacity. *)
LeakyTypeOK == Leaky!TypeOK

(* Whatever leaky_bucket.lua does, TTL and expiry included, token_bucket.lua
   may do on the room left in the bucket. *)
LeakyIsTokenBucket == Leaky!LeakyIsTokenBucket

=============================================================================
