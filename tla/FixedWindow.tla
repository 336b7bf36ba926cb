---------------------------- MODULE FixedWindow ----------------------------
(***************************************************************************)
(* services/rate_limiter/scripts/fixed_window.lua on one Redis key, with   *)
(* the key's expiry (see TokenBucket for how Redis expires keys).          *)
(*                                                                         *)
(* The window is not aligned: it starts with the first check that finds    *)
(* none, or finds one that is over.  A PATCH of the rule changes the        *)
(* parameters of later checks and leaves the key alone, which is named     *)
(* after the rule: what was written under the old parameters is read under *)
(* the new ones.                                                           *)
(***************************************************************************)
EXTENDS WindowParams

CONSTANTS
  Sizes, Limits,    \* what a PATCH may set
  MaxPatches        \* bound on the number of PATCHes

ASSUME PatchAssumption ==
  /\ Sizes \subseteq 1 .. WindowSize
  /\ Limits \subseteq 1 .. MaxRequests
  /\ MaxPatches \in Nat

VARIABLES
  window_size_ms,   \* ARGV[1]
  max_requests,     \* ARGV[2]
  patches,          \* how often they were changed
  now,              \* redis TIME
  key,              \* "absent" or "present"
  count,            \* hash field count
  window_start_ms,  \* hash field window_start_ms
  expire_at,        \* deadline set by PEXPIRE
  reply,            \* what the last check answered
  from, taken,      \* observer: admissions since `from', ...
  shortest          \* ... and the shortest window since

params == <<window_size_ms, max_requests, patches>>
kvars == <<key, count, window_start_ms, expire_at>>
observer == <<from, taken, shortest>>
vars == <<now, params, kvars, reply, observer>>

-----------------------------------------------------------------------------

Init ==
  /\ now = 0
  /\ window_size_ms = WindowSize
  /\ max_requests = MaxRequests
  /\ patches = 0
  /\ key = "absent"
  /\ count = 0
  /\ window_start_ms = 0
  /\ expire_at = 0
  /\ reply = NoReply
  /\ from = 0
  /\ taken = 0
  /\ shortest = WindowSize

(* A plausible slip: the window is still open at its last instant + 1. *)
FreshLate ==
  key = "absent" \/ now - window_start_ms > window_size_ms

(* Line 17: this check starts a window. *)
Fresh == key = "absent" \/ now - window_start_ms >= window_size_ms

(* Lines 17-20: the count and the window start the check works with. *)
Count == IF Fresh THEN 0 ELSE count

WindowStart == IF Fresh THEN now ELSE window_start_ms

ResetAt == WindowStart + window_size_ms

(* A plausible slip: PEXPIRE without NX, every check pushes the expiry out. *)
WriteNoNX(c) ==
  /\ key' = "present"
  /\ count' = c
  /\ window_start_ms' = WindowStart
  /\ expire_at' = now + window_size_ms

(* HSET, and PEXPIRE with NX: a deadline that is already set is kept.  A key
   that exists always has one, set by the check that created it. *)
Write(c) ==
  /\ key' = "present"
  /\ count' = c
  /\ window_start_ms' = WindowStart
  /\ expire_at' = IF key = "present" THEN expire_at ELSE now + window_size_ms

(* A plausible slip: one request more than the limit. *)
AdmitOneMore ==
  /\ Count <= max_requests
  /\ Write(Count + 1)
  /\ reply' = Allow(MaxOf(0, max_requests - (Count + 1)), ResetAt)
  /\ taken' = taken + 1
  /\ UNCHANGED <<now, params, from, shortest>>

(* Lines 24-30. *)
Admit ==
  /\ Count < max_requests
  /\ Write(Count + 1)
  /\ reply' = Allow(max_requests - (Count + 1), ResetAt)
  /\ taken' = taken + 1
  /\ UNCHANGED <<now, params, from, shortest>>

(* Lines 33-37. *)
Deny ==
  /\ Count >= max_requests
  /\ Write(Count)
  /\ reply' = Block(MaxOf(0, ResetAt - now), ResetAt)
  /\ UNCHANGED <<now, params, observer>>

(* Redis drops a key: its fields are gone. *)
Remove ==
  /\ key' = "absent"
  /\ count' = 0
  /\ window_start_ms' = 0
  /\ expire_at' = 0

(* Active expiry at the deadline. *)
Expire ==
  /\ key = "present"
  /\ now = expire_at
  /\ Remove
  /\ UNCHANGED <<now, params, reply, observer>>

(* One millisecond passes; a key whose deadline lies in the past no longer
   exists for any command. *)
Tick ==
  /\ now < MaxTime
  /\ now' = now + 1
  /\ IF key = "present" /\ now + 1 > expire_at THEN Remove ELSE UNCHANGED kvars
  /\ UNCHANGED <<params, reply, observer>>

(* An observer starts to count admissions afresh. *)
Observe ==
  /\ from' = now
  /\ taken' = 0
  /\ shortest' = window_size_ms
  /\ UNCHANGED <<now, params, kvars, reply>>

(* The next checks are built from other params of the same rule, hence under
   the same key.  What earlier replies said was about the old ones. *)
Patch(size, limit) ==
  /\ patches < MaxPatches
  /\ patches' = patches + 1
  /\ window_size_ms' = size
  /\ max_requests' = limit
  /\ shortest' = MinOf(shortest, size)
  /\ reply' = NoReply
  /\ UNCHANGED <<now, kvars, from, taken>>

Next ==
  \/ Tick \/ Expire \/ Admit \/ Deny \/ Observe
  \/ \E size \in Sizes, limit \in Limits : Patch(size, limit)

Spec == Init /\ [][Next]_vars

-----------------------------------------------------------------------------

(* The second half of the comment at fixed_window.lua:27-28: no sequence of
   checks keeps a key alive beyond the window it holds, so no window outlasts
   the longest window_size_ms the rule ever had. *)
KeyEndsWithWindow ==
  key = "present" => now <= expire_at /\ expire_at <= window_start_ms + WindowSize

(* The most that can be admitted within less than one window length, whatever
   is patched under the live key.  Two adjacent windows may each be spent at
   the boundary they share, and a window opened in the last millisecond of the
   previous key's life is lost with that key, which opens a third. *)
BurstBound ==
  now - from < shortest => taken <= 3 * MaxRequests - 1

(* retry_after_ms is enough: whoever was denied, and waits as long as told,
   is admitted unless somebody else was admitted or the rule was patched in
   between - also when the key was written under earlier params. *)
RetryAfterSuffices ==
  reply.allowed = 0 /\ now >= reply.reset_at_ms => Count < max_requests

=============================================================================
