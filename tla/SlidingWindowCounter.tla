------------------------ MODULE SlidingWindowCounter ------------------------
(***************************************************************************)
(* services/rate_limiter/scripts/sliding_window_counter.lua on one Redis   *)
(* key, with the key's expiry (see TokenBucket for how Redis expires       *)
(* keys).  Windows are aligned to multiples of window_size_ms.  The        *)
(* estimate prev * weight + curr is multiplied by window_size_ms, which    *)
(* makes its exact value an integer; the doubles of Lua round it.          *)
(***************************************************************************)
EXTENDS WindowParams

VARIABLES
  now,               \* redis TIME
  key,               \* "absent" or "present"
  window_start_ms,   \* hash field window_start_ms
  curr_count,        \* hash field curr_count
  prev_count,        \* hash field prev_count
  expire_at,         \* deadline set by PEXPIRE
  reply,             \* what the last check answered
  admitted           \* history: admissions of every aligned window

kvars == <<key, window_start_ms, curr_count, prev_count, expire_at>>
vars == <<now, key, window_start_ms, curr_count, prev_count, expire_at, reply, admitted>>

(* The aligned windows up to the bound of the clock, by number. *)
Windows == -1 .. MaxTime \div WindowSize

(* Line 13: the window of this check. *)
Window == now \div WindowSize

WindowStart == Window * WindowSize

-----------------------------------------------------------------------------

Init ==
  /\ now = 0
  /\ key = "absent"
  /\ window_start_ms = 0
  /\ curr_count = 0
  /\ prev_count = 0
  /\ expire_at = 0
  /\ reply = NoReply
  /\ admitted = [w \in Windows |-> 0]

(* Lines 17-30: the counts after the rollover; only the window right before
   this one is remembered. *)
Prev ==
  IF key = "absent" THEN 0
  ELSE IF window_start_ms = WindowStart THEN prev_count
  ELSE IF WindowStart - window_start_ms = WindowSize THEN curr_count
  ELSE 0

Curr ==
  IF key = "present" /\ window_start_ms = WindowStart THEN curr_count ELSE 0

Elapsed == now - WindowStart

(* A plausible slip: the previous window always counts in full. *)
EstimateUnweighted == (Prev + Curr) * WindowSize

(* Lines 32-34, times window_size_ms. *)
Estimate == Prev * (WindowSize - Elapsed) + Curr * WindowSize

(* The same in doubles, times 2 * window_size_ms.  Rounding moves the estimate
   by far less than 1 / window_size_ms, so that it matters where the exact
   value is a whole number: one half stands for all of it.  Without a previous
   window, or with its full weight, nothing is rounded. *)
Estimates ==
  {2 * Estimate + d : d \in IF Prev > 0 /\ Elapsed > 0 THEN {-1, 0, 1} ELSE {0}}

(* max_requests, times 2 * window_size_ms. *)
Limit == 2 * (MaxRequests * WindowSize)

(* Line 43: math.floor(max_requests - e - 1), zero at least. *)
Remaining(e) == MaxOf(0, (Limit - e - 2 * WindowSize) \div (2 * WindowSize))

ResetAt == WindowStart + WindowSize

(* A plausible slip: one window of retention instead of two. *)
WriteOneWindow(c) ==
  /\ key' = "present"
  /\ window_start_ms' = WindowStart
  /\ curr_count' = c
  /\ prev_count' = Prev
  /\ expire_at' = now + WindowSize

(* HSET and PEXPIRE of both branches. *)
Write(c) ==
  /\ key' = "present"
  /\ window_start_ms' = WindowStart
  /\ curr_count' = c
  /\ prev_count' = Prev
  /\ expire_at' = now + 2 * WindowSize

(* A plausible slip: the limit itself is still admitted. *)
AdmitAtLimit ==
  /\ \E e \in Estimates : e <= Limit /\ reply' = Allow(Remaining(e), ResetAt)
  /\ Write(Curr + 1)
  /\ admitted' = [admitted EXCEPT ![Window] = @ + 1]
  /\ UNCHANGED now

(* Lines 37-45. *)
Admit ==
  /\ \E e \in Estimates : e < Limit /\ reply' = Allow(Remaining(e), ResetAt)
  /\ Write(Curr + 1)
  /\ admitted' = [admitted EXCEPT ![Window] = @ + 1]
  /\ UNCHANGED now

(* Lines 48-52. *)
Deny ==
  /\ \E e \in Estimates : e >= Limit
  /\ Write(Curr)
  /\ reply' = Block(MaxOf(0, WindowSize - Elapsed), ResetAt)
  /\ UNCHANGED <<now, admitted>>

(* Redis drops a key: its fields are gone. *)
Remove ==
  /\ key' = "absent"
  /\ window_start_ms' = 0
  /\ curr_count' = 0
  /\ prev_count' = 0
  /\ expire_at' = 0

(* Active expiry at the deadline. *)
Expire ==
  /\ key = "present"
  /\ now = expire_at
  /\ Remove
  /\ UNCHANGED <<now, reply, admitted>>

(* One millisecond passes; a key whose deadline lies in the past no longer
   exists for any command. *)
Tick ==
  /\ now < MaxTime
  /\ now' = now + 1
  /\ IF key = "present" /\ now + 1 > expire_at THEN Remove ELSE UNCHANGED kvars
  /\ UNCHANGED <<reply, admitted>>

Next == Tick \/ Expire \/ Admit \/ Deny

Spec == Init /\ [][Next]_vars

-----------------------------------------------------------------------------

(* The comment at sliding_window_counter.lua:40-41, and the rollover: at any
   moment the counts a check would work with are the true numbers of
   admissions of this window and of the one before, however long the key was
   idle and whether or not it expired in between. *)
CountsAreTrue ==
  /\ Curr = admitted[Window]
  /\ Prev = admitted[Window - 1]

(* The limit the algorithm enforces: no aligned window has more than
   max_requests admissions, and the weighted count of the last two windows, as
   it really happened, never exceeds max_requests by more than the one request
   that was admitted last - by that one only where rounding decides. *)
WeightedBound ==
  /\ admitted[Window] <= MaxRequests
  /\ admitted[Window - 1] * (WindowSize - Elapsed) + admitted[Window] * WindowSize
       <= (MaxRequests + 1) * WindowSize

(* After a denial the reset time is one millisecond short at worst: a caller
   that comes later than reset_at_ms is admitted, however the estimate is
   rounded, unless others were admitted in between.  (At reset_at_ms itself a
   spent window still weighs in full.) *)
RetryAfterReset ==
  reply.allowed = 0 /\ now > reply.reset_at_ms => \A e \in Estimates : e < Limit

=============================================================================
