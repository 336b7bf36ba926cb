----------------------------- MODULE MCWindows -----------------------------
(***************************************************************************)
(* The three window scripts, each on a key of its own.  They share         *)
(* nothing, so that it is enough to let one of them be checked in a        *)
(* behaviour: the variables that start with g_ are those of the sliding    *)
(* log, the ones with c_ those of the sliding counter.                     *)
(***************************************************************************)
EXTENDS FixedWindow

CONSTANTS LogTime, CounterTime    \* bounds on the clocks of the sliding windows

VARIABLES
  checked,    \* the script whose key is checked
  g_now, zset, g_expire_at, g_reply, next_id, g_admitted,
  c_now, c_key, c_window_start_ms, curr_count, prev_count, c_expire_at, c_reply, c_admitted

logVars == <<g_now, zset, g_expire_at, g_reply, next_id, g_admitted>>

counterVars ==
  <<c_now, c_key, c_window_start_ms, curr_count, prev_count, c_expire_at, c_reply,
    c_admitted>>

Log == INSTANCE SlidingWindowLog WITH
  MaxTime <- LogTime, now <- g_now, expire_at <- g_expire_at, reply <- g_reply,
  admitted <- g_admitted

Counter == INSTANCE SlidingWindowCounter WITH
  MaxTime <- CounterTime, now <- c_now, key <- c_key,
  window_start_ms <- c_window_start_ms, expire_at <- c_expire_at, reply <- c_reply,
  admitted <- c_admitted

MCInit ==
  /\ Init /\ Log!Init /\ Counter!Init
  /\ checked \in {"fixed_window", "sliding_window_log", "sliding_window_counter"}

FixedStep ==
  /\ checked = "fixed_window"
  /\ Next
  /\ UNCHANGED <<checked, logVars, counterVars>>

LogStep ==
  /\ checked = "sliding_window_log"
  /\ Log!Next
  /\ UNCHANGED <<checked, vars, counterVars>>

CounterStep ==
  /\ checked = "sliding_window_counter"
  /\ Counter!Next
  /\ UNCHANGED <<checked, vars, logVars>>

MCSpec ==
  MCInit /\ [][FixedStep \/ LogStep \/ CounterStep]_<<checked, vars, logVars, counterVars>>

(* The properties of sliding_window_log.lua: see SlidingWindowLog.  No window
   has more than max_requests admissions, wherever it ends. *)
WindowBound == Log!WindowBound

(* The sorted set has every admission that still counts, across trims and the
   expiry of its key. *)
LogIsComplete == Log!LogIsComplete

(* It has max_requests members at most. *)
LogIsBounded == Log!LogIsBounded

(* Whoever is denied and waits retry_after_ms is admitted, unless others come
   first, and not a millisecond earlier. *)
RetryAfterExact == Log!RetryAfterExact

(* The script answers as a log of all admissions would. *)
ImplementsSlidingWindow == Log!ImplementsSlidingWindow

(* The properties of sliding_window_counter.lua: see SlidingWindowCounter.  The
   two counts a check works with are the true ones, whatever the gaps. *)
CountsAreTrue == Counter!CountsAreTrue

(* No aligned window has more than max_requests admissions, and the weighted
   count exceeds max_requests by one at most. *)
WeightedBound == Counter!WeightedBound

(* A millisecond after the promised reset a denied caller is admitted, unless
   others come first. *)
RetryAfterReset == Counter!RetryAfterReset

=============================================================================
