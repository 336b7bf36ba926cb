------------------------- MODULE FixedWindowProofs -------------------------
(***************************************************************************)
(* The promises of fixed_window.lua, for every window size, limit and      *)
(* sequence of PATCHes under the live key.                                 *)
(*                                                                         *)
(* The bound on bursts is not inductive.  What carries it is a record of   *)
(* how often the count was lost since the observer began: not at all (and  *)
(* then the key was counting before), once by a rollover, or once more by  *)
(* the expiry of the key - after which the deadline is a new one, too far  *)
(* away to lose anything again.                                            *)
(***************************************************************************)
EXTENDS FixedWindow, TLAPS

Typed ==
  /\ now \in Nat
  /\ window_size_ms \in 1 .. WindowSize
  /\ max_requests \in 1 .. MaxRequests
  /\ key \in {"absent", "present"}
  /\ key = "present" =>
       /\ count \in 1 .. MaxRequests
       /\ window_start_ms \in 0 .. now
       /\ expire_at \in Nat
  /\ from \in 0 .. now
  /\ taken \in Nat
  /\ shortest \in 1 .. window_size_ms

(* A denied caller was told the end of the window that the key, if there still
   is one, holds. *)
DenialsKept ==
  reply.allowed = 0 =>
    reply.reset_at_ms \in Nat
    /\ (key = "absent" \/ window_start_ms + window_size_ms <= reply.reset_at_ms)

(* How the admissions since `from' compare with the count of the key: it counted
   before `from'; its window began later; its deadline was set later too. *)
Accounted ==
  now - from < shortest =>
    IF key = "absent" THEN taken <= 2 * MaxRequests - 1
    ELSE \/ taken <= count - 1
         \/ window_start_ms >= from /\ taken <= MaxRequests - 1 + count
         \/ /\ window_start_ms >= from /\ expire_at >= from + shortest
            /\ taken <= 2 * MaxRequests - 1 + count

(* The inductive invariant. *)
IInv == Typed /\ KeyEndsWithWindow /\ DenialsKept /\ Accounted

(* What was less than a window ago stays so for an earlier clock and a longer
   window, and an expired deadline was less than a window away. *)
LEMMA Sooner ==
  ASSUME NEW n \in Int, NEW m \in Int, NEW f \in Int, NEW s \in Int, NEW t \in Int,
         n <= m, m - f < t, t <= s
  PROVE  n - f < s
  OBVIOUS

LEMMA DeadlineNear ==
  ASSUME NEW m \in Int, NEW e \in Int, NEW f \in Int, NEW s \in Int,
         m >= e, m - f < s
  PROVE  ~ (e >= f + s)
  OBVIOUS

LEMMA DeadlineFar ==
  ASSUME NEW e \in Int, NEW f \in Int, NEW s \in Int, NEW t \in Int,
         e >= f + s, t <= s
  PROVE  e >= f + t
  OBVIOUS

LEMMA InitIInv == Init => IInv
  BY WindowAssumption DEF Init, NoReply, IInv, Typed, KeyEndsWithWindow, DenialsKept, Accounted

(* Whoever starts a window is admitted. *)
LEMMA FreshAdmits ==
  ASSUME Typed, Fresh
  PROVE  Count < max_requests
  BY DEF Typed, Count

LEMMA AdmitIInv ==
  ASSUME IInv, Admit
  PROVE  IInv'
  <1> USE WindowAssumption
  <1>1. /\ key' = "present" /\ count' = Count + 1 /\ window_start_ms' = WindowStart
        /\ expire_at' = IF key = "present" THEN expire_at ELSE now + window_size_ms
        /\ Count < max_requests /\ taken' = taken + 1 /\ reply'.allowed = 1
        /\ UNCHANGED <<now, window_size_ms, max_requests, from, shortest>>
    BY DEF Admit, Write, Allow, params
  <1>2. Typed /\ KeyEndsWithWindow /\ Accounted
    BY DEF IInv
  <1>3. /\ Count \in 0 .. MaxRequests - 1
        /\ WindowStart \in 0 .. now
        /\ key = "present" => WindowStart >= window_start_ms
    <2>1. CASE Fresh
      <3>1. Count = 0 /\ WindowStart = now
        BY <2>1 DEF Count, WindowStart
      <3> QED
        BY <1>2, <3>1 DEF Typed
    <2>2. CASE ~Fresh
      <3>1. Count = count /\ WindowStart = window_start_ms /\ key = "present"
        BY <1>2, <2>2 DEF Count, WindowStart, Fresh, Typed
      <3>2. count \in 1 .. MaxRequests /\ window_start_ms \in 0 .. now
        BY <1>2, <3>1 DEF Typed
      <3>3. max_requests \in Int /\ max_requests <= MaxRequests /\ count < max_requests
        BY <1>1, <1>2, <3>1 DEF Typed
      <3> QED
        BY <3>1, <3>2, <3>3
    <2> QED
      BY <2>1, <2>2
  <1>4. Typed'
    BY <1>1, <1>2, <1>3 DEF Typed
  <1>5. KeyEndsWithWindow'
    BY <1>1, <1>2, <1>3 DEF Typed, KeyEndsWithWindow, WindowStart, Fresh
  <1>6. DenialsKept'
    BY <1>1 DEF DenialsKept
  <1>7. Accounted'
    <2> SUFFICES ASSUME now - from < shortest
                 PROVE  \/ taken' <= count' - 1
                        \/ window_start_ms' >= from /\ taken' <= MaxRequests - 1 + count'
                        \/ /\ window_start_ms' >= from /\ expire_at' >= from + shortest
                           /\ taken' <= 2 * MaxRequests - 1 + count'
      BY <1>1 DEF Accounted
    <2>1. CASE key = "absent"
      <3>1. Count = 0 /\ WindowStart = now
        BY <2>1 DEF Count, WindowStart, Fresh
      <3> QED
        BY <1>1, <1>2, <2>1, <3>1 DEF Accounted, Typed
    <2>2. CASE key = "present" /\ Fresh
      <3>1. Count = 0 /\ WindowStart = now /\ now - window_start_ms >= window_size_ms
        BY <2>2 DEF Count, WindowStart, Fresh
      <3>2. ~ (window_start_ms >= from)
        BY <1>2, <2>2, <3>1 DEF Typed
      <3>3. taken <= count - 1
        BY <1>2, <2>2, <3>2 DEF Accounted
      <3> QED
        BY <1>1, <1>2, <2>2, <3>1, <3>3 DEF Typed
    <2>3. CASE key = "present" /\ ~Fresh
      <3>1. Count = count /\ WindowStart = window_start_ms
        BY <2>3 DEF Count, WindowStart
      <3> QED
        BY <1>1, <1>2, <2>3, <3>1 DEF Accounted, Typed
    <2> QED
      BY <1>2, <2>1, <2>2, <2>3 DEF Typed
  <1> QED
    BY <1>4, <1>5, <1>6, <1>7 DEF IInv

LEMMA DenyIInv ==
  ASSUME IInv, Deny
  PROVE  IInv'
  <1> USE WindowAssumption
  <1>1. Typed /\ KeyEndsWithWindow /\ Accounted
    BY DEF IInv
  <1>2. ~Fresh
    BY <1>1, FreshAdmits DEF Deny, Typed, Count
  <1>3. key = "present" /\ Count = count /\ WindowStart = window_start_ms
    BY <1>1, <1>2 DEF Fresh, Typed, Count, WindowStart
  <1>4. /\ UNCHANGED <<now, key, count, window_start_ms, expire_at, window_size_ms>>
        /\ UNCHANGED <<max_requests, from, taken, shortest>>
        /\ reply' = Block(MaxOf(0, ResetAt - now), ResetAt)
    BY <1>3 DEF Deny, Write, params, observer
  <1>5. reply'.reset_at_ms = window_start_ms + window_size_ms
    BY <1>3, <1>4 DEF Block, ResetAt
  <1>6. DenialsKept'
    BY <1>1, <1>3, <1>4, <1>5 DEF DenialsKept, Typed
  <1>7. Typed' /\ KeyEndsWithWindow' /\ Accounted'
    BY <1>1, <1>4 DEF Typed, KeyEndsWithWindow, Accounted
  <1> QED
    BY <1>6, <1>7 DEF IInv

(* The key goes, at its deadline or one millisecond later. *)
LEMMA RemoveIInv ==
  ASSUME IInv, Remove, key = "present", now' \in {now, now + 1}, now' >= expire_at,
         UNCHANGED <<params, reply, observer>>
  PROVE  IInv'
  <1> USE WindowAssumption
  <1>1. Typed /\ Accounted /\ DenialsKept
    BY DEF IInv
  <1>2. /\ key' = "absent"
        /\ UNCHANGED <<window_size_ms, max_requests, from, taken, shortest, reply>>
    BY DEF Remove, params, observer
  <1>3. Typed'
    BY <1>1, <1>2 DEF Typed
  <1>4. Accounted'
    <2> SUFFICES ASSUME now' - from < shortest
                 PROVE  taken <= 2 * MaxRequests - 1
      BY <1>2 DEF Accounted
    <2>0. now \in Int /\ from \in Int /\ shortest \in Int /\ expire_at \in Int
      BY <1>1 DEF Typed
    <2>1. now <= now' /\ now' \in Int
      BY <2>0
    <2>2. shortest <= shortest
      BY <2>0
    <2>3. now - from < shortest /\ ~ (expire_at >= from + shortest)
      BY <2>0, <2>1, <2>2, Sooner, DeadlineNear
    <2> QED
      BY <1>1, <2>3 DEF Accounted, Typed
  <1> QED
    BY <1>1, <1>2, <1>3, <1>4 DEF IInv, KeyEndsWithWindow, DenialsKept

LEMMA IInvStep == IInv /\ [Next]_vars => IInv'
  <1> SUFFICES ASSUME IInv, [Next]_vars
               PROVE  IInv'
    OBVIOUS
  <1> USE WindowAssumption
  <1>0. Typed
    BY DEF IInv
  <1>1. CASE Tick
    <2>1. CASE key = "present" /\ now + 1 > expire_at
      BY <1>0, <1>1, <2>1, RemoveIInv DEF Tick, Typed
    <2>2. CASE ~ (key = "present" /\ now + 1 > expire_at)
      <3>1. /\ now' = now + 1
            /\ UNCHANGED <<key, count, window_start_ms, expire_at, window_size_ms>>
            /\ UNCHANGED <<max_requests, from, taken, shortest, reply>>
        BY <1>1, <2>2 DEF Tick, kvars, params, observer
      <3>2. Typed'
        BY <1>0, <3>1 DEF Typed
      <3>3. KeyEndsWithWindow' /\ DenialsKept'
        BY <1>0, <2>2, <3>1 DEF IInv, Typed, KeyEndsWithWindow, DenialsKept
      <3>4. Accounted'
        <4> SUFFICES ASSUME now' - from' < shortest'
                     PROVE  Accounted'
          BY DEF Accounted
        <4>0. now \in Int /\ from \in Int /\ shortest \in Int
          BY <1>0 DEF Typed
        <4>1. now - from < shortest
          BY <3>1, <4>0
        <4> QED
          BY <3>1, <4>1 DEF IInv, Accounted
      <3> QED
        BY <3>2, <3>3, <3>4 DEF IInv
    <2> QED
      BY <2>1, <2>2
  <1>2. CASE Expire
    BY <1>0, <1>2, RemoveIInv DEF Expire, Typed
  <1>3. CASE Admit
    BY <1>3, AdmitIInv
  <1>4. CASE Deny
    BY <1>4, DenyIInv
  <1>5. CASE Observe
    <2>1. /\ from' = now /\ taken' = 0 /\ shortest' = window_size_ms
          /\ UNCHANGED <<key, count, window_start_ms, expire_at, window_size_ms>>
          /\ UNCHANGED <<now, max_requests, reply>>
      BY <1>5 DEF Observe, kvars, params
    <2>2. Typed'
      BY <1>0, <2>1 DEF Typed
    <2>3. Accounted'
      BY <1>0, <2>1 DEF Accounted, Typed
    <2> QED
      BY <2>1, <2>2, <2>3 DEF IInv, KeyEndsWithWindow, DenialsKept
  <1>6. ASSUME NEW size \in Sizes, NEW limit \in Limits, Patch(size, limit)
        PROVE  IInv'
    <2>1. /\ window_size_ms' = size /\ max_requests' = limit
          /\ shortest' = MinOf(shortest, size) /\ reply' = NoReply
          /\ UNCHANGED <<now, key, count, window_start_ms, expire_at, from, taken>>
      BY <1>6 DEF Patch, kvars
    <2>2. size \in 1 .. WindowSize /\ limit \in 1 .. MaxRequests
      BY PatchAssumption
    <2>3. shortest' \in 1 .. size /\ shortest' <= shortest
      BY <1>0, <2>1, <2>2 DEF Typed, MinOf
    <2>4. Typed'
      BY <1>0, <2>1, <2>2, <2>3 DEF Typed
    <2>5. Accounted'
      <3> SUFFICES ASSUME now' - from' < shortest'
                   PROVE  Accounted'
        BY DEF Accounted
      <3>0. now \in Int /\ from \in Int /\ shortest \in Int /\ shortest' \in Int
        BY <1>0, <2>2, <2>3 DEF Typed
      <3>1. now - from < shortest
        BY <2>1, <2>3, <3>0
      <3>2. ASSUME expire_at \in Int, expire_at >= from + shortest
            PROVE  expire_at >= from + shortest'
        BY <2>3, <3>0, <3>2, DeadlineFar
      <3> QED
        BY <1>0, <2>1, <3>1, <3>2 DEF IInv, Accounted, Typed
    <2>6. reply'.allowed = -1
      BY <2>1 DEF NoReply
    <2> QED
      BY <2>1, <2>4, <2>5, <2>6 DEF IInv, KeyEndsWithWindow, DenialsKept
  <1>7. CASE UNCHANGED vars
    <2>1. /\ UNCHANGED <<key, count, window_start_ms, expire_at, window_size_ms>>
          /\ UNCHANGED <<now, max_requests, from, taken, shortest, reply>>
      BY <1>7 DEF vars, params, kvars, observer
    <2> QED
      BY <2>1 DEF IInv, Typed, KeyEndsWithWindow, DenialsKept, Accounted
  <1> QED
    BY <1>1, <1>2, <1>3, <1>4, <1>5, <1>6, <1>7 DEF Next

LEMMA FixedWindowInvariant == Spec => []IInv
  BY InitIInv, IInvStep, PTL DEF Spec

(* fixed_window.lua:27-28: no sequence of checks and PATCHes keeps a key alive
   beyond the longest window. *)
THEOREM FixedWindowEnds == Spec => []KeyEndsWithWindow
  <1>1. IInv => KeyEndsWithWindow
    BY DEF IInv
  <1> QED
    BY <1>1, FixedWindowInvariant, PTL

(* fixed_window.lua admits at most 3 * max_requests - 1 checks within less
   than one window, whatever is patched and whenever the key expires. *)
THEOREM FixedWindowBurst == Spec => []BurstBound
  <1>1. IInv => BurstBound
    BY WindowAssumption DEF IInv, Typed, Accounted, BurstBound
  <1> QED
    BY <1>1, FixedWindowInvariant, PTL

(* Whoever fixed_window.lua denied, and waits retry_after_ms, is admitted
   unless somebody else was, or the rule was patched. *)
THEOREM FixedWindowRetry == Spec => []RetryAfterSuffices
  <1>1. ASSUME IInv
        PROVE  RetryAfterSuffices
    <2> SUFFICES ASSUME reply.allowed = 0, now >= reply.reset_at_ms
                 PROVE  Count < max_requests
      BY DEF RetryAfterSuffices
    <2>1. Typed /\ Fresh
      BY <1>1 DEF IInv, Typed, DenialsKept, Fresh
    <2> QED
      BY <2>1, FreshAdmits
  <1> QED
    BY <1>1, FixedWindowInvariant, PTL

=============================================================================
