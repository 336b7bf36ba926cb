--------------------- MODULE SlidingWindowCounterProofs ---------------------
(***************************************************************************)
(* The promises of sliding_window_counter.lua, for every window size and   *)
(* limit.                                                                  *)
(*                                                                         *)
(* That the two counts are the true ones is not inductive: they are        *)
(* compared with a window that moves on by itself.  What is kept is that   *)
(* the key holds the counts of some window, that nothing was admitted      *)
(* since, and that its deadline lies two windows further on: a key that is *)
(* gone was too old to matter.                                             *)
(***************************************************************************)
EXTENDS SlidingWindowCounter, TLAPS

(* Nothing was admitted after window k. *)
Silent(k) == \A w \in Windows : w > k => admitted[w] = 0

(* The key holds the counts of window k, and lives for two windows more. *)
Holds(k) ==
  /\ window_start_ms = k * WindowSize
  /\ curr_count = admitted[k]
  /\ prev_count = admitted[k - 1]
  /\ Silent(k)
  /\ (k + 2) * WindowSize <= expire_at

KeyHolds ==
  IF key = "present"
  THEN expire_at \in Nat /\ now <= expire_at /\ \E k \in 0 .. Window : Holds(k)
  ELSE Silent(Window - 2)

Typed ==
  /\ now \in 0 .. MaxTime
  /\ key \in {"absent", "present"}
  /\ admitted \in [Windows -> 0 .. MaxRequests]

(* A denied caller was told the end of a window after which nothing has been
   admitted. *)
DenialStands ==
  reply.allowed = 0 =>
    \E d \in 0 .. Window : reply.reset_at_ms = (d + 1) * WindowSize /\ Silent(d)

(* The inductive invariant. *)
IInv == Typed /\ KeyHolds /\ WeightedBound /\ DenialStands

-----------------------------------------------------------------------------

(* Products and quotients by the window size. *)

LEMMA MulInt ==
  ASSUME NEW a \in Int, NEW b \in Int
  PROVE  a * b \in Int
  OBVIOUS

LEMMA MulNat ==
  ASSUME NEW a \in Nat, NEW b \in Nat
  PROVE  a * b \in Nat
  OBVIOUS

LEMMA MulPos ==
  ASSUME NEW a \in Int, NEW b \in Int, a > 0, b > 0
  PROVE  a * b > 0
  OBVIOUS

LEMMA MulAdd ==
  ASSUME NEW a \in Int, NEW w \in Int
  PROVE  (a + 1) * w = a * w + w /\ (a + 2) * w = a * w + 2 * w
  OBVIOUS

LEMMA MulMono ==
  ASSUME NEW a \in Int, NEW b \in Int, NEW w \in Nat, a <= b
  PROVE  a * w <= b * w
  OBVIOUS

LEMMA MulMonoRight ==
  ASSUME NEW a \in Nat, NEW v \in Int, NEW w \in Int, v <= w
  PROVE  a * v <= a * w
  OBVIOUS

LEMMA MulMonoStrict ==
  ASSUME NEW a \in Int, NEW b \in Int, NEW w \in Nat \ {0}, a < b
  PROVE  a * w < b * w
<1>1. (a + 1) * w <= b * w /\ (a + 1) * w = a * w + w
  BY MulMono, MulAdd
<1>2. a * w \in Int /\ b * w \in Int
  BY MulInt
<1> QED BY <1>1, <1>2

LEMMA MulCancel ==
  ASSUME NEW a \in Int, NEW b \in Int, NEW w \in Nat \ {0}
  PROVE  /\ a * w < b * w => a < b
         /\ a * w = b * w => a = b
<1>1. a * w \in Int /\ b * w \in Int
  BY MulInt
<1>2. a < b => a * w < b * w
  BY MulMonoStrict
<1>3. b < a => b * w < a * w
  BY MulMonoStrict
<1> QED BY <1>1, <1>2, <1>3

LEMMA DivBounds ==
  ASSUME NEW n \in Nat, NEW w \in Nat \ {0}
  PROVE  /\ n \div w \in Nat
         /\ (n \div w) * w \in Nat
         /\ (n \div w) * w <= n
         /\ n < (n \div w) * w + w
<1> DEFINE q == n \div w
<1>1. q \in Nat /\ q * w <= n /\ n < (q + 1) * w
  OBVIOUS
<1>2. (q + 1) * w = q * w + w /\ q * w \in Nat
  BY <1>1
<1> QED BY <1>1, <1>2

LEMMA DivMono ==
  ASSUME NEW m \in Nat, NEW n \in Nat, NEW w \in Nat \ {0}, m <= n
  PROVE  m \div w <= n \div w
<1> DEFINE p == m \div w
           q == n \div w
<1>1. p \in Nat /\ q \in Nat /\ p * w \in Nat /\ q * w \in Nat /\ p * w <= m /\ n < q * w + w
  BY DivBounds
<1> HIDE DEF p, q
<1>2. (q + 1) * w = q * w + w /\ q + 1 \in Int
  BY <1>1, MulAdd
<1>3. p * w < (q + 1) * w
  BY <1>1, <1>2
<1>4. p < q + 1
  BY <1>1, <1>2, <1>3, MulCancel
<1> QED BY <1>1, <1>4 DEF p, q

(* The next millisecond lies in the same window, or begins the next. *)
LEMMA DivStep ==
  ASSUME NEW n \in Nat, NEW w \in Nat \ {0}
  PROVE  \/ (n + 1) \div w = n \div w
         \/ /\ (n + 1) \div w = (n \div w) + 1
            /\ ((n + 1) \div w) * w = n + 1
            /\ (n \div w) * w + w = n + 1
<1> DEFINE p == (n + 1) \div w
           q == n \div w
<1>0. n \div w <= (n + 1) \div w
  BY DivMono
<1>1. /\ p \in Nat /\ q \in Nat /\ p * w \in Nat /\ q * w \in Nat
      /\ p * w <= n + 1 /\ n < q * w + w /\ q <= p
  BY <1>0, DivBounds
<1> HIDE DEF p, q
<1>2. (q + 1) * w = q * w + w /\ (q + 2) * w = q * w + 2 * w
  BY <1>1, MulAdd
<1>3. p * w < (q + 2) * w
  BY <1>1, <1>2
<1>4. p < q + 2
  BY <1>1, <1>3, MulCancel
<1>5. p = q \/ p = q + 1
  BY <1>1, <1>4
<1>6. p = q + 1 => p * w = n + 1 /\ q * w + w = n + 1
  BY <1>1, <1>2
<1> QED BY <1>5, <1>6 DEF p, q

-----------------------------------------------------------------------------

(* Where the present window is. *)
LEMMA WindowFacts ==
  ASSUME now \in 0 .. MaxTime
  PROVE  /\ Window \in Nat /\ Window \in Windows /\ Window - 1 \in Windows
         /\ WindowStart \in Nat /\ WindowStart <= now /\ now < WindowStart + WindowSize
<1> USE WindowAssumption
<1>1. now \in Nat /\ MaxTime \in Nat /\ now <= MaxTime
  OBVIOUS
<1>2. now \div WindowSize <= MaxTime \div WindowSize
  BY <1>1, DivMono
<1>3. now \div WindowSize \in Nat /\ MaxTime \div WindowSize \in Nat
  BY <1>1, DivBounds
<1>4. Window \in Windows /\ Window - 1 \in Windows
  BY <1>2, <1>3 DEF Window, Windows
<1>5. WindowStart \in Nat /\ WindowStart <= now /\ now < WindowStart + WindowSize
  BY <1>1, DivBounds DEF WindowStart, Window
<1> QED BY <1>3, <1>4, <1>5 DEF Window

(* The counts a check works with. *)
LEMMA CountsTrue ==
  ASSUME Typed, KeyHolds
  PROVE  CountsAreTrue
<1> USE WindowAssumption
<1>1. /\ Window \in Nat /\ Window \in Windows /\ Window - 1 \in Windows
      /\ WindowStart = Window * WindowSize /\ WindowStart \in Nat
  BY WindowFacts DEF Typed, WindowStart
<1>2. CASE key = "absent"
  <2>1. Silent(Window - 2)
    BY <1>2 DEF KeyHolds
  <2>2. admitted[Window] = 0 /\ admitted[Window - 1] = 0
    BY <1>1, <2>1 DEF Silent
  <2>3. Curr = 0 /\ Prev = 0
    BY <1>2 DEF Curr, Prev
  <2> QED BY <2>2, <2>3 DEF CountsAreTrue
<1>3. CASE key = "present"
  <2>1. PICK k \in 0 .. Window : Holds(k)
    BY <1>3 DEF KeyHolds
  <2>2. k \in Int /\ k <= Window /\ window_start_ms = k * WindowSize /\ k * WindowSize \in Int
    BY <1>1, <2>1, MulInt DEF Holds
  <2>3. CASE k = Window
    <3>1. Curr = curr_count /\ Prev = prev_count
      BY <1>1, <1>3, <2>2, <2>3 DEF Curr, Prev
    <3> QED BY <2>1, <2>3, <3>1 DEF Holds, CountsAreTrue
  <2>4. CASE k # Window
    <3>1. ~ (window_start_ms = WindowStart) /\ k <= Window - 1
      BY <1>1, <2>2, <2>4, MulCancel
    <3>2. admitted[Window] = 0 /\ Curr = 0
      BY <1>1, <2>1, <2>2, <3>1 DEF Holds, Silent, Curr
    <3>3. (k + 1) * WindowSize = k * WindowSize + WindowSize
      BY <2>2, MulAdd
    <3>4. CASE k = Window - 1
      <4>1. k + 1 = Window
        BY <1>1, <3>4
      <4>2. WindowStart - window_start_ms = WindowSize
        BY <1>1, <2>2, <3>3, <4>1
      <4>3. Prev = curr_count
        BY <1>3, <3>1, <4>2 DEF Prev
      <4> QED BY <2>1, <3>2, <3>4, <4>3 DEF Holds, CountsAreTrue
    <3>5. CASE k # Window - 1
      <4>1. k < Window - 1 /\ k + 1 \in Int /\ k + 1 # Window
        BY <1>1, <2>2, <3>1, <3>5
      <4>2. (k + 1) * WindowSize # Window * WindowSize
        BY <1>1, <4>1, MulCancel
      <4>3. ~ (WindowStart - window_start_ms = WindowSize)
        BY <1>1, <2>2, <3>3, <4>2
      <4>4. Prev = 0
        BY <1>3, <3>1, <4>3 DEF Prev
      <4>5. admitted[Window - 1] = 0
        BY <1>1, <2>1, <4>1 DEF Holds, Silent
      <4> QED BY <3>2, <4>4, <4>5 DEF CountsAreTrue
    <3> QED BY <3>4, <3>5
  <2> QED BY <2>3, <2>4
<1> QED BY <1>2, <1>3 DEF Typed

(* Nothing was admitted after the present window. *)
LEMMA SilentAfter ==
  ASSUME Typed, KeyHolds
  PROVE  Silent(Window)
<1>1. Window \in Nat /\ Windows \subseteq Int
  BY WindowFacts, WindowAssumption, DivBounds DEF Typed, Windows
<1>2. CASE key = "present"
  <2>1. PICK k \in 0 .. Window : Silent(k)
    BY <1>2 DEF KeyHolds, Holds
  <2> QED BY <1>1, <2>1 DEF Silent
<1>3. CASE key = "absent"
  BY <1>1, <1>3 DEF KeyHolds, Silent
<1> QED BY <1>2, <1>3 DEF Typed

LEMMA InitIInv == Init => IInv
<1> SUFFICES ASSUME Init PROVE IInv
  OBVIOUS
<1> USE WindowAssumption
<1>1. Typed
  BY DEF Init, Typed
<1>2. \A w \in Windows : admitted[w] = 0
  BY DEF Init
<1>3. KeyHolds /\ DenialStands
  BY <1>2 DEF Init, KeyHolds, Silent, DenialStands, NoReply
<1>4. WeightedBound
  <2>1. Window \in Windows /\ Window - 1 \in Windows /\ WindowStart \in Nat /\ now \in Nat
    BY <1>1, WindowFacts DEF Typed
  <2>2. admitted[Window] = 0 /\ admitted[Window - 1] = 0
    BY <1>2, <2>1
  <2>3. 0 * (WindowSize - Elapsed) = 0 /\ 0 * WindowSize = 0
    BY <2>1 DEF Elapsed
  <2>4. 0 * WindowSize <= (MaxRequests + 1) * WindowSize
    BY MulMono
  <2> QED BY <2>2, <2>3, <2>4 DEF WeightedBound
<1> QED BY <1>1, <1>3, <1>4 DEF IInv

(* The estimate a check compares is the one of the true counts. *)
LEMMA EstimateTrue ==
  ASSUME Typed, KeyHolds
  PROVE  Estimate = admitted[Window - 1] * (WindowSize - Elapsed) + admitted[Window] * WindowSize
  BY CountsTrue DEF CountsAreTrue, Estimate

(* What rounding does to a comparison with the limit: nothing, unless the exact
   estimate equals it. *)
LEMMA HalfUnits ==
  ASSUME NEW x \in Int, NEW y \in Int, NEW d \in {-1, 0, 1}
  PROVE  /\ 2 * x + d < 2 * y => x <= y
         /\ d = 0 /\ 2 * x + d < 2 * y => x < y
         /\ x < y => 2 * x + d < 2 * y
  OBVIOUS

(* The deadline of a check, from the window it falls in. *)
LEMMA WriteDeadline ==
  ASSUME Typed
  PROVE  /\ now + 2 * WindowSize \in Nat
         /\ now <= now + 2 * WindowSize
         /\ (Window + 2) * WindowSize <= now + 2 * WindowSize
<1> USE WindowAssumption
<1>1. /\ Window \in Nat /\ Window * WindowSize \in Nat
      /\ Window * WindowSize <= now /\ now \in Nat
  BY WindowFacts DEF Typed, WindowStart
<1>2. (Window + 2) * WindowSize = Window * WindowSize + 2 * WindowSize
  BY <1>1, MulAdd
<1> QED BY <1>1, <1>2

LEMMA AdmitIInv ==
  ASSUME IInv, Admit
  PROVE  IInv'
<1> USE WindowAssumption
<1>0. Typed /\ KeyHolds
  BY DEF IInv
<1>1. /\ key' = "present" /\ window_start_ms' = WindowStart /\ curr_count' = Curr + 1
      /\ prev_count' = Prev /\ expire_at' = now + 2 * WindowSize
      /\ now' = now /\ reply'.allowed = 1
      /\ admitted' = [admitted EXCEPT ![Window] = admitted[Window] + 1]
  <2>1. PICK e \in Estimates : reply' = Allow(Remaining(e), ResetAt)
    BY DEF Admit
  <2> QED BY <2>1 DEF Admit, Write, Allow
<1>2. Window' = Window /\ WindowStart' = WindowStart /\ Elapsed' = Elapsed
  BY <1>1 DEF Window, WindowStart, Elapsed
<1>3. /\ Window \in Nat /\ Window \in Windows /\ Window - 1 \in Windows
      /\ WindowStart \in Nat /\ WindowStart <= now /\ now < WindowStart + WindowSize
  BY <1>0, WindowFacts DEF Typed
<1>4. /\ Curr = admitted[Window] /\ Prev = admitted[Window - 1]
      /\ Curr \in Nat /\ Prev \in Nat /\ Curr <= MaxRequests
  BY <1>0, <1>3, CountsTrue DEF CountsAreTrue, Typed
<1> DEFINE p == Prev * (WindowSize - Elapsed)
<1>5. p \in Nat
  <2>1. WindowSize - Elapsed \in Nat
    BY <1>0, <1>3 DEF Elapsed, Typed
  <2> QED BY <1>4, <2>1, MulNat
<1>6. /\ p + Curr * WindowSize <= MaxRequests * WindowSize
      /\ p > 0 \/ p + Curr * WindowSize < MaxRequests * WindowSize
  <2>1. PICK d \in IF Prev > 0 /\ Elapsed > 0 THEN {-1, 0, 1} ELSE {0} :
          2 * Estimate + d < Limit
    BY DEF Admit, Estimates
  <2>2. Estimate = p + Curr * WindowSize /\ Limit = 2 * (MaxRequests * WindowSize)
    BY DEF Estimate, Limit
  <2>3. Curr * WindowSize \in Int /\ MaxRequests * WindowSize \in Int
    BY <1>4, MulInt
  <2>4. Estimate \in Int
    BY <1>5, <2>2, <2>3
  <2>5. CASE Prev > 0 /\ Elapsed > 0
    <3>1. WindowSize - Elapsed \in Int /\ 0 < WindowSize - Elapsed
      BY <1>0, <1>3 DEF Elapsed, Typed
    <3>2. p > 0
      BY <1>4, <2>5, <3>1, MulPos
    <3>3. d \in {-1, 0, 1}
      BY <2>1, <2>5
    <3>4. Estimate <= MaxRequests * WindowSize
      BY <2>1, <2>2, <2>3, <2>4, <3>3, HalfUnits
    <3> QED BY <2>2, <3>2, <3>4
  <2>6. CASE ~ (Prev > 0 /\ Elapsed > 0)
    <3>1. d = 0
      BY <2>1, <2>6
    <3>2. Estimate < MaxRequests * WindowSize
      BY <2>1, <2>2, <2>3, <2>4, <3>1, HalfUnits
    <3> QED BY <2>2, <2>3, <2>4, <3>2
  <2> QED BY <2>5, <2>6
<1> HIDE DEF p
<1>7. Curr < MaxRequests
  <2>1. Curr * WindowSize \in Int /\ MaxRequests * WindowSize \in Int
    BY <1>4, MulInt
  <2>2. Curr * WindowSize < MaxRequests * WindowSize
    BY <1>5, <1>6, <2>1
  <2> QED BY <1>4, <2>2, MulCancel
<1>8. Typed'
  BY <1>0, <1>1, <1>3, <1>4, <1>7 DEF Typed
<1>9. /\ admitted'[Window] = Curr + 1 /\ admitted'[Window - 1] = Prev
      /\ \A w \in Windows : w > Window => admitted'[w] = 0
  BY <1>0, <1>1, <1>3, <1>4, SilentAfter DEF Typed, Silent
<1>10. KeyHolds'
  <2>1. Holds(Window)'
    BY <1>0, <1>1, <1>2, <1>9, WriteDeadline DEF Holds, Silent, WindowStart
  <2>2. \E k \in 0 .. Window' : Holds(k)'
    BY <1>2, <1>3, <2>1
  <2>3. expire_at' \in Nat /\ now' <= expire_at'
    BY <1>0, <1>1, WriteDeadline
  <2> QED BY <1>1, <2>2, <2>3 DEF KeyHolds, Holds
<1>11. WeightedBound'
  <2>1. (Curr + 1) * WindowSize = Curr * WindowSize + WindowSize
    BY <1>4, MulAdd
  <2>2. (MaxRequests + 1) * WindowSize = MaxRequests * WindowSize + WindowSize
    BY MulAdd
  <2>3. Curr * WindowSize \in Int /\ MaxRequests * WindowSize \in Int
    BY <1>4, MulInt
  <2>4. p + (Curr + 1) * WindowSize <= (MaxRequests + 1) * WindowSize
    BY <1>5, <1>6, <2>1, <2>2, <2>3
  <2>5. Curr + 1 <= MaxRequests
    BY <1>4, <1>7
  <2> QED BY <1>2, <1>9, <2>4, <2>5 DEF WeightedBound, p
<1>12. DenialStands'
  BY <1>1 DEF DenialStands
<1> QED BY <1>8, <1>10, <1>11, <1>12 DEF IInv

LEMMA DenyIInv ==
  ASSUME IInv, Deny
  PROVE  IInv'
<1> USE WindowAssumption
<1>0. Typed /\ KeyHolds /\ WeightedBound
  BY DEF IInv
<1>1. /\ key' = "present" /\ window_start_ms' = WindowStart /\ curr_count' = Curr
      /\ prev_count' = Prev /\ expire_at' = now + 2 * WindowSize
      /\ now' = now /\ admitted' = admitted /\ reply'.reset_at_ms = WindowStart + WindowSize
  BY DEF Deny, Write, Block, ResetAt
<1>2. Window' = Window /\ WindowStart' = WindowStart /\ Elapsed' = Elapsed
  BY <1>1 DEF Window, WindowStart, Elapsed
<1>3. Window \in Nat
  BY <1>0, WindowFacts DEF Typed
<1>4. Curr = admitted[Window] /\ Prev = admitted[Window - 1] /\ Silent(Window)
  BY <1>0, CountsTrue, SilentAfter DEF CountsAreTrue
<1>5. Typed' /\ WeightedBound'
  BY <1>0, <1>1, <1>2 DEF Typed, WeightedBound
<1>6. KeyHolds'
  <2>1. Holds(Window)'
    BY <1>0, <1>1, <1>2, <1>4, WriteDeadline DEF Holds, Silent, WindowStart
  <2>2. \E k \in 0 .. Window' : Holds(k)'
    BY <1>2, <1>3, <2>1
  <2>3. expire_at' \in Nat /\ now' <= expire_at'
    BY <1>0, <1>1, WriteDeadline
  <2> QED BY <1>1, <2>2, <2>3 DEF KeyHolds, Holds
<1>7. DenialStands'
  <2>1. WindowStart + WindowSize = (Window + 1) * WindowSize
    BY <1>3, MulAdd DEF WindowStart
  <2>2. Silent(Window)'
    BY <1>1, <1>2, <1>4 DEF Silent
  <2>3. \E d \in 0 .. Window' : reply'.reset_at_ms = (d + 1) * WindowSize /\ Silent(d)'
    BY <1>1, <1>2, <1>3, <2>1, <2>2
  <2> QED BY <2>3 DEF DenialStands, Silent
<1> QED BY <1>5, <1>6, <1>7 DEF IInv

(* A deadline that has come lies in a window two after the one it was set
   for. *)
LEMMA TwoWindowsOn ==
  ASSUME NEW k \in Nat, NEW e \in Nat, NEW n \in Nat, (k + 2) * WindowSize <= e, e <= n
  PROVE  (n \div WindowSize) - 2 \in Int /\ k <= (n \div WindowSize) - 2
<1> USE WindowAssumption
<1> DEFINE v == n \div WindowSize
<1>1. v \in Nat /\ v * WindowSize \in Nat /\ n < v * WindowSize + WindowSize
  BY DivBounds
<1> HIDE DEF v
<1>2. (v + 1) * WindowSize = v * WindowSize + WindowSize
  BY <1>1, MulAdd
<1>3. (k + 2) * WindowSize \in Int
  BY MulInt
<1>4. (k + 2) * WindowSize < (v + 1) * WindowSize
  BY <1>1, <1>2, <1>3
<1>5. k + 2 < v + 1
  BY <1>1, <1>4, MulCancel
<1> QED BY <1>1, <1>5 DEF v

LEMMA SilentLater ==
  ASSUME NEW a \in Int, NEW b \in Int, a <= b, Silent(a)
  PROVE  \A w \in Windows : w > b => admitted[w] = 0
<1>1. Windows \subseteq Int
  BY WindowAssumption, DivBounds DEF Windows
<1> QED BY <1>1 DEF Silent

(* The key goes at its deadline or later, when what it counted is at least two
   windows old. *)
LEMMA RemoveKey ==
  ASSUME Typed, Typed', KeyHolds, key = "present", Remove, admitted' = admitted,
         expire_at <= now'
  PROVE  KeyHolds'
<1> USE WindowAssumption
<1>1. PICK k \in 0 .. Window : Silent(k) /\ (k + 2) * WindowSize <= expire_at
  BY DEF KeyHolds, Holds
<1>2. k \in Nat /\ expire_at \in Nat
  BY <1>1, WindowFacts DEF KeyHolds, Typed
<1>3. now' \in Nat /\ Window' = now' \div WindowSize
  BY DEF Typed, Window
<1>4. Window' - 2 \in Int /\ k <= Window' - 2
  BY <1>1, <1>2, <1>3, TwoWindowsOn
<1>5. \A w \in Windows : w > Window' - 2 => admitted[w] = 0
  BY <1>1, <1>2, <1>4, SilentLater
<1> QED BY <1>5 DEF Remove, KeyHolds, Silent

(* What time does to the weighted bound: the weight of the previous window
   falls, and at a boundary the present window takes its place. *)
LEMMA TickWeighted ==
  ASSUME Typed, KeyHolds, WeightedBound, now' = now + 1, now' \in 0 .. MaxTime,
         admitted' = admitted
  PROVE  WeightedBound' /\ Window' \in Nat /\ Window <= Window'
<1> USE WindowAssumption
<1>0. now \in Nat /\ Window = now \div WindowSize /\ Window' = (now + 1) \div WindowSize
  BY DEF Typed, Window
<1>1. /\ Window \in Nat /\ Window \in Windows /\ Window - 1 \in Windows
      /\ WindowStart \in Nat /\ WindowStart <= now /\ now < WindowStart + WindowSize
      /\ WindowStart = Window * WindowSize
  BY WindowFacts DEF Typed, WindowStart
<1> DEFINE P == admitted[Window - 1]
           C == admitted[Window]
<1>2. P \in Nat /\ C \in Nat /\ C <= MaxRequests
  BY <1>1 DEF Typed
<1>3. P * (WindowSize - Elapsed) + C * WindowSize <= (MaxRequests + 1) * WindowSize
  BY DEF WeightedBound
<1>4. /\ WindowSize - Elapsed \in Nat /\ Elapsed \in Int
      /\ C * WindowSize \in Int /\ (MaxRequests + 1) * WindowSize \in Int
  BY <1>0, <1>1, <1>2, MulInt DEF Elapsed
<1>5. CASE Window' = Window
  <2>1. Elapsed' = Elapsed + 1
    BY <1>0, <1>1, <1>5 DEF Elapsed, WindowStart
  <2>2. P * (WindowSize - Elapsed') <= P * (WindowSize - Elapsed)
    BY <1>2, <1>4, <2>1, MulMonoRight
  <2>3. P * (WindowSize - Elapsed') \in Int /\ P * (WindowSize - Elapsed) \in Int
    BY <1>2, <1>4, <2>1, MulInt
  <2> HIDE DEF P, C
  <2>4. P * (WindowSize - Elapsed') + C * WindowSize <= (MaxRequests + 1) * WindowSize
    BY <1>3, <1>4, <2>2, <2>3
  <2>5. admitted'[Window' - 1] = P /\ admitted'[Window'] = C
    BY <1>5 DEF P, C
  <2> QED BY <1>1, <1>2, <1>5, <2>4, <2>5 DEF WeightedBound
<1>6. CASE Window' = Window + 1 /\ Window' * WindowSize = now + 1
  <2>1. Elapsed' = 0
    BY <1>0, <1>6 DEF Elapsed, WindowStart
  <2>2. admitted'[Window' - 1] = C
    BY <1>1, <1>6
  <2>3. admitted'[Window'] = 0
    <3>1. Window' \in Windows
      <4>1. now' \in Nat /\ now' <= MaxTime /\ Window' = now' \div WindowSize
        BY DEF Window
      <4>2. now' \div WindowSize <= MaxTime \div WindowSize /\ now' \div WindowSize \in Nat
            /\ MaxTime \div WindowSize \in Nat
        BY <4>1, DivMono, DivBounds
      <4> QED BY <4>1, <4>2 DEF Windows
    <3>2. Silent(Window)
      BY SilentAfter
    <3> QED BY <1>1, <1>6, <3>1, <3>2 DEF Silent
  <2>4. P * (WindowSize - Elapsed) \in Nat
    BY <1>2, <1>4, MulNat
  <2> HIDE DEF P, C
  <2>5. C * WindowSize <= (MaxRequests + 1) * WindowSize
    BY <1>3, <1>4, <2>4
  <2>6. C * (WindowSize - Elapsed') = C * WindowSize /\ 0 * WindowSize = 0
    BY <1>2, <2>1
  <2>7. C * (WindowSize - Elapsed') + 0 * WindowSize <= (MaxRequests + 1) * WindowSize
    BY <1>4, <2>5, <2>6
  <2> QED BY <1>1, <1>6, <2>2, <2>3, <2>7 DEF WeightedBound
<1> QED BY <1>0, <1>1, <1>5, <1>6, DivStep

LEMMA TickIInv ==
  ASSUME IInv, Tick
  PROVE  IInv'
<1> USE WindowAssumption
<1>0. Typed /\ KeyHolds /\ WeightedBound /\ DenialStands
  BY DEF IInv
<1>1. now' = now + 1 /\ now' \in 0 .. MaxTime /\ admitted' = admitted /\ reply' = reply
  BY <1>0 DEF Tick, Typed
<1>2. Typed'
  BY <1>0, <1>1 DEF Tick, Typed, Remove, kvars
<1>3. WeightedBound' /\ Window' \in Nat /\ Window <= Window' /\ Window \in Nat
  BY <1>0, <1>1, TickWeighted, WindowFacts DEF Typed
<1>4. DenialStands'
  <2> SUFFICES ASSUME reply.allowed = 0 PROVE DenialStands'
    BY <1>1 DEF DenialStands
  <2>1. PICK d \in 0 .. Window : reply.reset_at_ms = (d + 1) * WindowSize /\ Silent(d)
    BY <1>0 DEF DenialStands
  <2>2. d \in 0 .. Window' /\ Silent(d)'
    BY <1>1, <1>3, <2>1 DEF Silent
  <2> QED BY <1>1, <2>1, <2>2 DEF DenialStands
<1>5. KeyHolds'
  <2>1. CASE key = "present" /\ now + 1 > expire_at
    <3>1. Remove /\ expire_at <= now'
      BY <1>0, <1>1, <2>1 DEF Tick, KeyHolds, Typed
    <3> QED BY <1>0, <1>1, <1>2, <2>1, <3>1, RemoveKey
  <2>2. CASE key = "present" /\ ~ (now + 1 > expire_at)
    <3>1. UNCHANGED <<key, window_start_ms, curr_count, prev_count, expire_at>>
      BY <2>2 DEF Tick, kvars
    <3>2. PICK k \in 0 .. Window : Holds(k)
      BY <1>0, <2>2 DEF KeyHolds
    <3>3. k \in 0 .. Window' /\ Holds(k)'
      BY <1>1, <1>3, <3>1, <3>2 DEF Holds, Silent
    <3>4. expire_at \in Nat /\ now' <= expire_at
      BY <1>0, <1>1, <2>2 DEF KeyHolds, Typed
    <3> QED BY <2>2, <3>1, <3>3, <3>4 DEF KeyHolds
  <2>3. CASE key = "absent"
    <3>1. key' = "absent"
      BY <2>3 DEF Tick, kvars
    <3>2. Silent(Window - 2)
      BY <1>0, <2>3 DEF KeyHolds
    <3>3. ASSUME NEW v \in Nat, NEW w \in Nat, v <= w
          PROVE  v - 2 \in Int /\ w - 2 \in Int /\ v - 2 <= w - 2
      BY <3>3
    <3>4. \A w \in Windows : w > Window' - 2 => admitted'[w] = 0
      BY <1>1, <1>3, <3>2, <3>3, SilentLater
    <3> QED BY <3>1, <3>4 DEF KeyHolds, Silent
  <2> QED BY <1>0, <2>1, <2>2, <2>3 DEF Typed
<1> QED BY <1>2, <1>3, <1>4, <1>5 DEF IInv

LEMMA IInvStep == IInv /\ [Next]_vars => IInv'
<1> SUFFICES ASSUME IInv, [Next]_vars PROVE IInv'
  OBVIOUS
<1>1. CASE Tick
  BY <1>1, TickIInv
<1>2. CASE Expire
  <2>0. Typed /\ KeyHolds
    BY DEF IInv
  <2>1. /\ key = "present" /\ Remove /\ now' = now /\ admitted' = admitted
        /\ reply' = reply /\ now = expire_at
    BY <1>2 DEF Expire
  <2>2. Window' = Window /\ Elapsed' = Elapsed
    BY <2>1 DEF Window, Elapsed, WindowStart
  <2>3. Typed'
    BY <2>0, <2>1 DEF Typed, Remove
  <2>4. KeyHolds'
    <3>1. expire_at <= now'
      BY <2>0, <2>1, WindowAssumption DEF Typed
    <3> QED BY <2>0, <2>1, <2>3, <3>1, RemoveKey
  <2>5. WeightedBound' /\ DenialStands'
    BY <2>1, <2>2 DEF IInv, WeightedBound, DenialStands, Silent
  <2> QED BY <2>3, <2>4, <2>5 DEF IInv
<1>3. CASE Admit
  BY <1>3, AdmitIInv
<1>4. CASE Deny
  BY <1>4, DenyIInv
<1>5. CASE UNCHANGED vars
  <2>1. /\ UNCHANGED <<now, key, window_start_ms, curr_count, prev_count, expire_at>>
        /\ UNCHANGED <<reply, admitted>>
    BY <1>5 DEF vars
  <2>2. Window' = Window /\ Elapsed' = Elapsed
    BY <2>1 DEF Window, Elapsed, WindowStart
  <2> QED BY <2>1, <2>2 DEF IInv, Typed, KeyHolds, Holds, Silent, WeightedBound, DenialStands
<1> QED BY <1>1, <1>2, <1>3, <1>4, <1>5 DEF Next

LEMMA CounterInvariant == Spec => []IInv
  BY InitIInv, IInvStep, PTL DEF Spec

-----------------------------------------------------------------------------

(* sliding_window_counter.lua:17-30 and :40-41: at any moment the counts a
   check works with are the true numbers of admissions of this window and the
   one before, however long the key was idle and whether or not it expired. *)
THEOREM CounterCounts == Spec => []CountsAreTrue
<1>1. IInv => CountsAreTrue
  BY CountsTrue DEF IInv
<1> QED BY <1>1, CounterInvariant, PTL

(* The limit sliding_window_counter.lua enforces: no aligned window has more
   than max_requests admissions, and the weighted number of true admissions
   never exceeds max_requests by more than one, however doubles round. *)
THEOREM CounterWeighted == Spec => []WeightedBound
<1>1. IInv => WeightedBound
  BY DEF IInv
<1> QED BY <1>1, CounterInvariant, PTL

(* Whoever sliding_window_counter.lua denied is admitted from the millisecond
   after reset_at_ms, however doubles round, unless others come first. *)
THEOREM CounterRetry == Spec => []RetryAfterReset
<1>1. ASSUME IInv PROVE RetryAfterReset
  <2> SUFFICES ASSUME reply.allowed = 0, now > reply.reset_at_ms
               PROVE  \A e \in Estimates : e < Limit
    BY DEF RetryAfterReset
  <2> USE WindowAssumption
  <2>0. Typed /\ KeyHolds
    BY <1>1 DEF IInv
  <2>1. PICK d \in 0 .. Window : reply.reset_at_ms = (d + 1) * WindowSize /\ Silent(d)
    BY <1>1 DEF IInv, DenialStands
  <2>2. /\ Window \in Nat /\ Window \in Windows /\ Window - 1 \in Windows /\ now \in Nat
        /\ WindowStart \in Nat /\ WindowStart <= now /\ now < WindowStart + WindowSize
        /\ WindowStart = Window * WindowSize
    BY <2>0, WindowFacts DEF Typed, WindowStart
  <2>3. /\ (Window + 1) * WindowSize = Window * WindowSize + WindowSize
        /\ (d + 1) * WindowSize \in Int /\ d \in Nat
    BY <2>1, <2>2, MulAdd, MulInt
  <2>4. (d + 1) * WindowSize < (Window + 1) * WindowSize
    BY <2>1, <2>2, <2>3
  <2>5. d + 1 < Window + 1
    BY <2>2, <2>3, <2>4, MulCancel
  <2>6. admitted[Window] = 0
    BY <2>1, <2>2, <2>3, <2>5 DEF Silent
  <2>7. admitted[Window - 1] * (WindowSize - Elapsed) < MaxRequests * WindowSize
    <3>1. 0 < MaxRequests * WindowSize /\ MaxRequests * WindowSize \in Int
      BY MulMonoStrict, MulInt
    <3>2. CASE d < Window - 1
      <4>1. admitted[Window - 1] = 0 /\ WindowSize - Elapsed \in Int
        BY <2>1, <2>2, <2>3, <3>2 DEF Silent, Elapsed
      <4>2. 0 * (WindowSize - Elapsed) = 0
        BY <4>1
      <4> QED BY <3>1, <4>1, <4>2
    <3>3. CASE d = Window - 1
      <4>1. now > WindowStart
        BY <2>1, <2>2, <3>3
      <4>2. WindowSize - Elapsed \in Nat /\ WindowSize - Elapsed < WindowSize
        BY <2>2, <4>1 DEF Elapsed
      <4>3. admitted[Window - 1] \in Nat /\ admitted[Window - 1] <= MaxRequests
        BY <2>0, <2>2 DEF Typed
      <4> DEFINE a == admitted[Window - 1]
                 v == WindowSize - Elapsed
      <4>4. a * v <= MaxRequests * v
        BY <4>2, <4>3, MulMono
      <4>5. v * MaxRequests < WindowSize * MaxRequests
        BY <4>2, MulMonoStrict
      <4>6. v * MaxRequests = MaxRequests * v /\ WindowSize * MaxRequests = MaxRequests * WindowSize
        BY <4>2
      <4>7. a * v \in Int /\ MaxRequests * v \in Int
        BY <4>2, <4>3, MulInt
      <4> HIDE DEF a, v
      <4>8. a * v < MaxRequests * WindowSize
        BY <3>1, <4>4, <4>5, <4>6, <4>7
      <4> QED BY <4>8 DEF a, v
    <3> QED BY <2>2, <2>3, <2>5, <3>2, <3>3
  <2>8. admitted[Window - 1] * (WindowSize - Elapsed) \in Int /\ 0 * WindowSize = 0
    <3>1. admitted[Window - 1] \in Int /\ WindowSize - Elapsed \in Int
      BY <2>0, <2>2 DEF Typed, Elapsed
    <3> QED BY <3>1, MulInt
  <2>9. Estimate = admitted[Window - 1] * (WindowSize - Elapsed) + 0 * WindowSize
    BY <2>0, <2>6, EstimateTrue
  <2>10. Estimate \in Int /\ MaxRequests * WindowSize \in Int /\ Estimate < MaxRequests * WindowSize
    BY <2>7, <2>8, <2>9, MulInt
  <2>11. ASSUME NEW e \in Estimates PROVE e < Limit
    <3>1. PICK u \in {-1, 0, 1} : e = 2 * Estimate + u
      BY DEF Estimates
    <3> QED BY <2>10, <3>1, HalfUnits DEF Limit
  <2> QED BY <2>11
<1> QED BY <1>1, CounterInvariant, PTL

=============================================================================
