----------------------- MODULE SlidingWindowLogProofs -----------------------
(***************************************************************************)
(* sliding_window_log.lua implements the ideal sliding window, for every   *)
(* window size and limit: what it trims, and what it loses when the key    *)
(* expires, is older than the window of any check still to come.           *)
(***************************************************************************)
EXTENDS SlidingWindowLog, FiniteSetTheorems, WellFoundedInduction, TLAPS

(* No admission lies in the future. *)
PastOnly ==
  /\ now \in Nat
  /\ next_id \in Nat
  /\ admitted \subseteq [score : 0 .. now, id : Nat]

(* The deadline of a key lies one window after its youngest entry, or later,
   and has not passed. *)
DeadlineCoversLog ==
  zset # {} =>
    /\ expire_at \in Nat
    /\ now <= expire_at
    /\ \A e \in zset : e.score + WindowSize <= expire_at

(* The inductive invariant. *)
IInv == PastOnly /\ LogIsComplete /\ DeadlineCoversLog

LEMMA OneMore ==
  ASSUME NEW S, IsFiniteSet(S), NEW e
  PROVE  /\ IsFiniteSet(S \cup {e}) /\ Cardinality(S \cup {e}) \in Nat
         /\ Cardinality(S \cup {e}) <= Cardinality(S) + 1
<1>1. IsFiniteSet(S \cup {e}) /\ Cardinality(S) \in Nat
      /\ (e \in S => Cardinality(S \cup {e}) = Cardinality(S))
      /\ (e \notin S => Cardinality(S \cup {e}) = Cardinality(S) + 1)
  BY FS_AddElement, FS_CardinalityType
<1> QED BY <1>1

LEMMA InitIInv == Init => IInv
  BY WindowAssumption
  DEF Init, IInv, PastOnly, LogIsComplete, DeadlineCoversLog

(* Trimming leaves exactly the admissions of the window that ends now. *)
LEMMA KeptIsWindow == IInv => Kept = Ideal!InWindow(now)
<1> SUFFICES ASSUME IInv PROVE Kept = Ideal!InWindow(now)
  OBVIOUS
<1> USE WindowAssumption DEF IInv, PastOnly, LogIsComplete
<1>1. ASSUME NEW e \in Kept PROVE e \in Ideal!InWindow(now)
  BY <1>1 DEF Kept, Ideal!InWindow
<1>2. ASSUME NEW a \in Ideal!InWindow(now) PROVE a \in Kept
  BY <1>2 DEF Kept, Ideal!InWindow
<1> QED BY <1>1, <1>2

(* When Redis drops the key, nothing in it belongs to a window to come. *)
LEMMA DroppedIsOld ==
  ASSUME IInv, NEW t \in Nat, t >= expire_at, zset # {}
  PROVE  \A a \in admitted : ~ (a.score > t - WindowSize)
<1> SUFFICES ASSUME NEW a \in admitted, a.score > t - WindowSize PROVE FALSE
  OBVIOUS
<1> USE WindowAssumption DEF IInv, PastOnly
<1>1. a.score \in Nat /\ now \in Nat /\ expire_at \in Nat /\ now <= t
  BY DEF DeadlineCoversLog
<1>2. a.score > now - WindowSize
  BY <1>1
<1>3. a \in zset
  BY <1>2 DEF LogIsComplete
<1>4. a.score + WindowSize <= expire_at
  BY <1>3 DEF DeadlineCoversLog
<1> QED BY <1>1, <1>4

LEMMA CheckIInv == IInv /\ (Admit \/ Deny) => IInv'
<1> SUFFICES ASSUME IInv, Admit \/ Deny PROVE IInv'
  OBVIOUS
<1> DEFINE new == [score |-> now, id |-> next_id]
<1> USE WindowAssumption
<1>0. PastOnly /\ LogIsComplete
  BY DEF IInv
<1>1. PastOnly'
  BY <1>0 DEF Admit, NewEntry, Deny, PastOnly
<1>2. LogIsComplete'
  <2>1. CASE Admit
    <3>1. zset' = Kept \cup {new} /\ admitted' = admitted \cup {new} /\ now' = now
      BY <2>1 DEF Admit, NewEntry
    <3>2. Kept \subseteq admitted
      BY <1>0 DEF Kept, LogIsComplete
    <3>3. \A a \in admitted : a.score > now - WindowSize => a \in Kept
      BY <1>0 DEF Kept, LogIsComplete
    <3> QED BY <3>1, <3>2, <3>3 DEF LogIsComplete
  <2>2. CASE Deny
    <3>1. zset' = Kept /\ admitted' = admitted /\ now' = now
      BY <2>2 DEF Deny
    <3> QED BY <1>0, <3>1 DEF Kept, LogIsComplete
  <2> QED BY <2>1, <2>2
<1>3. DeadlineCoversLog'
  <2>1. now' = now /\ expire_at' = now + WindowSize /\ now \in Nat
    BY <1>0 DEF Admit, Deny, PastOnly
  <2>2. \A e \in zset' : e.score \in Nat /\ e.score <= now
    BY <1>0 DEF Admit, NewEntry, Deny, Kept, LogIsComplete, PastOnly
  <2> QED BY <2>1, <2>2 DEF DeadlineCoversLog
<1> QED BY <1>1, <1>2, <1>3 DEF IInv

LEMMA IInvStep == IInv /\ [Next]_vars => IInv'
<1> SUFFICES ASSUME IInv, [Next]_vars PROVE IInv'
  OBVIOUS
<1> USE WindowAssumption
<1>1. CASE Tick
  <2>1. PastOnly'
    BY <1>1 DEF Tick, IInv, PastOnly
  <2>2. CASE zset # {} /\ now + 1 > expire_at
    <3>1. now + 1 \in Nat /\ now + 1 >= expire_at /\ now' = now + 1
      BY <1>1, <2>2 DEF Tick, IInv, PastOnly, DeadlineCoversLog
    <3>2. \A a \in admitted : ~ (a.score > (now + 1) - WindowSize)
      BY <2>2, <3>1, DroppedIsOld
    <3> QED BY <1>1, <2>1, <2>2, <3>1, <3>2 DEF Tick, IInv, LogIsComplete, DeadlineCoversLog
  <2>3. CASE ~ (zset # {} /\ now + 1 > expire_at)
    <3>1. zset' = zset /\ expire_at' = expire_at /\ admitted' = admitted /\ now' = now + 1
      BY <1>1, <2>3 DEF Tick
    <3>2. LogIsComplete'
      BY <3>1 DEF IInv, PastOnly, LogIsComplete
    <3>3. DeadlineCoversLog'
      BY <2>3, <3>1 DEF IInv, PastOnly, DeadlineCoversLog
    <3> QED BY <2>1, <3>2, <3>3 DEF IInv
  <2> QED BY <2>2, <2>3
<1>2. CASE Expire
  <2>1. now \in Nat /\ now >= expire_at /\ zset # {}
    BY <1>2 DEF Expire, IInv, PastOnly
  <2>2. \A a \in admitted : ~ (a.score > now - WindowSize)
    BY <2>1, DroppedIsOld
  <2> QED BY <1>2, <2>2 DEF Expire, IInv, PastOnly, LogIsComplete, DeadlineCoversLog
<1>3. CASE Admit \/ Deny
  BY <1>3, CheckIInv
<1>4. CASE UNCHANGED vars
  BY <1>4 DEF vars, IInv, PastOnly, LogIsComplete, DeadlineCoversLog
<1> QED BY <1>1, <1>2, <1>3, <1>4 DEF Next

LEMMA LogInvariant == Spec => []IInv
  BY InitIInv, IInvStep, PTL DEF Spec

(* The sorted set always holds exactly the admissions that still count, and
   possibly older ones: trimming and expiry lose nothing that matters. *)
THEOREM LogCompleteness == Spec => []LogIsComplete
<1>1. IInv => LogIsComplete
  BY DEF IInv
<1> QED BY <1>1, LogInvariant, PTL

(* The cardinality of an instance is the cardinality. *)
LEMMA SameCardinality ==
  ASSUME NEW S
  PROVE  Ideal!Cardinality(S) = Cardinality(S)
  BY Zenon DEF Cardinality, Ideal!Cardinality

LEMMA InitRefines == Init => Ideal!Init
  BY DEF Init, Ideal!Init, NoReply

LEMMA StepRefines == IInv /\ [Next]_vars => [Ideal!Next]_(Ideal!vars)
<1> SUFFICES ASSUME IInv, [Next]_vars PROVE [Ideal!Next]_(Ideal!vars)
  OBVIOUS
<1>0. Kept = Ideal!InWindow(now)
  BY KeptIsWindow
<1>1. CASE Tick
  <2>1. Ideal!Tick
    BY <1>1 DEF Tick, Ideal!Tick
  <2> QED BY <2>1 DEF Ideal!Next
<1>2. CASE Expire
  BY <1>2 DEF Expire, Ideal!vars
<1>3. CASE Admit
  <2>1. Ideal!Admit
    BY <1>0, <1>3, SameCardinality DEF Admit, NewEntry, Ideal!Admit, Allow
  <2> QED BY <2>1 DEF Ideal!Next
<1>4. CASE Deny
  <2>1. Ideal!Deny
    BY <1>0, <1>4, SameCardinality DEF Deny, Ideal!Deny, Block
  <2> QED BY <2>1 DEF Ideal!Next
<1>5. CASE UNCHANGED vars
  BY <1>5 DEF vars, Ideal!vars
<1> QED BY <1>1, <1>2, <1>3, <1>4, <1>5 DEF Next

(* Every answer of sliding_window_log.lua is the one a log of all admissions
   would have given. *)
THEOREM LogImplementsSlidingWindow == Spec => ImplementsSlidingWindow
  BY LogInvariant, InitRefines, StepRefines, PTL
  DEF Spec, ImplementsSlidingWindow, Ideal!Spec

-----------------------------------------------------------------------------

(* Admissions are finitely many and none lies in the future. *)
IdealPast ==
  /\ now \in Nat
  /\ next_id \in Nat
  /\ admitted \subseteq [score : 0 .. now, id : Nat]
  /\ IsFiniteSet(admitted)

(* Ideal!WindowBound, with the Cardinality of this module. *)
IdealBound ==
  \A t \in 0 .. now : Cardinality(Ideal!InWindow(t)) <= MaxRequests

(* The inductive invariant of the ideal sliding window. *)
IdealInv == IdealPast /\ IdealBound

LEMMA WindowFinite ==
  ASSUME IdealPast, NEW t \in Int
  PROVE  IsFiniteSet(Ideal!InWindow(t)) /\ Cardinality(Ideal!InWindow(t)) \in Nat
<1>1. IsFiniteSet(Ideal!InWindow(t))
  BY FS_Subset DEF IdealPast, Ideal!InWindow
<1> QED BY <1>1, FS_CardinalityType

LEMMA IdealInit == Ideal!Init => IdealInv
<1> SUFFICES ASSUME Ideal!Init PROVE IdealInv
  OBVIOUS
<1>1. IdealPast
  BY FS_EmptySet DEF Ideal!Init, IdealPast
<1>2. ASSUME NEW t \in 0 .. now PROVE Cardinality(Ideal!InWindow(t)) <= MaxRequests
  <2>1. Ideal!InWindow(t) = {}
    BY DEF Ideal!Init, Ideal!InWindow
  <2> QED BY <2>1, FS_EmptySet, WindowAssumption
<1> QED BY <1>1, <1>2 DEF IdealInv, IdealBound

LEMMA IdealTick == IdealInv /\ Ideal!Tick => IdealInv'
<1> SUFFICES ASSUME IdealInv, Ideal!Tick PROVE IdealInv'
  OBVIOUS
<1> USE WindowAssumption
<1>1. IdealPast /\ IdealPast'
  BY DEF IdealInv, IdealPast, Ideal!Tick
<1>2. ASSUME NEW t \in 0 .. now' PROVE Cardinality(Ideal!InWindow(t)') <= MaxRequests
  <2>1. Ideal!InWindow(t)' = Ideal!InWindow(t)
    BY DEF Ideal!Tick, Ideal!InWindow
  <2>2. CASE t \in 0 .. now
    BY <2>1, <2>2 DEF IdealInv, IdealBound
  <2>3. CASE t = now + 1
    <3>1. Ideal!InWindow(t) \subseteq Ideal!InWindow(now)
      BY <1>1, <2>3 DEF Ideal!InWindow, IdealPast
    <3>2. IsFiniteSet(Ideal!InWindow(now)) /\ Cardinality(Ideal!InWindow(now)) \in Nat
      BY <1>1, WindowFinite DEF IdealPast
    <3>3. Cardinality(Ideal!InWindow(t)) \in Nat
      BY <1>1, WindowFinite DEF IdealPast
    <3>4. Cardinality(Ideal!InWindow(t)) <= Cardinality(Ideal!InWindow(now))
      BY <3>1, <3>2, FS_Subset
    <3>5. Cardinality(Ideal!InWindow(now)) <= MaxRequests
      BY <1>1 DEF IdealInv, IdealBound, IdealPast
    <3> QED BY <2>1, <3>2, <3>3, <3>4, <3>5
  <2> QED BY <1>1, <2>2, <2>3 DEF Ideal!Tick, IdealPast
<1> QED BY <1>1, <1>2 DEF IdealInv, IdealBound, Ideal!InWindow

LEMMA IdealAdmit == IdealInv /\ Ideal!Admit => IdealInv'
<1> SUFFICES ASSUME IdealInv, Ideal!Admit PROVE IdealInv'
  OBVIOUS
<1> DEFINE new == [score |-> now, id |-> next_id]
<1> USE WindowAssumption
<1>1. IdealPast
  BY DEF IdealInv
<1>2. IdealPast'
  <2>1. IsFiniteSet(admitted \cup {new})
    BY <1>1, FS_AddElement DEF IdealPast
  <2> QED BY <1>1, <2>1 DEF Ideal!Admit, IdealPast
<1>3. ASSUME NEW t \in 0 .. now' PROVE Cardinality(Ideal!InWindow(t)') <= MaxRequests
  <2>0. now' = now /\ now \in Nat /\ t \in Int
    BY <1>1 DEF Ideal!Admit, IdealPast
  <2>1. CASE t < now
    <3>1. Ideal!InWindow(t)' = Ideal!InWindow(t)
      BY <2>0, <2>1 DEF Ideal!Admit, Ideal!InWindow
    <3> QED BY <2>0, <2>1, <3>1 DEF IdealInv, IdealBound
  <2>2. CASE t = now
    <3>1. Ideal!InWindow(t)' = Ideal!InWindow(now) \cup {new}
      BY <2>0, <2>2 DEF Ideal!Admit, Ideal!InWindow
    <3>2. IsFiniteSet(Ideal!InWindow(now)) /\ Cardinality(Ideal!InWindow(now)) \in Nat
      BY <1>1, <2>0, WindowFinite
    <3>3. /\ Cardinality(Ideal!InWindow(now) \cup {new}) \in Nat
          /\ Cardinality(Ideal!InWindow(now) \cup {new}) <= Cardinality(Ideal!InWindow(now)) + 1
      BY <3>2, OneMore
    <3>5. Cardinality(Ideal!InWindow(now)) < MaxRequests
      BY SameCardinality DEF Ideal!Admit
    <3> QED BY <3>1, <3>2, <3>3, <3>5
  <2> QED BY <2>0, <2>1, <2>2
<1> QED BY <1>2, <1>3 DEF IdealInv, IdealBound, Ideal!InWindow

LEMMA IdealStep == IdealInv /\ [Ideal!Next]_(Ideal!vars) => IdealInv'
<1> SUFFICES ASSUME IdealInv, [Ideal!Next]_(Ideal!vars) PROVE IdealInv'
  OBVIOUS
<1>1. CASE Ideal!Tick
  BY <1>1, IdealTick
<1>2. CASE Ideal!Admit
  BY <1>2, IdealAdmit
<1>3. CASE Ideal!Deny
  BY <1>3 DEF Ideal!Deny, IdealInv, IdealPast, IdealBound, Ideal!InWindow
<1>4. CASE UNCHANGED Ideal!vars
  BY <1>4 DEF Ideal!vars, IdealInv, IdealPast, IdealBound, Ideal!InWindow
<1> QED BY <1>1, <1>2, <1>3, <1>4 DEF Ideal!Next

(* No window of window_size_ms milliseconds, wherever it ends, contains more
   than max_requests admissions of the ideal sliding window. *)
THEOREM SlidingWindowBound == Ideal!Spec => []Ideal!WindowBound
<1>1. IdealInv => Ideal!WindowBound
  BY SameCardinality DEF IdealInv, IdealBound, Ideal!WindowBound
<1>2. Ideal!Spec => []IdealInv
  BY IdealInit, IdealStep, PTL DEF Ideal!Spec
<1> QED BY <1>1, <1>2, PTL

(* The rate limit of sliding_window_log.lua: no window of window_size_ms
   milliseconds, wherever it ends, contains more than max_requests admitted
   checks, trimming and expiry of the key included. *)
THEOREM LogWindowBound == Spec => []WindowBound
  BY LogImplementsSlidingWindow, SlidingWindowBound, PTL DEF ImplementsSlidingWindow, WindowBound

-----------------------------------------------------------------------------

(* LogIsBounded and RetryAfterExact.  What a denied caller was told is the
   moment the oldest entry of a full log leaves it; the log stays as it was
   until the next admission, the next denial or the expiry of the key, and
   that does not come before the moment told. *)

DenialStands ==
  reply.allowed = 0 =>
    /\ reply.reset_at_ms \in Nat
    /\ \/ zset = {} /\ now >= reply.reset_at_ms
       \/ /\ Cardinality(zset) = MaxRequests
          /\ \E o \in zset : /\ reply.reset_at_ms = WindowSize + o.score
                             /\ \A e \in zset : o.score <= e.score

(* The inductive invariant of the replies. *)
RInv == IInv /\ IsFiniteSet(zset) /\ LogIsBounded /\ DenialStands

LEMMA LeastExists ==
  ASSUME NEW S \in SUBSET Nat, S # {}
  PROVE  \E i \in S : \A j \in S : i <= j
<1>1. PICK i \in S : \A j \in S : ~(<<j, i>> \in OpToRel(<, Nat))
  BY WFMin, NatLessThanWellFounded, Zenon
<1>2. ASSUME NEW j \in S
      PROVE  i <= j
  <2>1. <<j, i>> \notin {ss \in Nat \X Nat : ss[1] < ss[2]}
    BY <1>1, <1>2, Zenon DEF OpToRel
  <2>2. <<j, i>> \in Nat \X Nat /\ <<j, i>>[1] = j /\ <<j, i>>[2] = i
    BY <1>2
  <2>3. ~(j < i)
    BY <2>1, <2>2
  <2> QED BY <2>3
<1> QED BY <1>2

(* The reset time of a log that is not empty is one window after its oldest
   entry. *)
LEMMA OldestOf ==
  ASSUME NEW z, z # {}, \A e \in z : e.score \in Nat
  PROVE  \E o \in z : OldestResetAt(z) = WindowSize + o.score /\ \A e \in z : o.score <= e.score
<1> DEFINE scores == {e.score : e \in z}
           Least(s) == \A e \in z : s <= e.score
<1>1. scores \in SUBSET Nat /\ scores # {}
  OBVIOUS
<1>2. \E s \in scores : Least(s)
  <2>1. PICK s \in scores : \A r \in scores : s <= r
    BY <1>1, LeastExists, Zenon
  <2>2. \A e \in z : e.score \in scores
    OBVIOUS
  <2> QED BY <2>1, <2>2
<1>3. (CHOOSE s \in scores : Least(s)) \in scores /\ Least(CHOOSE s \in scores : Least(s))
  BY <1>2, Zenon
<1>4. OldestResetAt(z) = WindowSize + (CHOOSE s \in scores : Least(s))
  BY DEF OldestResetAt
<1>5. PICK o \in z : o.score = CHOOSE s \in scores : Least(s)
  BY <1>3
<1>6. OldestResetAt(z) = WindowSize + o.score /\ Least(o.score)
  BY <1>3, <1>4, <1>5
<1> QED BY <1>6

(* The log of the next moments: full until its oldest entry leaves. *)
LEMMA DenialIsExact == RInv => RetryAfterExact
<1> SUFFICES ASSUME RInv, reply.allowed = 0
             PROVE  Cardinality(Kept) < MaxRequests <=> now >= reply.reset_at_ms
  BY DEF RetryAfterExact
<1> USE WindowAssumption
<1>0. /\ now \in Nat /\ IsFiniteSet(zset) /\ Cardinality(zset) \in Nat
      /\ \A e \in zset : e.score \in Nat
  BY FS_CardinalityType DEF RInv, IInv, PastOnly, LogIsComplete
<1>1. CASE zset = {} /\ now >= reply.reset_at_ms
  <2>1. Kept = {}
    BY <1>1 DEF Kept
  <2> QED BY <1>1, <2>1, FS_EmptySet
<1>2. ASSUME Cardinality(zset) = MaxRequests, NEW o \in zset,
             reply.reset_at_ms = WindowSize + o.score, \A e \in zset : o.score <= e.score
      PROVE  Cardinality(Kept) < MaxRequests <=> now >= reply.reset_at_ms
  <2>1. CASE now >= reply.reset_at_ms
    <3>1. o \notin Kept /\ Kept \subseteq zset
      BY <1>0, <1>2, <2>1 DEF Kept
    <3>2. Cardinality(Kept) \in Nat /\ Cardinality(Kept) <= Cardinality(zset)
          /\ Cardinality(Kept) # Cardinality(zset)
      BY <1>0, <1>2, <3>1, FS_Subset, FS_CardinalityType
    <3> QED BY <1>2, <2>1, <3>2
  <2>2. CASE ~ (now >= reply.reset_at_ms)
    <3>1. \A e \in zset : e.score > now - WindowSize
      BY <1>0, <1>2, <2>2
    <3>2. Kept = zset
      BY <3>1 DEF Kept
    <3> QED BY <1>2, <2>2, <3>2
  <2> QED BY <2>1, <2>2
<1>3. DenialStands
  BY DEF RInv
<1> QED BY <1>1, <1>2, <1>3 DEF DenialStands

LEMMA InitRInv == Init => RInv
  BY InitIInv, FS_EmptySet, WindowAssumption DEF Init, RInv, LogIsBounded, DenialStands, NoReply

LEMMA AdmitRInv ==
  ASSUME RInv, Admit
  PROVE  IsFiniteSet(zset)' /\ LogIsBounded' /\ DenialStands'
<1> USE WindowAssumption
<1>1. IsFiniteSet(Kept) /\ Cardinality(Kept) \in Nat /\ Cardinality(Kept) < MaxRequests
  BY FS_Subset, FS_CardinalityType DEF RInv, Kept, Admit
<1>2. zset' = Kept \cup {NewEntry} /\ reply'.allowed = 1
  BY DEF Admit, Allow
<1>3. /\ IsFiniteSet(Kept \cup {NewEntry}) /\ Cardinality(Kept \cup {NewEntry}) \in Nat
      /\ Cardinality(Kept \cup {NewEntry}) <= Cardinality(Kept) + 1
  BY <1>1, OneMore
<1> QED BY <1>1, <1>2, <1>3 DEF LogIsBounded, DenialStands

LEMMA DenyRInv ==
  ASSUME RInv, Deny
  PROVE  IsFiniteSet(zset)' /\ LogIsBounded' /\ DenialStands'
<1> USE WindowAssumption
<1>1. /\ zset' = Kept /\ now' = now /\ reply'.reset_at_ms = OldestResetAt(Kept)
      /\ Cardinality(Kept) >= MaxRequests
  BY DEF Deny, Block
<1>2. /\ IsFiniteSet(Kept) /\ Cardinality(Kept) \in Nat
      /\ Cardinality(zset) \in Nat /\ Cardinality(Kept) <= Cardinality(zset)
  BY FS_Subset, FS_CardinalityType DEF RInv, Kept
<1>3. Cardinality(Kept) = MaxRequests
  BY <1>1, <1>2 DEF RInv, LogIsBounded
<1>4. Kept # {} /\ \A e \in Kept : e.score \in Nat
  BY <1>3, FS_EmptySet DEF RInv, IInv, PastOnly, LogIsComplete, Kept
<1>5. \E o \in Kept : /\ OldestResetAt(Kept) = WindowSize + o.score
                     /\ \A e \in Kept : o.score <= e.score
  BY <1>4, OldestOf
<1>6. OldestResetAt(Kept) \in Nat
  BY <1>4, <1>5
<1>7. DenialStands'
  BY <1>1, <1>3, <1>5, <1>6 DEF DenialStands
<1> QED BY <1>1, <1>2, <1>3, <1>7 DEF LogIsBounded

(* The key goes at its deadline or later, when nothing is left to wait for. *)
LEMMA DropRInv ==
  ASSUME RInv, zset # {}, zset' = {}, reply' = reply, now' \in Nat, now' >= expire_at
  PROVE  IsFiniteSet(zset)' /\ LogIsBounded' /\ DenialStands'
<1> USE WindowAssumption
<1>1. ASSUME reply.allowed = 0 PROVE now' >= reply.reset_at_ms
  <2>1. PICK o \in zset : reply.reset_at_ms = WindowSize + o.score
    BY <1>1 DEF RInv, DenialStands
  <2>2. o.score \in Nat /\ expire_at \in Nat /\ o.score + WindowSize <= expire_at
    BY DEF RInv, IInv, PastOnly, LogIsComplete, DeadlineCoversLog
  <2> QED BY <2>1, <2>2
<1> QED BY <1>1, FS_EmptySet DEF RInv, LogIsBounded, DenialStands

LEMMA RInvStep == RInv /\ [Next]_vars => RInv'
<1> SUFFICES ASSUME RInv, [Next]_vars PROVE RInv'
  OBVIOUS
<1> USE WindowAssumption
<1>0. IInv /\ IInv'
  BY IInvStep DEF RInv
<1> SUFFICES IsFiniteSet(zset)' /\ LogIsBounded' /\ DenialStands'
  BY <1>0 DEF RInv
<1>1. CASE Tick
  <2>0. now \in Nat /\ now' = now + 1 /\ reply' = reply
    BY <1>0, <1>1 DEF Tick, IInv, PastOnly
  <2>1. CASE zset # {} /\ now + 1 > expire_at
    <3>1. zset' = {} /\ expire_at \in Nat
      BY <1>0, <1>1, <2>1 DEF Tick, IInv, DeadlineCoversLog
    <3>2. now' \in Nat /\ now' >= expire_at
      BY <2>0, <2>1, <3>1
    <3> QED BY <2>0, <2>1, <3>1, <3>2, DropRInv
  <2>2. CASE ~ (zset # {} /\ now + 1 > expire_at)
    <3>1. zset' = zset
      BY <1>1, <2>2 DEF Tick
    <3>2. ASSUME reply.allowed = 0, zset = {}, now >= reply.reset_at_ms
          PROVE  now' >= reply.reset_at_ms
      BY <2>0, <3>2 DEF RInv, DenialStands
    <3> QED BY <2>0, <3>1, <3>2 DEF RInv, LogIsBounded, DenialStands
  <2> QED BY <2>1, <2>2
<1>2. CASE Expire
  <2>1. zset # {} /\ zset' = {} /\ reply' = reply /\ now' = now /\ now = expire_at /\ now \in Nat
    BY <1>0, <1>2 DEF Expire, IInv, PastOnly
  <2>2. now' \in Nat /\ now' >= expire_at
    BY <2>1
  <2> QED BY <2>1, <2>2, DropRInv
<1>3. CASE Admit
  BY <1>3, AdmitRInv
<1>4. CASE Deny
  BY <1>4, DenyRInv
<1>5. CASE UNCHANGED vars
  BY <1>5 DEF vars, RInv, LogIsBounded, DenialStands
<1> QED BY <1>1, <1>2, <1>3, <1>4, <1>5 DEF Next

LEMMA RepliesInvariant == Spec => []RInv
  BY InitRInv, RInvStep, PTL DEF Spec

(* The growth bound of sliding_window_log.lua:19-20: no key ever holds more
   than max_requests members. *)
THEOREM LogBounded == Spec => []LogIsBounded
<1>1. RInv => LogIsBounded
  BY DEF RInv
<1> QED BY <1>1, RepliesInvariant, PTL

(* retry_after_ms of sliding_window_log.lua names the exact millisecond from
   which a denied caller is admitted, unless others come first. *)
THEOREM LogRetryExact == Spec => []RetryAfterExact
  BY DenialIsExact, RepliesInvariant, PTL

=============================================================================
