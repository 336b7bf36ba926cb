-------------------------- MODULE CheckPathProofs --------------------------
(***************************************************************************)
(* Proofs about CheckPath, for any rules, requests, scripts and number of  *)
(* checks, polls, reloads, outages and restarts.  Three inductive          *)
(* invariants:                                                             *)
(*   PollsInOrder     one poll at a time, never older than the cache;      *)
(*   RulesSound and   every table keeps the uniqueness the database        *)
(*   ChecksOwn        enforces, the index is one load_all builds from it,  *)
(*                    and the scope of a key stays with its client;        *)
(*   LoadersSound     a script that is missing from the local cache is     *)
(*                    still to be registered by the loader that cleared it *)
(*                    last, unless that one failed.                        *)
(***************************************************************************)
EXTENDS CheckPath, FiniteSetTheorems, WellFoundedInduction, TLAPS

-----------------------------------------------------------------------------
(* Polls: one at a time brings the cache forward. *)

(* At most one poll is under way, and it fetched no less than what the cache
   holds. *)
PollsInOrder ==
  /\ edits \in Nat
  /\ cache.version \in Nat /\ cache.version <= edits
  /\ \A p \in Polls :
       /\ poll[p].pc \in {"idle", "fetched"}
       /\ poll[p].version \in Nat
       /\ poll[p].pc = "fetched" => cache.version <= poll[p].version /\ poll[p].version <= edits
       /\ poll[p].pc = "idle" => poll[p] = IdlePoll
  /\ \A p, q \in Polls : poll[p].pc = "fetched" /\ poll[q].pc = "fetched" => p = q
  /\ poll = [p \in Polls |-> poll[p]]

LEMMA PollsInOrderInit == Init => PollsInOrder
  <1> SUFFICES ASSUME Init
               PROVE  PollsInOrder
    OBVIOUS
  <1>1. poll = [p \in Polls |-> IdlePoll] /\ edits = 0 /\ cache = EmptyCache
    BY DEF Init, PollerInit
  <1>2. cache.version = 0
    BY <1>1 DEF EmptyCache
  <1>3. IdlePoll.pc = "idle" /\ IdlePoll.version = 0
    BY DEF IdlePoll
  <1> QED
    BY <1>1, <1>2, <1>3 DEF PollsInOrder

LEMMA FetchInOrder ==
  ASSUME PollsInOrder, NEW p \in Polls, Fetch(p)
  PROVE  PollsInOrder' /\ cache' = cache
  <1> DEFINE fetched == [pc |-> "fetched", table |-> db, version |-> edits]
  <1>1. /\ \A q \in Polls : poll[q] = IdlePoll
        /\ poll' = [poll EXCEPT ![p] = fetched] /\ UNCHANGED <<edits, cache>>
    BY DEF Fetch
  <1>2. IdlePoll.pc = "idle" /\ IdlePoll.version = 0
    BY DEF IdlePoll
  <1>3. fetched.pc = "fetched" /\ fetched.version = edits
    OBVIOUS
  <1> HIDE DEF fetched
  <1>4. \A q \in Polls : poll'[q] = IF q = p THEN fetched ELSE IdlePoll
    BY <1>1 DEF PollsInOrder
  <1> QED
    BY <1>1, <1>2, <1>3, <1>4 DEF PollsInOrder

LEMMA LoadInOrder ==
  ASSUME PollsInOrder, NEW p \in Polls, Load(p)
  PROVE  PollsInOrder' /\ cache'.version >= cache.version
  <1>1. /\ poll[p].pc = "fetched" /\ poll' = [poll EXCEPT ![p] = IdlePoll]
        /\ UNCHANGED edits
    BY DEF Load
  <1>2. cache'.version = poll[p].version
    <2>1. PICK index \in LoadAll(poll[p].table) :
            cache' = [ready |-> TRUE, index |-> index, table |-> poll[p].table,
                      version |-> poll[p].version]
      BY DEF Load
    <2> QED
      BY <2>1
  <1>3. IdlePoll.pc = "idle" /\ IdlePoll.version = 0
    BY DEF IdlePoll
  <1>4. \A q \in Polls : poll'[q] = IF q = p THEN IdlePoll ELSE poll[q]
    BY <1>1 DEF PollsInOrder
  <1>5. \A q \in Polls : poll'[q].pc # "fetched"
    BY <1>1, <1>3, <1>4 DEF PollsInOrder
  <1> QED
    BY <1>1, <1>2, <1>3, <1>4, <1>5 DEF PollsInOrder

LEMMA EndPollInOrder ==
  ASSUME PollsInOrder, NEW p \in Polls, PollFails(p)
  PROVE  PollsInOrder' /\ cache' = cache
  <1>1. poll' = [poll EXCEPT ![p] = IdlePoll] /\ UNCHANGED <<edits, cache>>
    BY DEF PollFails
  <1>2. IdlePoll.pc = "idle" /\ IdlePoll.version = 0
    BY DEF IdlePoll
  <1>3. \A q \in Polls : poll'[q] = IF q = p THEN IdlePoll ELSE poll[q]
    BY <1>1 DEF PollsInOrder
  <1> QED
    BY <1>1, <1>2, <1>3 DEF PollsInOrder

LEMMA CrashInOrder ==
  ASSUME PollsInOrder, PollerCrash
  PROVE  PollsInOrder'
  <1>1. poll' = [p \in Polls |-> IdlePoll] /\ cache' = EmptyCache /\ UNCHANGED edits
    BY DEF PollerCrash
  <1>2. cache'.version = 0
    BY <1>1 DEF EmptyCache
  <1>3. IdlePoll.pc = "idle" /\ IdlePoll.version = 0
    BY DEF IdlePoll
  <1> QED
    BY <1>1, <1>2, <1>3 DEF PollsInOrder

LEMMA CommitInOrder ==
  ASSUME PollsInOrder, NEW table, Commit(table)
  PROVE  PollsInOrder' /\ cache' = cache
  BY DEF Commit, PollsInOrder

LEMMA PollsStep ==
  ASSUME PollsInOrder, [Next]_vars
  PROVE  /\ PollsInOrder'
         /\ phase = "up" /\ phase' = "up" => cache'.version >= cache.version
  <1>0. cache' = cache => cache'.version >= cache.version
    BY DEF PollsInOrder
  <1>1. CASE UNCHANGED pollerVars
    <2>1. UNCHANGED <<edits, poll, cache>>
      BY <1>1 DEF pollerVars
    <2> QED
      BY <1>0, <2>1 DEF PollsInOrder
  <1>2. CASE EditRules
    <2>1. \E table : Commit(table)
      BY <1>2 DEF EditRules
    <2> QED
      BY <1>0, <2>1, CommitInOrder
  <1>3. ASSUME NEW p \in Polls, PollFetch(p) \/ PollLoad(p) \/ PollFailure(p)
        PROVE  PollsInOrder' /\ cache'.version >= cache.version
    BY <1>0, <1>3, FetchInOrder, LoadInOrder, EndPollInOrder
       DEF PollFetch, PollLoad, PollFailure
  <1>4. CASE Crash
    BY <1>4, CrashInOrder DEF Crash
  <1>5. CASE RedisChanges \/ Boot \/ BootScripts
    BY <1>1, <1>5 DEF RedisChanges, Boot, BootScripts
  <1>6. CASE \E x \in Reloads : Reload(x)
    BY <1>1, <1>6 DEF Reload
  <1>7. CASE \E t \in Checks, c \in Clients, e \in Endpoints, ids \in ValidRequests :
               Arrive(t, c, e, ids)
    BY <1>1, <1>7 DEF Arrive
  <1>8. CASE \E t \in Checks : EvalSha(t) \/ LoadScript(t) \/ EvalShaAgain(t) \/ FailOpen(t)
    BY <1>1, <1>8 DEF EvalSha, LoadScript, EvalShaAgain, FailOpen
  <1>9. CASE UNCHANGED vars
    BY <1>1, <1>9 DEF vars
  <1> QED
    BY <1>2, <1>3, <1>4, <1>5, <1>6, <1>7, <1>8, <1>9 DEF Next

(* CacheNeverGoesBack of the rules poll (core/scheduler.py), for any number of
   edits, polls, failures and restarts. *)
THEOREM CacheForward == Spec => CacheNeverGoesBack
  <1>1. PollsInOrder /\ [Next]_vars => PollsInOrder'
    BY PollsStep
  <1>2. PollsInOrder /\ [Next]_vars =>
          [phase = "up" /\ phase' = "up" => cache'.version >= cache.version]_vars
    BY PollsStep
  <1> QED
    BY <1>1, <1>2, PollsInOrderInit, PTL DEF Spec, CacheNeverGoesBack

-----------------------------------------------------------------------------
(* The index and the scan: what load_all builds from a table, and the rule
   _resolve_rule finds in it. *)

LEMMA LeastExists ==
  ASSUME NEW S \in SUBSET Nat, S # {}
  PROVE  \E i \in S : \A j \in S : i <= j
  <1>1. PICK i \in S : \A j \in S : ~(<<j, i>> \in OpToRel(<, Nat))
    BY WFMin, NatLessThanWellFounded, Zenon
  <1>2. ASSUME NEW j \in S
        PROVE  i <= j
    <2>1. <<j, i>> \notin {ss \in Nat \X Nat : ss[1] < ss[2]}
      BY <1>1, <1>2, Zenon DEF OpToRel
    <2>2. <<j, i>> \in Nat \X Nat /\ <<j, i>>[1] = j /\ <<j, i>>[2] = i
      BY <1>2
    <2>3. ~(j < i)
      BY <2>1, <2>2
    <2> QED
      BY <2>3
  <1> QED
    BY <1>2

LEMMA SignaturesTotal ==
  ASSUME NEW s \in SUBSET IdTypes, NEW t \in SUBSET IdTypes, s # t
  PROVE  SigLess(s, t) \/ SigLess(t, s)
  <1> DEFINE d == (s \ t) \cup (t \ s)
  <1>1. d \in SUBSET Nat /\ d # {}
    BY RuleIndexAssumption
  <1>2. PICK x \in d : \A y \in d : x <= y
    BY <1>1, LeastExists
  <1> QED
    BY <1>2 DEF SigLess

LEMMA SignatureSizes ==
  ASSUME NEW s \in SUBSET IdTypes
  PROVE  Cardinality(s) \in Nat /\ (s # {} => Cardinality(s) > Cardinality({}))
  <1>1. IsFiniteSet(s)
    BY FS_Subset, RuleIndexAssumption
  <1>2. Cardinality(s) \in Nat /\ (Cardinality(s) = 0 <=> s = {})
    BY <1>1, FS_CardinalityType, FS_EmptySet
  <1>3. Cardinality({}) = 0
    BY FS_EmptySet
  <1> QED
    BY <1>2, <1>3

(* An active rule of the scope that names identifier types. *)
Candidate(r, table, scope) ==
  r \in table /\ r.status = "active" /\ ScopeOf(r) = scope /\ ~IsGlobal(r)

LEMMA CandidatesListed ==
  ASSUME NEW table, NEW index \in LoadAll(table), NEW scope
  PROVE  LET c == GetCandidates(index, scope)
         IN  /\ DOMAIN c \in SUBSET Nat
             /\ \A i \in DOMAIN c : Candidate(c[i], table, scope)
             /\ \A r : Candidate(r, table, scope) => \E i \in DOMAIN c : c[i] = r
             /\ \A i, j \in DOMAIN c : i < j => ~SortsBefore(c[j], c[i])
  <1> DEFINE active == {rule \in table : rule.status = "active"}
             others == active \ {rule \in active : IsGlobal(rule)}
             c == GetCandidates(index, scope)
  <1>1. \A r : r \in InScope(others, scope) <=> Candidate(r, table, scope)
    BY DEF Candidate, InScope
  <1>2. CASE scope \in DOMAIN index.candidates
    <2>1. c \in Sortings(InScope(others, scope))
      BY <1>2 DEF LoadAll, GetCandidates
    <2> HIDE DEF c
    <2>2. /\ c \in [1 .. Cardinality(InScope(others, scope)) -> InScope(others, scope)]
          /\ \A r \in InScope(others, scope) : \E i \in DOMAIN c : c[i] = r
          /\ \A i, j \in DOMAIN c : i < j => ~SortsBefore(c[j], c[i])
      BY <2>1 DEF Sortings, Listings
    <2>3. DOMAIN c \in SUBSET Nat
      BY <2>2
    <2> QED
      BY <1>1, <2>2, <2>3 DEF c
  <1>3. CASE scope \notin DOMAIN index.candidates
    <2>1. c = <<>>
      BY <1>3 DEF GetCandidates
    <2>2. ScopesOf(others) = DOMAIN index.candidates
      BY DEF LoadAll
    <2>3. \A r : ~Candidate(r, table, scope)
      BY <1>1, <1>3, <2>2 DEF ScopesOf, InScope
    <2> QED
      BY <2>1, <2>3
  <1> QED
    BY <1>2, <1>3

LEMMA GlobalListed ==
  ASSUME NEW table, NEW index \in LoadAll(table), NEW scope
  PROVE  LET g == GetGlobal(index, scope)
             all == {r \in table : r.status = "active" /\ ScopeOf(r) = scope /\ IsGlobal(r)}
         IN  IF all = {} THEN g = None ELSE g \in all
  <1> DEFINE globals == {r \in {rule \in table : rule.status = "active"} : IsGlobal(r)}
  <1>1. index.global \in {g \in [ScopesOf(globals) -> globals] :
                            \A s \in DOMAIN g : ScopeOf(g[s]) = s}
    BY DEF LoadAll
  <1> QED
    BY <1>1 DEF GetGlobal, ScopesOf

Ids(table) == {r.id : r \in table}

(* What ux_rules_active_scope and the primary key keep true of a table. *)
TableSound(table) ==
  /\ table \subseteq Rule
  /\ \A r, s \in table : r.id = s.id => r = s
  /\ \A r, s \in table :
       /\ r.status = "active" /\ s.status = "active"
       /\ ScopeOf(r) = ScopeOf(s) /\ r.sig = s.sig
       => r = s

(* The first candidate that fits comes before every other one that fits. *)
LEMMA FirstFitBest ==
  ASSUME NEW a \in Rule, NEW b \in Rule, a.sig # b.sig, ~SortsBefore(b, a)
  PROVE  \/ Cardinality(b.sig) < Cardinality(a.sig)
         \/ /\ Cardinality(b.sig) = Cardinality(a.sig)
            /\ (b.priority < a.priority \/ (b.priority = a.priority /\ SigLess(a.sig, b.sig)))
  <1>1. Cardinality(a.sig) \in Nat /\ Cardinality(b.sig) \in Nat
    BY SignatureSizes DEF Rule
  <1>2. a.priority \in Int /\ b.priority \in Int
    BY RuleIndexAssumption DEF Rule
  <1>3. SigLess(a.sig, b.sig) \/ SigLess(b.sig, a.sig)
    BY SignaturesTotal DEF Rule
  <1> QED
    BY <1>1, <1>2, <1>3 DEF SortsBefore

(* The scan of _resolve_rule: the candidate it stops at. *)
LEMMA ScanStopsAtFirst ==
  ASSUME NEW index, NEW client, NEW endpoint, NEW provided,
         DOMAIN GetCandidates(index, <<client, endpoint>>) \in SUBSET Nat
  PROVE  LET c == GetCandidates(index, <<client, endpoint>>)
             fit == {i \in DOMAIN c : c[i].sig \subseteq provided}
         IN  IF fit = {}
             THEN ResolveRule(index, client, endpoint, provided)
                    = GetGlobal(index, <<client, endpoint>>)
             ELSE \E i \in fit : /\ \A j \in fit : i <= j
                                 /\ ResolveRule(index, client, endpoint, provided) = c[i]
  <1> DEFINE c == GetCandidates(index, <<client, endpoint>>)
             fit == {i \in DOMAIN c : c[i].sig \subseteq provided}
             first == CHOOSE i \in fit : \A j \in fit : i <= j
  <1>1. fit \in SUBSET Nat
    OBVIOUS
  <1>2. fit # {} => first \in fit /\ \A j \in fit : first <= j
    BY <1>1, LeastExists, Zenon
  <1>3. ResolveRule(index, client, endpoint, provided)
          = IF fit # {} THEN c[first] ELSE GetGlobal(index, <<client, endpoint>>)
    BY Zenon DEF ResolveRule
  <1> HIDE DEF fit, first, c
  <1>4. CASE fit = {}
    BY <1>3, <1>4 DEF fit, c
  <1>5. CASE fit # {}
    <2>1. \E i \in fit : /\ \A j \in fit : i <= j
                         /\ ResolveRule(index, client, endpoint, provided) = c[i]
      BY <1>2, <1>3, <1>5
    <2> QED
      BY <1>5, <2>1, Zenon DEF fit, c
  <1> QED
    BY <1>4, <1>5

(* _resolve_rule on the index of a sound table finds the most specific rule of
   the table, in whatever order the rows came. *)
LEMMA ResolveDecides ==
  ASSUME NEW table, TableSound(table), NEW index \in LoadAll(table),
         NEW client, NEW endpoint, NEW provided
  PROVE  Decides(ResolveRule(index, client, endpoint, provided), table, client, endpoint, provided)
  <1> DEFINE scope == <<client, endpoint>>
             c == GetCandidates(index, scope)
             g == GetGlobal(index, scope)
             fit == {i \in DOMAIN c : c[i].sig \subseteq provided}
             rule == ResolveRule(index, client, endpoint, provided)
             fitting == {r \in table :
                           /\ r.status = "active" /\ r.client = client /\ r.endpoint = endpoint
                           /\ r.sig \subseteq provided}
             globals == {r \in table : r.status = "active" /\ ScopeOf(r) = scope /\ IsGlobal(r)}
  <1>1. /\ DOMAIN c \in SUBSET Nat
        /\ \A i \in DOMAIN c : Candidate(c[i], table, scope)
        /\ \A r : Candidate(r, table, scope) => \E i \in DOMAIN c : c[i] = r
        /\ \A i, j \in DOMAIN c : i < j => ~SortsBefore(c[j], c[i])
    BY CandidatesListed, Zenon
  <1>2. IF globals = {} THEN g = None ELSE g \in globals
    BY GlobalListed, Zenon
  <1>3. IF fit = {} THEN rule = g
        ELSE \E i \in fit : (\A j \in fit : i <= j) /\ rule = c[i]
    <2>1. DOMAIN GetCandidates(index, <<client, endpoint>>) \in SUBSET Nat
      BY <1>1
    <2> QED
      BY <2>1, ScanStopsAtFirst
  <1>4. \A r : r \in fitting <=>
                 \/ r \in globals
                 \/ Candidate(r, table, scope) /\ r.sig \subseteq provided
    BY DEF Candidate, ScopeOf, IsGlobal
  <1>5. \A r, s \in globals : r = s
    BY DEF TableSound, IsGlobal
  <1>6. SUFFICES IF fitting = {} THEN rule = None
                 ELSE /\ rule \in fitting
                      /\ \A r \in fitting \ {rule} :
                           \/ Cardinality(r.sig) < Cardinality(rule.sig)
                           \/ /\ Cardinality(r.sig) = Cardinality(rule.sig)
                              /\ \/ r.priority < rule.priority
                                 \/ r.priority = rule.priority /\ SigLess(rule.sig, r.sig)
    BY DEF Decides
  <1> HIDE DEF c, g, rule, fitting, globals
  <1>7. CASE fit = {}
    <2>1. fitting = globals
      BY <1>1, <1>4, <1>7
    <2> QED
      BY <1>2, <1>3, <1>5, <1>7, <2>1
  <1>8. CASE fit # {}
    <2>1. PICK k \in fit : (\A j \in fit : k <= j) /\ rule = c[k]
      BY <1>3, <1>8
    <2>2. /\ Candidate(rule, table, scope) /\ rule.sig \subseteq provided
          /\ rule \in fitting /\ rule \in Rule
      BY <1>1, <1>4, <2>1 DEF Candidate, TableSound
    <2>3. ASSUME NEW r \in fitting \ {rule}
          PROVE  \/ Cardinality(r.sig) < Cardinality(rule.sig)
                 \/ /\ Cardinality(r.sig) = Cardinality(rule.sig)
                    /\ (r.priority < rule.priority
                          \/ (r.priority = rule.priority /\ SigLess(rule.sig, r.sig)))
      <3>1. CASE r \in globals
        <4>1. r.sig = {} /\ rule.sig # {} /\ rule.sig \in SUBSET IdTypes
          BY <2>2, <3>1 DEF globals, IsGlobal, Candidate, Rule
        <4> QED
          BY <4>1, SignatureSizes
      <3>2. CASE r \notin globals
        <4>1. Candidate(r, table, scope) /\ r.sig \subseteq provided
          BY <1>4, <2>3, <3>2
        <4>2. PICK m \in DOMAIN c : c[m] = r
          BY <1>1, <4>1
        <4>3. m \in fit
          BY <4>1, <4>2
        <4>4. k \in Nat /\ m \in Nat /\ k <= m /\ m # k
          BY <1>1, <2>1, <2>3, <4>2, <4>3
        <4>5. ~SortsBefore(r, rule)
          BY <1>1, <2>1, <4>2, <4>4
        <4>6. r \in Rule /\ r # rule /\ r.sig # rule.sig
          BY <2>2, <2>3, <4>1 DEF Candidate, TableSound
        <4> QED
          BY <2>2, <4>5, <4>6, FirstFitBest
      <3> QED
        BY <3>1, <3>2
    <2> QED
      BY <2>2, <2>3
  <1> QED
    BY <1>7, <1>8

(* What a check gets: no rule, or an active one of its client at its endpoint
   all of whose types it provided. *)
LEMMA ResolvedRule ==
  ASSUME NEW table, TableSound(table), NEW index \in LoadAll(table),
         NEW client, NEW endpoint, NEW provided,
         ResolveRule(index, client, endpoint, provided) # None
  PROVE  /\ ResolveRule(index, client, endpoint, provided) \in table
         /\ ResolveRule(index, client, endpoint, provided).client = client
         /\ ResolveRule(index, client, endpoint, provided).sig \subseteq provided
  BY ResolveDecides DEF Decides
-----------------------------------------------------------------------------
(* Tables and keys: what the steps of CheckPath keep. *)

(* The rules of every table that a check, a poll or the database works with. *)
KnownRules == db \cup cache.table \cup UNION {poll[p].table : p \in Polls}

(* The client a Redis key was made for owns its scope: the default one of the
   client, or the id of a rule that never was another client's. *)
OwnsScope(client, scope, ids, rules) ==
  \/ scope = DefaultScope(client)
  \/ /\ scope \in ids \cap RuleIds
     /\ \A r \in rules : r.id = scope => r.client = client

RulesSound ==
  /\ TableSound(db) /\ TableSound(cache.table)
  /\ \A p \in Polls : TableSound(poll[p].table)
  /\ phase = "up" => cache.index \in LoadAll(cache.table)
  /\ \A r \in KnownRules : r.id \in used
  /\ \A r, s \in KnownRules : r.id = s.id => r.client = s.client
  /\ poll = [p \in Polls |-> poll[p]]

(* A check under way. *)
UnderWay(a) ==
  /\ a = [pc |-> a.pc, client |-> a.client, key |-> a.key]
  /\ a.client \in Clients

ChecksOwn ==
  /\ check = [t \in Checks |-> check[t]]
  /\ \A t \in Checks : check[t].pc # "idle" =>
       UnderWay(check[t]) /\ OwnsScope(check[t].client, check[t].key.scope, used, KnownRules)

(* What RuleTable promises of a commit: the new table is sound, its ids are
   used ones from now on, and a row whose id was used before continues a row of
   the same client. *)
LEMMA CommitSound ==
  ASSUME TableSound(db), Ids(db) \subseteq used, NEW table, Commit(table)
  PROVE  /\ TableSound(db') /\ used \subseteq used' /\ Ids(db') \subseteq used'
         /\ \A r \in db' : r.id \in used => \E d \in db : d.id = r.id /\ d.client = r.client
         /\ poll' = poll /\ cache' = cache
  <1>0. db' \subseteq Rule /\ Table!Unique(db') /\ (Table!Insert \/ Table!Update \/ Table!Delete)
        /\ poll' = poll /\ cache' = cache
    BY DEF Commit, Table!Next
  <1>1. TableSound(db')
    BY <1>0 DEF TableSound, Table!Unique, ScopeOf
  <1>2. CASE Table!Insert
    <2>1. /\ db \subseteq db'
          /\ \A r \in db' \ db : r.id \notin used
          /\ used' = used \cup {r.id : r \in db' \ db}
      BY <1>2 DEF Table!Insert, Table!Ids
    <2> QED
      BY <1>0, <1>1, <2>1 DEF Ids
  <1>3. CASE Table!Update
    <2>1. /\ {r.id : r \in db'} = {r.id : r \in db}
          /\ \A r \in db, t \in db' : r.id = t.id => r.client = t.client
          /\ used' = used
      BY <1>3 DEF Table!Update, Table!Ids
    <2> QED
      BY <1>0, <1>1, <2>1 DEF Ids
  <1>4. CASE Table!Delete
    <2>1. db' \subseteq db /\ used' = used
      BY <1>4 DEF Table!Delete
    <2> QED
      BY <1>0, <1>1, <2>1 DEF Ids
  <1> QED
    BY <1>0, <1>2, <1>3, <1>4

LEMMA RulesSoundInit == Init => RulesSound /\ ChecksOwn
  <1> SUFFICES ASSUME Init
               PROVE  RulesSound /\ ChecksOwn
    OBVIOUS
  <1>1. /\ db = {} /\ poll = [p \in Polls |-> IdlePoll] /\ cache = EmptyCache
        /\ phase = "down" /\ check = [t \in Checks |-> Answered("none")]
    BY DEF Init, PollerInit
  <1>2. cache.table = {} /\ \A p \in Polls : poll[p].table = {}
    BY <1>1 DEF EmptyCache, IdlePoll
  <1>3. \A t \in Checks : check[t].pc = "idle"
    BY <1>1 DEF Answered
  <1>4. TableSound({})
    BY DEF TableSound
  <1>5. KnownRules = {}
    BY <1>1, <1>2 DEF KnownRules
  <1>6. RulesSound
    BY <1>1, <1>2, <1>4, <1>5 DEF RulesSound
  <1>7. ChecksOwn
    BY <1>1, <1>3 DEF ChecksOwn
  <1> QED
    BY <1>6, <1>7

LEMMA EditRulesSound ==
  ASSUME RulesSound, ChecksOwn, EditRules
  PROVE  RulesSound' /\ ChecksOwn'
  <1>1. phase' = phase /\ check' = check /\ \E table : Commit(table)
    BY DEF EditRules
  <1>2. TableSound(db) /\ Ids(db) \subseteq used
    BY DEF RulesSound, KnownRules, Ids
  <1>3. /\ TableSound(db') /\ used \subseteq used' /\ Ids(db') \subseteq used'
        /\ \A r \in db' : r.id \in used => \E d \in db : d.id = r.id /\ d.client = r.client
        /\ poll' = poll /\ cache' = cache
    BY <1>1, <1>2, CommitSound
  <1>4. \A r \in KnownRules' : r \in KnownRules \/ r \in db'
    BY <1>3 DEF KnownRules
  <1>5. \A r \in KnownRules' : r.id \in used'
    BY <1>3, <1>4 DEF RulesSound, Ids
  <1>6. \A r \in db', k \in KnownRules : r.id = k.id => r.client = k.client
    BY <1>3 DEF RulesSound, KnownRules
  <1>7. \A r, t \in KnownRules' : r.id = t.id => r.client = t.client
    BY <1>3, <1>4, <1>6 DEF RulesSound, TableSound
  <1>8. RulesSound'
    BY <1>1, <1>3, <1>5, <1>7 DEF RulesSound
  <1>9. ASSUME NEW t \in Checks, check[t].pc # "idle"
        PROVE  UnderWay(check[t]) /\ OwnsScope(check[t].client, check[t].key.scope, used', KnownRules')
    <2>1. UnderWay(check[t]) /\ OwnsScope(check[t].client, check[t].key.scope, used, KnownRules)
      BY <1>9 DEF ChecksOwn
    <2>2. ASSUME check[t].key.scope \in used, NEW r \in db', r.id = check[t].key.scope,
                 \A k \in KnownRules : k.id = check[t].key.scope => k.client = check[t].client
          PROVE  r.client = check[t].client
      BY <1>3, <2>2 DEF KnownRules
    <2> QED
      BY <1>3, <1>4, <2>1, <2>2 DEF OwnsScope
  <1>10. ChecksOwn'
    BY <1>1, <1>9 DEF ChecksOwn
  <1> QED
    BY <1>8, <1>10

(* Polls, loads and restarts only move tables around. *)
LEMMA FewerRules ==
  ASSUME ChecksOwn, KnownRules' \subseteq KnownRules, used' = used, check' = check
  PROVE  ChecksOwn'
  BY DEF ChecksOwn, OwnsScope

LEMMA PollRulesSound ==
  ASSUME RulesSound, ChecksOwn, NEW p \in Polls, PollFetch(p) \/ PollLoad(p) \/ PollFailure(p)
  PROVE  RulesSound' /\ ChecksOwn'
  <1>0. db' = db /\ used' = used /\ check' = check
    BY DEF PollFetch, PollLoad, PollFailure, Fetch, Load, PollFails
  <1>1. ASSUME NEW new, TableSound(new.table), new.table \subseteq KnownRules,
               poll' = [poll EXCEPT ![p] = new],
               cache'.table = cache.table \/ cache'.table = poll[p].table,
               phase' = "up" => cache'.index \in LoadAll(cache'.table)
        PROVE  RulesSound' /\ ChecksOwn'
    <2>1. \A q \in Polls : poll'[q] = IF q = p THEN new ELSE poll[q]
      BY <1>1 DEF RulesSound
    <2>2. KnownRules' \subseteq KnownRules
      BY <1>0, <1>1, <2>1 DEF KnownRules
    <2>3. TableSound(cache'.table) /\ \A q \in Polls : TableSound(poll'[q].table)
      BY <1>1, <2>1 DEF RulesSound
    <2>4. poll' = [q \in Polls |-> poll'[q]]
      BY <1>1 DEF RulesSound
    <2>5. RulesSound'
      BY <1>0, <1>1, <2>2, <2>3, <2>4 DEF RulesSound
    <2> QED
      BY <1>0, <2>2, <2>5, FewerRules
  <1>2. IdlePoll.table = {} /\ TableSound({})
    BY DEF IdlePoll, TableSound
  <1>3. CASE PollFetch(p)
    <2> DEFINE new == [pc |-> "fetched", table |-> db, version |-> edits]
    <2>1. /\ poll' = [poll EXCEPT ![p] = new] /\ cache' = cache
          /\ phase' = phase
      BY <1>3 DEF PollFetch, Fetch
    <2>2. new.table = db /\ TableSound(db) /\ db \subseteq KnownRules
      BY DEF RulesSound, KnownRules
    <2> HIDE DEF new
    <2> QED
      BY <1>1, <2>1, <2>2 DEF RulesSound
  <1>4. CASE PollLoad(p)
    <2>1. poll' = [poll EXCEPT ![p] = IdlePoll]
      BY <1>4 DEF PollLoad, Load
    <2>2. PICK index \in LoadAll(poll[p].table) :
            cache' = [ready |-> TRUE, index |-> index, table |-> poll[p].table,
                      version |-> poll[p].version]
      BY <1>4 DEF PollLoad, Load
    <2>3. cache'.table = poll[p].table /\ cache'.index = index
      BY <2>2
    <2> QED
      BY <1>1, <1>2, <2>1, <2>2, <2>3
  <1>5. CASE PollFailure(p)
    <2>1. poll' = [poll EXCEPT ![p] = IdlePoll] /\ cache' = cache /\ phase' = phase
      BY <1>5 DEF PollFailure, PollFails
    <2> QED
      BY <1>1, <1>2, <2>1 DEF RulesSound
  <1> QED
    BY <1>3, <1>4, <1>5

LEMMA CrashRulesSound ==
  ASSUME RulesSound, Crash
  PROVE  RulesSound' /\ ChecksOwn'
  <1>1. /\ poll' = [p \in Polls |-> IdlePoll] /\ cache' = EmptyCache
        /\ db' = db /\ used' = used /\ phase' = "down"
        /\ check' = [t \in Checks |-> Answered("none")]
    BY DEF Crash, PollerCrash
  <1>2. cache'.table = {} /\ \A p \in Polls : poll'[p].table = {}
    BY <1>1 DEF EmptyCache, IdlePoll
  <1>3. \A t \in Checks : check'[t].pc = "idle"
    BY <1>1 DEF Answered
  <1>4. TableSound({})
    BY DEF TableSound
  <1>5. KnownRules' \subseteq KnownRules
    BY <1>1, <1>2 DEF KnownRules
  <1>6. RulesSound'
    BY <1>1, <1>2, <1>4, <1>5 DEF RulesSound
  <1>7. ChecksOwn'
    BY <1>1, <1>3 DEF ChecksOwn
  <1> QED
    BY <1>6, <1>7

(* The key of a check: its scope is one its client owns, its algorithm one
   that has a script. *)
LEMMA KeyOwned ==
  ASSUME RulesSound, phase = "up", NEW client \in Clients, NEW endpoint, NEW ids
  PROVE  LET key == KeyFor(client, endpoint, ids)
         IN  /\ key.algo \in Algorithms
             /\ \/ key.scope = DefaultScope(client)
                \/ \E r \in cache.table : r.client = client /\ r.id = key.scope
  <1> DEFINE resolved == ResolveRule(cache.index, client, endpoint, DOMAIN ids)
             rule == Decider(client, endpoint, ids)
             key == KeyFor(client, endpoint, ids)
  <1>1. rule # None => rule = resolved
    BY DEF Decider
  <1>2. rule # None => rule \in cache.table /\ rule.client = client
    BY <1>1, ResolvedRule DEF RulesSound
  <1>3. rule # None => rule.algo \in Algorithms
    BY <1>2 DEF RulesSound, TableSound, Rule
  <1> HIDE DEF rule
  <1>4. /\ key.algo = IF rule = None THEN DefaultAlgo ELSE rule.algo
        /\ key.scope = IF rule = None THEN DefaultScope(client) ELSE rule.id
    BY DEF KeyFor, rule
  <1> HIDE DEF key
  <1>5. /\ key.algo \in Algorithms
        /\ \/ key.scope = DefaultScope(client)
           \/ \E r \in cache.table : r.client = client /\ r.id = key.scope
    BY <1>2, <1>3, <1>4, CheckPathAssumption
  <1> QED
    BY <1>5 DEF key

LEMMA CheckRulesSound ==
  ASSUME RulesSound, ChecksOwn, UNCHANGED <<db, used, poll, cache>>, phase' = phase,
         NEW t \in Checks, NEW answer, check' = [check EXCEPT ![t] = answer],
         answer.pc # "idle" => /\ UnderWay(answer)
                               /\ OwnsScope(answer.client, answer.key.scope, used, KnownRules)
  PROVE  RulesSound' /\ ChecksOwn'
  <1>1. KnownRules' = KnownRules
    BY DEF KnownRules
  <1>2. RulesSound'
    BY <1>1 DEF RulesSound
  <1>3. \A u \in Checks : check'[u] = IF u = t THEN answer ELSE check[u]
    BY DEF ChecksOwn
  <1>4. check' = [u \in Checks |-> check'[u]]
    BY DEF ChecksOwn
  <1>5. \A u \in Checks : check'[u].pc # "idle" =>
          /\ UnderWay(check'[u])
          /\ OwnsScope(check'[u].client, check'[u].key.scope, used, KnownRules)
    BY <1>3 DEF ChecksOwn
  <1> QED
    BY <1>1, <1>2, <1>4, <1>5 DEF ChecksOwn

LEMMA ArriveRulesSound ==
  ASSUME RulesSound, ChecksOwn, NEW t \in Checks, NEW client \in Clients, NEW endpoint, NEW ids,
         Arrive(t, client, endpoint, ids)
  PROVE  RulesSound' /\ ChecksOwn'
  <1> DEFINE key == KeyFor(client, endpoint, ids)
             answer == IF key.algo \in script_cache
                       THEN [pc |-> "evalsha", client |-> client, key |-> key]
                       ELSE Answered("error")
  <1>1. /\ phase = "up" /\ check' = [check EXCEPT ![t] = answer]
        /\ UNCHANGED <<db, used, poll, cache>> /\ phase' = phase
    BY DEF Arrive, pollerVars
  <1>2. \/ key.scope = DefaultScope(client)
        \/ \E r \in cache.table : r.client = client /\ r.id = key.scope
    BY <1>1, KeyOwned
  <1>3. OwnsScope(client, key.scope, used, KnownRules)
    <2>1. ASSUME NEW r \in cache.table, r.client = client, r.id = key.scope
          PROVE  OwnsScope(client, key.scope, used, KnownRules)
      <3>1. r \in KnownRules /\ r.id \in RuleIds
        BY DEF KnownRules, RulesSound, TableSound, Rule
      <3> QED
        BY <2>1, <3>1 DEF OwnsScope, RulesSound
    <2> QED
      BY <1>2, <2>1 DEF OwnsScope
  <1> HIDE DEF key
  <1>4. answer.pc # "idle" => UnderWay(answer) /\ answer.client = client /\ answer.key = key
    BY DEF Answered, UnderWay
  <1> HIDE DEF answer
  <1> QED
    BY <1>1, <1>3, <1>4, CheckRulesSound

LEMMA CheckStepRulesSound ==
  ASSUME RulesSound, ChecksOwn, NEW t \in Checks,
         EvalSha(t) \/ LoadScript(t) \/ EvalShaAgain(t) \/ FailOpen(t)
  PROVE  RulesSound' /\ ChecksOwn'
  <1> DEFINE moved(pc) == [check[t] EXCEPT !.pc = pc]
  <1>0. \A a : Answered(a).pc = "idle"
    BY DEF Answered
  <1>1. UNCHANGED <<db, used, poll, cache>> /\ phase' = phase /\ check[t].pc # "idle"
    BY DEF EvalSha, LoadScript, EvalShaAgain, FailOpen, pollerVars
  <1>2. PICK answer : /\ check' = [check EXCEPT ![t] = answer]
                      /\ answer.pc = "idle" \/ answer = moved("load") \/ answer = moved("again")
    <2>1. CASE EvalSha(t)
      BY <1>0, <2>1 DEF EvalSha
    <2>2. CASE LoadScript(t)
      BY <2>2 DEF LoadScript
    <2>3. CASE EvalShaAgain(t)
      BY <1>0, <2>3 DEF EvalShaAgain
    <2>4. CASE FailOpen(t)
      BY <1>0, <2>4 DEF FailOpen
    <2> QED
      BY <2>1, <2>2, <2>3, <2>4
  <1>3. UnderWay(check[t])
    BY <1>1 DEF ChecksOwn
  <1>4. ASSUME NEW pc
        PROVE  /\ UnderWay(moved(pc))
               /\ moved(pc).client = check[t].client /\ moved(pc).key = check[t].key
    <2>1. moved(pc) = [pc |-> pc, client |-> check[t].client, key |-> check[t].key]
      BY <1>3 DEF UnderWay
    <2> HIDE DEF moved
    <2> QED
      BY <1>3, <2>1 DEF UnderWay
  <1> HIDE DEF moved
  <1>5. answer.pc # "idle" =>
          UnderWay(answer) /\ answer.client = check[t].client /\ answer.key = check[t].key
    BY <1>2, <1>4
  <1> QED
    BY <1>1, <1>2, <1>5, CheckRulesSound DEF ChecksOwn

LEMMA RulesStep ==
  ASSUME RulesSound, ChecksOwn, [Next]_vars
  PROVE  RulesSound' /\ ChecksOwn'
  <1>1. ASSUME UNCHANGED <<pollerVars, check>>, phase' = phase \/ phase' # "up"
        PROVE  RulesSound' /\ ChecksOwn'
    <2>1. UNCHANGED <<db, used, poll, cache, check>>
      BY <1>1 DEF pollerVars
    <2>2. KnownRules' = KnownRules
      BY <2>1 DEF KnownRules
    <2> QED
      BY <1>1, <2>1, <2>2 DEF RulesSound, ChecksOwn
  <1>2. CASE EditRules
    BY <1>2, EditRulesSound
  <1>3. CASE \E p \in Polls : PollFetch(p) \/ PollLoad(p) \/ PollFailure(p)
    BY <1>3, PollRulesSound
  <1>4. CASE Crash
    BY <1>4, CrashRulesSound
  <1>5. CASE RedisChanges \/ Boot \/ BootScripts
    BY <1>1, <1>5 DEF RedisChanges, Boot, BootScripts
  <1>6. CASE \E x \in Reloads : Reload(x)
    BY <1>1, <1>6 DEF Reload
  <1>7. CASE \E t \in Checks, c \in Clients, e \in Endpoints, ids \in ValidRequests :
               Arrive(t, c, e, ids)
    BY <1>7, ArriveRulesSound
  <1>8. CASE \E t \in Checks : EvalSha(t) \/ LoadScript(t) \/ EvalShaAgain(t) \/ FailOpen(t)
    BY <1>8, CheckStepRulesSound
  <1>9. CASE UNCHANGED vars
    BY <1>1, <1>9 DEF vars
  <1> QED
    BY <1>2, <1>3, <1>4, <1>5, <1>6, <1>7, <1>8, <1>9 DEF Next

(* ResolvesMostSpecific of _resolve_rule, for any table of rules, any order
   the database returns it in, any number of edits, polls and restarts. *)
THEOREM MostSpecific == Spec => []ResolvesMostSpecific
  <1>1. RulesSound => ResolvesMostSpecific
    BY ResolveDecides DEF RulesSound, ResolvesMostSpecific
  <1>2. RulesSound /\ ChecksOwn /\ [Next]_vars => (RulesSound /\ ChecksOwn)'
    BY RulesStep
  <1> QED
    BY <1>1, <1>2, RulesSoundInit, PTL DEF Spec

(* ClientsShareNoKey of rate_limiter_service.py, for any rules and requests. *)
THEOREM NoSharedKeys == Spec => []ClientsShareNoKey
  <1>1. ASSUME RulesSound, ChecksOwn
        PROVE  ClientsShareNoKey
    <2> SUFFICES ASSUME phase = "up", NEW t \in Checks, check[t].pc # "idle",
                        NEW c \in Clients \ {check[t].client}, NEW e \in Endpoints,
                        NEW ids \in ValidRequests, KeyFor(c, e, ids) = check[t].key
                 PROVE  FALSE
      BY DEF ClientsShareNoKey
    <2> DEFINE owner == check[t].client
               scope == check[t].key.scope
    <2>1. owner \in Clients /\ c # owner /\ OwnsScope(owner, scope, used, KnownRules)
      BY <1>1 DEF ChecksOwn, UnderWay
    <2>2. \/ scope = DefaultScope(c)
          \/ \E r \in cache.table : r.client = c /\ r.id = scope
      BY <1>1, KeyOwned
    <2>3. DefaultScope(c) # DefaultScope(owner)
      BY <2>1 DEF DefaultScope
    <2>4. DefaultScope(c) \notin RuleIds /\ DefaultScope(owner) \notin RuleIds
      BY <2>1, CheckPathAssumption DEF DefaultScope
    <2>5. \A r \in cache.table : r \in KnownRules /\ r.id \in RuleIds
      BY <1>1 DEF KnownRules, RulesSound, TableSound, Rule
    <2> HIDE DEF owner, scope
    <2> QED
      BY <2>1, <2>2, <2>3, <2>4, <2>5 DEF OwnsScope
  <1>2. RulesSound /\ ChecksOwn /\ [Next]_vars => (RulesSound /\ ChecksOwn)'
    BY RulesStep
  <1> QED
    BY <1>1, <1>2, RulesSoundInit, PTL DEF Spec

(* The validators: what they return tells apart whom two valid values name,
   and nothing else. *)
LEMMA NormalizeFollowsMeaning ==
  ASSUME NEW validator \in DOMAIN Kept, NEW v \in Values, NEW w \in Values,
         Normalize(validator, v) # Invalid, Normalize(validator, w) # Invalid
  PROVE  Normalize(validator, v) = Normalize(validator, w)
           <=> Meaning(validator, v) = Meaning(validator, w)
  <1>1. v = [who |-> v.who, form |-> v.form] /\ w = [who |-> w.who, form |-> w.form]
    BY DEF Values
  <1>2. \A u \in Values : Normalize(validator, u) # Invalid =>
          \/ u.form \in Kept[validator] /\ Normalize(validator, u) = u
          \/ /\ u.form \notin Kept[validator] /\ u.form \in Folded[validator]
             /\ Normalize(validator, u) = [who |-> u.who, form |-> "plain"]
    <2> SUFFICES ASSUME NEW u \in Values, Normalize(validator, u) # Invalid
                 PROVE  \/ u.form \in Kept[validator] /\ Normalize(validator, u) = u
                        \/ /\ u.form \notin Kept[validator] /\ u.form \in Folded[validator]
                           /\ Normalize(validator, u) = [who |-> u.who, form |-> "plain"]
      OBVIOUS
    <2> DEFINE folded == [u EXCEPT !.form = "plain"]
    <2>1. folded = [who |-> u.who, form |-> "plain"]
      BY DEF Values
    <2>2. CASE u.form \in Kept[validator]
      <3>1. Kept[validator] \cap Folded[validator] = {}
        BY DEF Kept, Folded
      <3> QED
        BY <2>2, <3>1 DEF Normalize
    <2>3. CASE u.form \notin Kept[validator] /\ u.form \in Folded[validator]
      <3>1. Normalize(validator, u) = folded
        BY <2>3 DEF Normalize
      <3> QED
        BY <2>1, <2>3, <3>1
    <2>4. CASE u.form \notin Kept[validator] /\ u.form \notin Folded[validator]
      BY <2>4 DEF Normalize
    <2> QED
      BY <2>2, <2>3, <2>4
  <1>3. CASE validator \in {"ip_address", "slug"}
    <2>1. Kept[validator] = {"plain"}
      BY <1>3 DEF Kept
    <2>2. \A u \in {v, w} : Normalize(validator, u) = [who |-> u.who, form |-> "plain"]
      BY <1>1, <1>2, <2>1
    <2>3. Meaning(validator, v) = <<v.who>> /\ Meaning(validator, w) = <<w.who>>
      BY <1>3 DEF Meaning
    <2> QED
      BY <2>2, <2>3
  <1>4. CASE validator = "ip_range"
    <2>1. Kept[validator] = {"plain", "mapped"} /\ Folded[validator] = {"cased", "hosted"}
      BY <1>4 DEF Kept, Folded
    <2>2. \A u \in {v, w} :
            Normalize(validator, u)
              = [who |-> u.who, form |-> IF u.form = "mapped" THEN "mapped" ELSE "plain"]
      BY <1>1, <1>2, <2>1
    <2>3. /\ Meaning(validator, v) = <<v.who, v.form = "mapped">>
          /\ Meaning(validator, w) = <<w.who, w.form = "mapped">>
      BY <1>4 DEF Meaning
    <2>4. Normalize(validator, v) = Normalize(validator, w)
            <=> v.who = w.who /\ (v.form = "mapped" <=> w.form = "mapped")
      BY <2>2
    <2>5. Meaning(validator, v) = Meaning(validator, w)
            <=> v.who = w.who /\ (v.form = "mapped" <=> w.form = "mapped")
      BY <2>3
    <2> QED
      BY <2>4, <2>5
  <1>5. CASE validator \in {"opaque", "api_key", "user_agent"}
    <2>1. Folded[validator] = {}
      BY <1>5 DEF Folded
    <2>2. Normalize(validator, v) = v /\ Normalize(validator, w) = w
      BY <1>2, <2>1
    <2>3. Meaning(validator, v) = <<v.who, v.form>> /\ Meaning(validator, w) = <<w.who, w.form>>
      BY <1>5 DEF Meaning
    <2> QED
      BY <1>1, <2>2, <2>3
  <1> QED
    BY <1>3, <1>4, <1>5 DEF Kept

(* The types a key holds are those whose callers are counted. *)
LEMMA KeyContents ==
  ASSUME RulesSound, phase = "up", NEW client \in Clients, NEW endpoint, NEW ids \in ValidRequests
  PROVE  LET rule == Decider(client, endpoint, ids)
             T == CountedTypes(rule, ids)
         IN  /\ rule # None => rule \in cache.table
             /\ T \subseteq DOMAIN ids
             /\ \A x \in T : /\ x \in IdTypes /\ ids[x] \in Values
                             /\ Normalize(Validator[x], ids[x]) # Invalid
             /\ Counted(client, endpoint, ids)
                  = [rule |-> rule, callers |-> [x \in T |-> Meaning(Validator[x], ids[x])]]
  <1> DEFINE resolved == ResolveRule(cache.index, client, endpoint, DOMAIN ids)
             rule == Decider(client, endpoint, ids)
             T == CountedTypes(rule, ids)
             all == rule = None \/ rule \in {r \in cache.table : IsGlobal(r)}
             types == {x \in DOMAIN ids : all \/ x \in rule.sig}
  <1>1. rule # None => rule = resolved
    BY DEF Decider
  <1>2. rule # None => rule \in cache.table /\ rule.sig \subseteq DOMAIN ids
    BY <1>1, ResolvedRule DEF RulesSound
  <1>3. Counted(client, endpoint, ids)
          = [rule |-> rule, callers |-> [x \in types |-> Meaning(Validator[x], ids[x])]]
    BY DEF Counted
  <1> HIDE DEF rule
  <1>4. T = types /\ T \subseteq DOMAIN ids
    BY <1>2 DEF CountedTypes, IsGlobal
  <1>5. \A x \in DOMAIN ids : /\ x \in IdTypes /\ ids[x] \in Values
                              /\ Normalize(Validator[x], ids[x]) # Invalid
    BY DEF ValidRequests, Requests, Normalized
  <1> HIDE DEF T, types
  <1>6. Counted(client, endpoint, ids)
          = [rule |-> rule, callers |-> [x \in T |-> Meaning(Validator[x], ids[x])]]
    BY <1>3, <1>4
  <1>7. \A x \in T : /\ x \in IdTypes /\ ids[x] \in Values
                     /\ Normalize(Validator[x], ids[x]) # Invalid
    BY <1>4, <1>5
  <1> QED
    BY <1>2, <1>4, <1>6, <1>7 DEF rule, T

(* Two requests of a client have one key if and only if they count the same. *)
LEMMA SameKeySameCallers ==
  ASSUME RulesSound, phase = "up", NEW client \in Clients, NEW endpoint,
         NEW ids \in ValidRequests, NEW jds \in ValidRequests
  PROVE  KeyFor(client, endpoint, ids) = KeyFor(client, endpoint, jds)
           <=> Counted(client, endpoint, ids) = Counted(client, endpoint, jds)
  <1> DEFINE r == Decider(client, endpoint, ids)
             s == Decider(client, endpoint, jds)
             R == CountedTypes(r, ids)
             S == CountedTypes(s, jds)
             digest(T, q) == [x \in T |-> Normalize(Validator[x], q[x])]
             callers(T, q) == [x \in T |-> Meaning(Validator[x], q[x])]
             scope(rule) == IF rule = None THEN DefaultScope(client) ELSE rule.id
             algo(rule) == IF rule = None THEN DefaultAlgo ELSE rule.algo
  <1>1. /\ KeyFor(client, endpoint, ids)
             = [algo |-> algo(r), scope |-> scope(r),
                identifier |-> [signature |-> R, digest |-> digest(R, ids)]]
        /\ KeyFor(client, endpoint, jds)
             = [algo |-> algo(s), scope |-> scope(s),
                identifier |-> [signature |-> S, digest |-> digest(S, jds)]]
    BY DEF KeyFor, ClientIdentifier, Normalized
  <1>2. /\ r # None => r \in cache.table
        /\ \A x \in R : /\ x \in IdTypes /\ ids[x] \in Values
                        /\ Normalize(Validator[x], ids[x]) # Invalid
        /\ Counted(client, endpoint, ids) = [rule |-> r, callers |-> callers(R, ids)]
    BY KeyContents
  <1>3. /\ s # None => s \in cache.table
        /\ \A x \in S : /\ x \in IdTypes /\ jds[x] \in Values
                        /\ Normalize(Validator[x], jds[x]) # Invalid
        /\ Counted(client, endpoint, jds) = [rule |-> s, callers |-> callers(S, jds)]
    BY KeyContents
  <1> HIDE DEF r, s, R, S
  <1>4. scope(r) = scope(s) => r = s
    <2>1. \A rule \in cache.table : rule.id \in RuleIds
      BY DEF RulesSound, TableSound, Rule
    <2>2. DefaultScope(client) \notin RuleIds
      BY CheckPathAssumption DEF DefaultScope
    <2>3. \A x, y \in cache.table : x.id = y.id => x = y
      BY DEF RulesSound, TableSound
    <2> QED
      BY <1>2, <1>3, <2>1, <2>2, <2>3
  <1>5. R = S => (digest(R, ids) = digest(S, jds) <=> callers(R, ids) = callers(S, jds))
    <2> SUFFICES ASSUME R = S
                 PROVE  digest(R, ids) = digest(R, jds) <=> callers(R, ids) = callers(R, jds)
      OBVIOUS
    <2>1. \A x \in R : Normalize(Validator[x], ids[x]) = Normalize(Validator[x], jds[x])
                         <=> Meaning(Validator[x], ids[x]) = Meaning(Validator[x], jds[x])
      <3> SUFFICES ASSUME NEW x \in R
                   PROVE  Normalize(Validator[x], ids[x]) = Normalize(Validator[x], jds[x])
                            <=> Meaning(Validator[x], ids[x]) = Meaning(Validator[x], jds[x])
        OBVIOUS
      <3>1. /\ Validator[x] \in DOMAIN Kept /\ ids[x] \in Values /\ jds[x] \in Values
            /\ Normalize(Validator[x], ids[x]) # Invalid
            /\ Normalize(Validator[x], jds[x]) # Invalid
        BY <1>2, <1>3, CheckPathAssumption
      <3> QED
        BY <3>1, NormalizeFollowsMeaning
    <2>2. digest(R, ids) = digest(R, jds)
            <=> \A x \in R : Normalize(Validator[x], ids[x]) = Normalize(Validator[x], jds[x])
      OBVIOUS
    <2>3. callers(R, ids) = callers(R, jds)
            <=> \A x \in R : Meaning(Validator[x], ids[x]) = Meaning(Validator[x], jds[x])
      OBVIOUS
    <2> QED
      BY <2>1, <2>2, <2>3
  <1>6. callers(R, ids) = callers(S, jds) => R = S
    <2>1. DOMAIN callers(R, ids) = R /\ DOMAIN callers(S, jds) = S
      OBVIOUS
    <2> QED
      BY <2>1
  <1> HIDE DEF digest, callers
  <1>7. KeyFor(client, endpoint, ids) = KeyFor(client, endpoint, jds)
          <=> r = s /\ R = S /\ digest(R, ids) = digest(S, jds)
    BY <1>1, <1>4
  <1>8. Counted(client, endpoint, ids) = Counted(client, endpoint, jds)
          <=> r = s /\ callers(R, ids) = callers(S, jds)
    BY <1>2, <1>3
  <1> QED
    BY <1>5, <1>6, <1>7, <1>8

(* CountersFollowCallers of check_rate_limit: for any rules, requests and
   notations, two requests that rules decide share a counter if and only if one
   rule decides both and they name the same callers to it. *)
THEOREM KeysFollowCallers == Spec => []CountersFollowCallers
  <1>1. ASSUME RulesSound
        PROVE  CountersFollowCallers
    <2> SUFFICES ASSUME phase = "up", NEW c \in Clients, NEW e \in Endpoints,
                        NEW ids \in ValidRequests, NEW jds \in ValidRequests
                 PROVE  KeyFor(c, e, ids) = KeyFor(c, e, jds)
                          <=> Counted(c, e, ids) = Counted(c, e, jds)
      BY DEF CountersFollowCallers
    <2> QED
      BY <1>1, SameKeySameCallers
  <1>2. RulesSound /\ ChecksOwn /\ [Next]_vars => (RulesSound /\ ChecksOwn)'
    BY RulesStep
  <1> QED
    BY <1>1, <1>2, RulesSoundInit, PTL DEF Spec

-----------------------------------------------------------------------------
(* Scripts: whatever is missing from the local cache is still to be registered
   by the loader that cleared it last. *)

LoaderStates == [pc : {"idle", "clear", "load", "store"}, next : 1 .. Len(Scripts)]

(* Loader state l will register the script at position i without clearing the
   cache before. *)
WillRegister(l, i) == l.pc \in {"load", "store"} /\ l.next <= i

FillerFills ==
  \A i \in DOMAIN Scripts : Scripts[i] \in script_cache \/ WillRegister(loader[filler], i)

LoadersSound ==
  /\ loader \in [Loaders -> LoaderStates]
  /\ filler \in Loaders \cup {"nobody"}
  /\ \A x \in Loaders : loader[x].pc \in {"idle", "clear"} => loader[x].next = 1
  /\ phase \in {"down", "scripts", "rules", "up"}
  /\ loader["boot"].pc \in IF phase = "scripts" THEN {"load", "store"} ELSE {"idle"}
  /\ phase # "up" => (\A x \in Reloads : loader[x].pc = "idle") /\ filler = "boot"
  /\ phase \in {"down", "scripts"} => \A p \in Polls : poll[p].pc = "idle"
  /\ script_cache \subseteq AllScripts
  /\ phase # "down" /\ ~partial => FillerFills
  /\ poll = [p \in Polls |-> poll[p]]

LEMMA IdleLoaderState ==
  IdleLoader \in LoaderStates /\ IdleLoader.pc = "idle" /\ IdleLoader.next = 1
  BY ScriptLoaderAssumption DEF IdleLoader, LoaderStates

LEMMA LoaderNames ==
  /\ "boot" \in Loaders /\ "boot" \notin Reloads /\ Reloads \subseteq Loaders
  /\ "nobody" \notin Loaders
  BY ScriptLoaderAssumption DEF Loaders

LEMMA LoadersComplete ==
  ASSUME LoadersSound
  PROVE  ScriptsComplete
  <1> SUFFICES ASSUME phase = "up", ~Reloading, ~partial
               PROVE  script_cache = AllScripts
    BY DEF ScriptsComplete
  <1>1. \A x \in Loaders : loader[x].pc = "idle"
    BY DEF LoadersSound, Reloading, Loaders
  <1>2. filler \in Loaders
    BY DEF LoadersSound, partial
  <1>3. \A i \in DOMAIN Scripts : Scripts[i] \in script_cache
    BY <1>1, <1>2 DEF LoadersSound, FillerFills, WillRegister
  <1> QED
    BY <1>3 DEF LoadersSound, AllScripts

LEMMA LoadersSoundInit == Init => LoadersSound
  <1> SUFFICES ASSUME Init
               PROVE  LoadersSound
    OBVIOUS
  <1>1. /\ loader = [x \in Loaders |-> IdleLoader] /\ script_cache = {} /\ phase = "down"
        /\ filler = "boot" /\ poll = [p \in Polls |-> IdlePoll]
    BY DEF Init, LoaderInit, PollerInit
  <1>2. IdlePoll.pc = "idle"
    BY DEF IdlePoll
  <1> QED
    BY <1>1, <1>2, IdleLoaderState, LoaderNames DEF LoadersSound

(* One loader goes from its state to l. *)
LEMMA LoaderMoves ==
  ASSUME LoadersSound, NEW x \in Loaders, NEW l \in LoaderStates,
         loader' = [loader EXCEPT ![x] = l]
  PROVE  /\ loader' \in [Loaders -> LoaderStates]
         /\ \A y \in Loaders : loader'[y] = IF y = x THEN l ELSE loader[y]
  BY DEF LoadersSound

(* SCRIPT LOAD is sent: the loader is still at its script. *)
LEMMA SendSound ==
  ASSUME LoadersSound, NEW x \in Loaders, SendScript(x)
  PROVE  \E l \in LoaderStates :
           /\ loader' = [loader EXCEPT ![x] = l] /\ l.pc = "store"
           /\ UNCHANGED <<script_cache, filler>>
           /\ filler \in Loaders /\ FillerFills => FillerFills'
  <1> DEFINE l == [loader[x] EXCEPT !.pc = "store"]
  <1>1. loader[x] \in LoaderStates /\ loader[x].pc = "load"
    BY DEF LoadersSound, SendScript
  <1>2. l \in LoaderStates /\ l.pc = "store" /\ l.next = loader[x].next
    BY <1>1 DEF LoaderStates
  <1>3. loader' = [loader EXCEPT ![x] = l] /\ UNCHANGED <<script_cache, filler>>
    BY DEF SendScript
  <1> HIDE DEF l
  <1>4. \A y \in Loaders : loader'[y] = IF y = x THEN l ELSE loader[y]
    BY <1>2, <1>3, LoaderMoves
  <1>5. filler \in Loaders /\ FillerFills => FillerFills'
    BY <1>1, <1>2, <1>3, <1>4 DEF FillerFills, WillRegister
  <1> QED
    BY <1>2, <1>3, <1>5

(* The answer is there: the script is in the cache, the later ones are still to
   come. *)
LEMMA StoreSound ==
  ASSUME LoadersSound, NEW x \in Loaders, StoreScript(x)
  PROVE  /\ \E l \in LoaderStates :
              /\ loader' = [loader EXCEPT ![x] = l]
              /\ l.pc \in {"idle", "load"} /\ (l.pc # "load" => l = IdleLoader)
         /\ script_cache' \subseteq AllScripts
         /\ filler' = filler
         /\ filler \in Loaders /\ FillerFills => FillerFills'
  <1> DEFINE n == loader[x].next
             more == [pc |-> "load", next |-> n + 1]
             l == IF n = Len(Scripts) THEN IdleLoader ELSE more
  <1>1. loader[x] \in LoaderStates /\ loader[x].pc = "store" /\ n \in 1 .. Len(Scripts)
    BY DEF LoadersSound, LoaderStates, StoreScript
  <1>2. Len(Scripts) \in Nat /\ DOMAIN Scripts = 1 .. Len(Scripts)
    BY ScriptLoaderAssumption
  <1>3. n # Len(Scripts) => more \in LoaderStates /\ more.pc = "load" /\ more.next = n + 1
    BY <1>1, <1>2 DEF LoaderStates
  <1>4. /\ loader' = [loader EXCEPT ![x] = l] /\ filler' = filler
        /\ script_cache' = script_cache \cup {Scripts[n]}
    BY DEF StoreScript
  <1> HIDE DEF n, more
  <1>5. /\ l \in LoaderStates /\ l.pc \in {"idle", "load"} /\ (l.pc # "load" => l = IdleLoader)
        /\ l.pc = "load" => l.next = n + 1
        /\ l.pc = "idle" => n = Len(Scripts)
    BY <1>3, IdleLoaderState
  <1> HIDE DEF l
  <1>6. \A y \in Loaders : loader'[y] = IF y = x THEN l ELSE loader[y]
    BY <1>4, <1>5, LoaderMoves
  <1>7. ASSUME filler \in Loaders, FillerFills, NEW i \in DOMAIN Scripts
        PROVE  Scripts[i] \in script_cache' \/ WillRegister(loader'[filler], i)
    <2>1. CASE i = n \/ Scripts[i] \in script_cache
      BY <1>4, <2>1
    <2>2. CASE i # n /\ Scripts[i] \notin script_cache
      <3>1. WillRegister(loader[filler], i)
        BY <1>7, <2>2 DEF FillerFills
      <3>2. CASE filler # x
        BY <1>6, <1>7, <3>1, <3>2
      <3>3. CASE filler = x
        <4>1. n <= i /\ i \in 1 .. Len(Scripts)
          BY <1>1, <1>2, <3>1, <3>3 DEF WillRegister, n
        <4>2. n \in Int /\ i \in Int /\ Len(Scripts) \in Int /\ i <= Len(Scripts) /\ i # n
          BY <1>1, <1>2, <2>2, <4>1
        <4>3. n + 1 <= i /\ n # Len(Scripts)
          BY <4>1, <4>2
        <4>4. l.pc = "load" /\ l.next <= i
          BY <1>5, <4>3
        <4> QED
          BY <1>6, <3>3, <4>4 DEF WillRegister
      <3> QED
        BY <3>2, <3>3
    <2> QED
      BY <2>1, <2>2
  <1>8. filler \in Loaders /\ FillerFills => FillerFills'
    BY <1>4, <1>7 DEF FillerFills
  <1>9. script_cache' \subseteq AllScripts
    BY <1>1, <1>2, <1>4 DEF LoadersSound, AllScripts
  <1> QED
    BY <1>4, <1>5, <1>8, <1>9

LEMMA BootSound ==
  ASSUME LoadersSound, Boot
  PROVE  LoadersSound'
  <1> DEFINE l == [loader["boot"] EXCEPT !.pc = "load"]
  <1>1. /\ phase = "down" /\ phase' = "scripts" /\ UNCHANGED <<poll, script_cache, filler>>
        /\ loader' = [loader EXCEPT !["boot"] = l]
    BY DEF Boot, pollerVars
  <1>2. filler = "boot"
    BY <1>1 DEF LoadersSound
  <1>3. loader["boot"] \in LoaderStates /\ loader["boot"].next = 1
    BY <1>1, LoaderNames DEF LoadersSound
  <1>4. l \in LoaderStates /\ l.pc = "load" /\ l.next = 1
    BY <1>3 DEF LoaderStates
  <1> HIDE DEF l
  <1>5. /\ loader' \in [Loaders -> LoaderStates]
        /\ \A y \in Loaders : loader'[y] = IF y = "boot" THEN l ELSE loader[y]
    BY <1>1, <1>4, LoaderMoves, LoaderNames
  <1>6. FillerFills'
    <2>1. \A i \in DOMAIN Scripts : WillRegister(loader'["boot"], i)
      BY <1>4, <1>5, LoaderNames, ScriptLoaderAssumption DEF WillRegister
    <2> QED
      BY <1>1, <1>2, <2>1 DEF FillerFills
  <1> QED
    BY <1>1, <1>2, <1>4, <1>5, <1>6, LoaderNames DEF LoadersSound

LEMMA BootScriptsSound ==
  ASSUME LoadersSound, BootScripts
  PROVE  LoadersSound'
  <1>1. /\ SendScript("boot") \/ StoreScript("boot")
        /\ UNCHANGED poll
        /\ phase' = IF loader'["boot"] = IdleLoader THEN "rules" ELSE phase
    BY DEF BootScripts, pollerVars
  <1>2. loader["boot"].pc \in {"load", "store"}
    BY <1>1 DEF SendScript, StoreScript
  <1>3. phase = "scripts" /\ filler = "boot" /\ ~partial /\ FillerFills
    BY <1>2, LoaderNames DEF LoadersSound, partial
  <1>4. \E l \in LoaderStates :
              /\ loader' = [loader EXCEPT !["boot"] = l]
              /\ l.pc \in {"idle", "load", "store"} /\ (l.pc = "idle" => l = IdleLoader)
    BY <1>1, LoaderNames, SendSound, StoreSound
  <1>5. PICK l \in LoaderStates :
              /\ loader' = [loader EXCEPT !["boot"] = l]
              /\ l.pc \in {"idle", "load", "store"} /\ (l.pc = "idle" => l = IdleLoader)
    BY <1>4
  <1>6. script_cache' \subseteq AllScripts /\ filler' = filler /\ FillerFills'
    BY <1>1, <1>3, LoaderNames, SendSound, StoreSound DEF LoadersSound
  <1>7. /\ loader' \in [Loaders -> LoaderStates]
        /\ \A y \in Loaders : loader'[y] = IF y = "boot" THEN l ELSE loader[y]
    BY <1>5, LoaderMoves, LoaderNames
  <1>8. phase' = IF l.pc = "idle" THEN "rules" ELSE "scripts"
    BY <1>1, <1>3, <1>5, <1>7, IdleLoaderState, LoaderNames
  <1> QED
    BY <1>1, <1>3, <1>5, <1>6, <1>7, <1>8, IdleLoaderState, LoaderNames DEF LoadersSound

LEMMA ReloadSound ==
  ASSUME LoadersSound, NEW x \in Reloads, Reload(x)
  PROVE  LoadersSound'
  <1>1. phase = "up" /\ phase' = phase /\ poll' = poll
    BY DEF Reload, pollerVars
  <1>2. x \in Loaders /\ x # "boot" /\ "boot" \in Loaders /\ loader[x] \in LoaderStates
    BY LoaderNames DEF LoadersSound
  <1>3. ASSUME NEW l \in LoaderStates, loader' = [loader EXCEPT ![x] = l],
               l.pc \in {"idle", "clear"} => l.next = 1, script_cache' \subseteq AllScripts,
               filler' \in Loaders \cup {"nobody"}, filler' # "nobody" => FillerFills'
        PROVE  LoadersSound'
    <2>1. /\ loader' \in [Loaders -> LoaderStates]
          /\ \A y \in Loaders : loader'[y] = IF y = x THEN l ELSE loader[y]
      BY <1>2, <1>3, LoaderMoves
    <2> QED
      BY <1>1, <1>2, <1>3, <2>1 DEF LoadersSound, partial
  <1>4. filler \in Loaders \cup {"nobody"} /\ (filler \in Loaders => FillerFills)
    BY <1>1, LoaderNames DEF LoadersSound, partial
  <1>5. CASE Flush(x)
    <2>0. /\ loader[x].pc = "idle" /\ loader[x].next = 1
          /\ UNCHANGED <<script_cache, filler>>
      BY <1>2, <1>5 DEF Flush, LoadersSound
    <2>1. CASE UNCHANGED loader
      BY <1>1, <2>0, <2>1 DEF LoadersSound, FillerFills, partial
    <2>2. CASE loader' = [loader EXCEPT ![x].pc = "clear"]
      <3> DEFINE l == [loader[x] EXCEPT !.pc = "clear"]
      <3>1. l \in LoaderStates /\ l.pc = "clear" /\ l.next = 1
        BY <1>2, <2>0 DEF LoaderStates
      <3>2. loader' = [loader EXCEPT ![x] = l]
        BY <2>2
      <3> HIDE DEF l
      <3>3. \A y \in Loaders : loader'[y] = IF y = x THEN l ELSE loader[y]
        BY <1>2, <3>1, <3>2, LoaderMoves
      <3>4. filler' # "nobody" => FillerFills'
        BY <1>4, <2>0, <3>1, <3>3 DEF FillerFills, WillRegister
      <3>5. script_cache' \subseteq AllScripts
        BY <2>0 DEF LoadersSound
      <3> QED
        BY <1>3, <1>4, <2>0, <3>1, <3>2, <3>4, <3>5
    <2> QED
      BY <1>5, <2>1, <2>2 DEF Flush
  <1>6. CASE Clear(x)
    <2> DEFINE l == [loader[x] EXCEPT !.pc = "load"]
    <2>1. /\ loader[x].pc = "clear" /\ loader[x].next = 1 /\ script_cache' = {}
          /\ loader' = [loader EXCEPT ![x] = l] /\ filler' = x
      BY <1>2, <1>6 DEF Clear, LoadersSound
    <2>2. l \in LoaderStates /\ l.pc = "load" /\ l.next = 1
      BY <1>2, <2>1 DEF LoaderStates
    <2> HIDE DEF l
    <2>3. loader'[x] = l
      BY <1>2, <2>1, <2>2, LoaderMoves
    <2>4. FillerFills'
      <3>1. \A i \in DOMAIN Scripts : WillRegister(loader'[x], i)
        BY <2>2, <2>3, ScriptLoaderAssumption DEF WillRegister
      <3> QED
        BY <2>1, <3>1 DEF FillerFills
    <2> QED
      BY <1>2, <1>3, <2>1, <2>2, <2>4
  <1>7. CASE SendScript(x)
    <2>1. PICK l \in LoaderStates :
                /\ loader' = [loader EXCEPT ![x] = l] /\ l.pc = "store"
                /\ UNCHANGED <<script_cache, filler>>
                /\ filler \in Loaders /\ FillerFills => FillerFills'
      BY <1>2, <1>7, SendSound
    <2>2. script_cache' \subseteq AllScripts
      BY <2>1 DEF LoadersSound
    <2> QED
      BY <1>3, <1>4, <2>1, <2>2
  <1>8. CASE StoreScript(x)
    <2>1. PICK l \in LoaderStates :
                /\ loader' = [loader EXCEPT ![x] = l]
                /\ l.pc \in {"idle", "load"} /\ (l.pc # "load" => l = IdleLoader)
      BY <1>2, <1>8, StoreSound
    <2>2. /\ script_cache' \subseteq AllScripts /\ filler' = filler
          /\ filler \in Loaders /\ FillerFills => FillerFills'
      BY <1>2, <1>8, StoreSound
    <2> QED
      BY <1>3, <1>4, <2>1, <2>2, IdleLoaderState
  <1>9. CASE RegisterFails(x)
    <2>1. /\ loader' = [loader EXCEPT ![x] = IdleLoader]
          /\ filler' = IF filler = x THEN "nobody" ELSE filler
          /\ script_cache' = script_cache
      BY <1>9 DEF RegisterFails
    <2>2. script_cache' \subseteq AllScripts
      BY <2>1 DEF LoadersSound
    <2>3. \A y \in Loaders : y # x => loader'[y] = loader[y]
      BY <1>2, <2>1, IdleLoaderState, LoaderMoves
    <2>4. filler' # "nobody" => FillerFills'
      BY <1>4, <2>1, <2>3 DEF FillerFills
    <2> QED
      BY <1>3, <1>4, <2>1, <2>2, <2>4, IdleLoaderState
  <1> QED
    BY <1>5, <1>6, <1>7, <1>8, <1>9 DEF Reload

LEMMA LoadersStep ==
  ASSUME LoadersSound, [Next]_vars
  PROVE  LoadersSound'
  <1>1. ASSUME UNCHANGED <<poll, phase, script_cache, loader, filler>>
        PROVE  LoadersSound'
    BY <1>1 DEF LoadersSound, FillerFills, partial
  <1>2. CASE EditRules
    BY <1>1, <1>2 DEF EditRules, Commit, loaderVars
  <1>3. ASSUME NEW p \in Polls, PollFetch(p) \/ PollLoad(p) \/ PollFailure(p)
        PROVE  LoadersSound'
    <2>1. PICK new : poll' = [poll EXCEPT ![p] = new]
      BY <1>3 DEF PollFetch, PollLoad, PollFailure, Fetch, Load, PollFails
    <2>2. phase \in {"rules", "up"} /\ phase' \in {phase, "up"}
      <3>1. CASE PollFetch(p)
        BY <3>1 DEF PollFetch
      <3>2. CASE PollLoad(p)
        BY <3>2 DEF PollLoad, Load, LoadersSound
      <3>3. CASE PollFailure(p)
        BY <3>3 DEF PollFailure
      <3> QED
        BY <1>3, <3>1, <3>2, <3>3
    <2>3. UNCHANGED <<script_cache, loader, filler>>
      BY <1>3 DEF PollFetch, PollLoad, PollFailure, loaderVars
    <2>4. poll' = [q \in Polls |-> poll'[q]]
      BY <2>1 DEF LoadersSound
    <2> QED
      BY <2>2, <2>3, <2>4 DEF LoadersSound, FillerFills, partial
  <1>4. CASE Crash
    <2>1. /\ loader' = [x \in Loaders |-> IdleLoader] /\ script_cache' = {} /\ phase' = "down"
          /\ filler' = "boot" /\ poll' = [p \in Polls |-> IdlePoll]
      BY <1>4 DEF Crash, LoaderCrash, PollerCrash
    <2>2. IdlePoll.pc = "idle"
      BY DEF IdlePoll
    <2> QED
      BY <2>1, <2>2, IdleLoaderState, LoaderNames DEF LoadersSound
  <1>5. CASE RedisChanges
    BY <1>1, <1>5 DEF RedisChanges, RedisFails, RedisReturns, pollerVars
  <1>6. CASE Boot \/ BootScripts
    BY <1>6, BootSound, BootScriptsSound
  <1>7. CASE \E x \in Reloads : Reload(x)
    BY <1>7, ReloadSound
  <1>8. CASE \E t \in Checks, c \in Clients, e \in Endpoints, ids \in ValidRequests :
               Arrive(t, c, e, ids)
    BY <1>1, <1>8 DEF Arrive, pollerVars, loaderVars
  <1>9. CASE \E t \in Checks : EvalSha(t) \/ LoadScript(t) \/ EvalShaAgain(t) \/ FailOpen(t)
    BY <1>1, <1>9 DEF EvalSha, LoadScript, EvalShaAgain, FailOpen, LoadRemote, pollerVars,
                      loaderVars
  <1>10. CASE UNCHANGED vars
    BY <1>1, <1>10 DEF vars, pollerVars, loaderVars
  <1> QED
    BY <1>2, <1>3, <1>4, <1>5, <1>6, <1>7, <1>8, <1>9, <1>10 DEF Next

(* ScriptsComplete of script_loader.py, for any scripts and any number of
   overlapping reloads, outages and restarts. *)
THEOREM NoScriptLost == Spec => []ScriptsComplete
  <1>1. LoadersSound => ScriptsComplete
    BY LoadersComplete
  <1>2. LoadersSound /\ [Next]_vars => LoadersSound'
    BY LoadersStep
  <1> QED
    BY <1>1, <1>2, LoadersSoundInit, PTL DEF Spec

(* The only ways a check can end in an error. *)
LEMMA ErrorsHaveCauses ==
  ASSUME RulesSound, ChecksOwn, LoadersSound, Next, NEW t \in Checks,
         check'[t] # check[t], check'[t] = Answered("error")
  PROVE  \/ Reloading \/ partial
         \/ /\ check[t].pc = "again" /\ redis_up /\ check[t].key.algo \notin redis_scripts
  <1>0. \A a : Answered(a).pc = "idle" /\ Answered(a).answer = a
    BY DEF Answered
  <1>1. ASSUME NEW u \in Checks, NEW answer, check' = [check EXCEPT ![u] = answer]
        PROVE  u = t /\ answer = Answered("error")
    BY <1>1 DEF ChecksOwn
  <1>2. CASE UNCHANGED check
    BY <1>2
  <1>3. CASE Crash
    <2>1. check'[t] = Answered("none")
      BY <1>3 DEF Crash
    <2> QED
      BY <1>0, <2>1
  <1>4. ASSUME NEW u \in Checks, NEW c \in Clients, NEW e \in Endpoints, NEW ids,
               Arrive(u, c, e, ids)
        PROVE  Reloading \/ partial
    <2> DEFINE key == KeyFor(c, e, ids)
               way == [pc |-> "evalsha", client |-> c, key |-> key]
               answer == IF key.algo \in script_cache THEN way ELSE Answered("error")
    <2>1. phase = "up" /\ check' = [check EXCEPT ![u] = answer]
      BY <1>4 DEF Arrive
    <2>2. key.algo \in AllScripts
      BY <2>1, KeyOwned, CheckPathAssumption
    <2>3. way.pc = "evalsha"
      OBVIOUS
    <2> HIDE DEF key, way
    <2>4. answer = Answered("error")
      BY <1>1, <2>1
    <2>5. key.algo \notin script_cache
      BY <1>0, <2>3, <2>4
    <2> QED
      BY <2>1, <2>2, <2>5, LoadersComplete DEF ScriptsComplete
  <1>5. ASSUME NEW u \in Checks, EvalSha(u)
        PROVE  FALSE
    <2> DEFINE moved == [check[u] EXCEPT !.pc = "load"]
               answer == IF check[u].key.algo \in redis_scripts
                         THEN Answered("decided") ELSE moved
    <2>1. check[u].pc = "evalsha" /\ check' = [check EXCEPT ![u] = answer]
      BY <1>5 DEF EvalSha
    <2>2. moved.pc = "load"
      <3>1. check[u] = [pc |-> check[u].pc, client |-> check[u].client, key |-> check[u].key]
        BY <2>1 DEF ChecksOwn, UnderWay
      <3> QED
        BY <3>1
    <2> HIDE DEF moved
    <2>3. answer = Answered("error")
      BY <1>1, <2>1
    <2> QED
      BY <1>0, <2>2, <2>3
  <1>6. ASSUME NEW u \in Checks, LoadScript(u)
        PROVE  FALSE
    <2> DEFINE moved == [check[u] EXCEPT !.pc = "again"]
    <2>1. check[u].pc = "load" /\ check' = [check EXCEPT ![u] = moved]
      BY <1>6 DEF LoadScript
    <2>2. moved.pc = "again"
      <3>1. check[u] = [pc |-> check[u].pc, client |-> check[u].client, key |-> check[u].key]
        BY <2>1 DEF ChecksOwn, UnderWay
      <3> QED
        BY <3>1
    <2> HIDE DEF moved
    <2>3. moved = Answered("error")
      BY <1>1, <2>1
    <2> QED
      BY <1>0, <2>2, <2>3
  <1>7. ASSUME NEW u \in Checks, EvalShaAgain(u)
        PROVE  check[t].pc = "again" /\ redis_up /\ check[t].key.algo \notin redis_scripts
    <2> DEFINE word == IF check[u].key.algo \in redis_scripts THEN "decided" ELSE "error"
    <2>1. /\ check[u].pc = "again" /\ redis_up
          /\ check' = [check EXCEPT ![u] = Answered(word)]
      BY <1>7 DEF EvalShaAgain
    <2>2. u = t /\ Answered(word) = Answered("error")
      BY <1>1, <2>1
    <2>3. word = "error"
      BY <1>0, <2>2
    <2> QED
      BY <2>1, <2>2, <2>3
  <1>8. ASSUME NEW u \in Checks, FailOpen(u)
        PROVE  FALSE
    <2>1. Answered("degraded") = Answered("error")
      BY <1>1, <1>8 DEF FailOpen
    <2> QED
      BY <1>0, <2>1
  <1>9. CASE \/ EditRules \/ RedisChanges \/ Boot \/ BootScripts
             \/ \E p \in Polls : PollFetch(p) \/ PollLoad(p) \/ PollFailure(p)
             \/ \E x \in Reloads : Reload(x)
    BY <1>2, <1>9 DEF EditRules, RedisChanges, Boot, BootScripts, PollFetch, PollLoad,
                      PollFailure, Reload
  <1> QED
    BY <1>3, <1>4, <1>5, <1>6, <1>7, <1>8, <1>9 DEF Next

(* OutagesFailOpen of check_rate_limit and script_loader.py, for any number of
   checks, reloads, outages and restarts. *)
THEOREM OnlyReloadsFail == Spec => OutagesFailOpen
  <1> DEFINE IInv == RulesSound /\ ChecksOwn /\ LoadersSound
  <1>1. Init => IInv
    BY RulesSoundInit, LoadersSoundInit
  <1>2. IInv /\ [Next]_vars => IInv'
    BY RulesStep, LoadersStep
  <1>3. IInv /\ [Next]_vars =>
          [\A t \in Checks :
             check'[t] # check[t] /\ check'[t] = Answered("error") =>
               \/ Reloading \/ partial
               \/ check[t].pc = "again" /\ redis_up /\ check[t].key.algo \notin redis_scripts]_vars
    BY ErrorsHaveCauses
  <1> QED
    BY <1>1, <1>2, <1>3, PTL DEF Spec, OutagesFailOpen

-----------------------------------------------------------------------------

(* The environment of the check path is no narrower than RuleTable, which
   RuleStore implements: what is proved here of any edits holds of the commits
   of its requests. *)

Content(r) ==
  [client |-> r.client, endpoint |-> r.endpoint, sig |-> r.sig, priority |-> r.priority,
   algo |-> r.algo, builds |-> r.builds, status |-> r.status]

LEMMA StoredContent ==
  ASSUME NEW r \in Rule
  PROVE  Content(r) \in RuleContent /\ Stored(r.id, Content(r)) = r
  BY DEF Content, RuleContent, Stored, Rule

(* Any table whose ids are unique is one of Tables. *)
LEMMA AnyTable ==
  ASSUME Rows = RuleContent, NEW table \in SUBSET Rule,
         \A r, t \in table : r.id = t.id => r = t
  PROVE  table \in Tables
  <1> DEFINE row(id) == CHOOSE r \in table : r.id = id
             rows == [id \in Ids(table) |-> Content(row(id))]
  <1>1. \A r \in table : row(r.id) = r /\ r.id \in Ids(table)
    BY DEF Ids
  <1>2. \A id \in Ids(table) : row(id) \in table /\ row(id).id = id
    BY DEF Ids
  <1> HIDE DEF row
  <1>3. Ids(table) \in SUBSET RuleIds
    BY DEF Ids, Rule
  <1>4. rows \in [Ids(table) -> Rows]
    BY <1>2, StoredContent
  <1>5. \A id \in Ids(table) : rows[id] = Content(row(id))
    OBVIOUS
  <1> HIDE DEF rows
  <1>6. \A id \in Ids(table) : Stored(id, rows[id]) = row(id)
    BY <1>2, <1>5, StoredContent
  <1>7. {Stored(id, rows[id]) : id \in Ids(table)} = table
    BY <1>1, <1>2, <1>6
  <1> QED
    BY <1>3, <1>4, <1>7 DEF Tables

(* Every commit that RuleTable allows, of one rule or of many, is one of the
   edits that the theorems of this module cover. *)
THEOREM EveryCommitCovered ==
  ASSUME Rows = RuleContent, edits < MaxEdits, edits' = edits + 1, Table!Next,
         UNCHANGED <<poll, cache, loaderVars, phase, boots, check>>
  PROVE  EditRules
  <1>1. db' \in SUBSET Rule /\ \A r, t \in db' : r.id = t.id => r = t
    BY DEF Table!Next, Table!Unique
  <1>2. db' \in Tables
    BY <1>1, AnyTable
  <1>3. Commit(db')
    BY DEF Commit
  <1> QED
    BY <1>2, <1>3 DEF EditRules

=============================================================================
