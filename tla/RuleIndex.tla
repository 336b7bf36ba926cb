----------------------------- MODULE RuleIndex -----------------------------
(***************************************************************************)
(* RulesCache.load_all and RateLimiterService._resolve_rule: the indexes   *)
(* built from the rows of a poll, and the rule a request is resolved to.   *)
(*                                                                         *)
(* A signature is a set of identifier types, {} for a `global' rule.       *)
(* Types are naturals, ordered as their names are.                         *)
(***************************************************************************)
EXTENDS Integers, Sequences, FiniteSets

CONSTANTS
  RuleIds, Clients, Endpoints,
  IdTypes,        \* identifier types
  Priorities,
  Algorithms,
  None            \* no rule

ASSUME RuleIndexAssumption ==
  /\ IdTypes \subseteq Nat /\ IsFiniteSet(IdTypes)
  /\ Priorities \subseteq Int

(* _serialize_rule; `builds' tells whether build_algorithm_config accepts the
   algorithm and params. *)
Rule ==
  [id : RuleIds, client : Clients, endpoint : Endpoints,
   sig : SUBSET IdTypes, priority : Priorities, algo : Algorithms,
   builds : BOOLEAN, status : {"active", "inactive"}]

IsGlobal(rule) == rule.sig = {}

ScopeOf(rule) == <<rule.client, rule.endpoint>>

(* identifier_signature order: of two sets of equal size, the one that has
   the first type in which they differ comes first. *)
SigLess(s, t) ==
  LET d == (s \ t) \cup (t \ s)
  IN  \E x \in d : x \in s /\ \A y \in d : x <= y

(* A slip: lower priorities come first. *)
SortsBeforeLowPriority(a, b) ==
  \/ Cardinality(a.sig) > Cardinality(b.sig)
  \/ /\ Cardinality(a.sig) = Cardinality(b.sig)
     /\ \/ a.priority < b.priority
        \/ a.priority = b.priority /\ SigLess(a.sig, b.sig)

(* _sort_key: (-len(engine_identifier_types), -priority, identifier_signature) *)
SortsBefore(a, b) ==
  \/ Cardinality(a.sig) > Cardinality(b.sig)
  \/ /\ Cardinality(a.sig) = Cardinality(b.sig)
     /\ \/ a.priority > b.priority
        \/ a.priority = b.priority /\ SigLess(a.sig, b.sig)

(* The lists in which the members of a finite set may come. *)
Listings(S) ==
  {rows \in [1 .. Cardinality(S) -> S] : \A r \in S : \E i \in DOMAIN rows : rows[i] = r}

(* candidates.sort(key=_sort_key) *)
Sortings(S) ==
  {rows \in Listings(S) : \A i, j \in DOMAIN rows : i < j => ~SortsBefore(rows[j], rows[i])}

ScopesOf(rules) == {ScopeOf(rule) : rule \in rules}

InScope(rules, scope) == {rule \in rules : ScopeOf(rule) = scope}

(* load_all: the active rules by scope, the global one (the last, if there
   were several) apart and the others in sort order.  The query has no ORDER
   BY: rows come in any order, and these are all the indexes they may lead
   to. *)
LoadAll(table) ==
  LET active == {rule \in table : rule.status = "active"}
      globals == {rule \in active : IsGlobal(rule)}
      others == active \ globals
      lists(scope) == Sortings(InScope(others, scope))
  IN  [candidates : {c \in [ScopesOf(others) -> UNION {lists(s) : s \in ScopesOf(others)}] :
                       \A scope \in DOMAIN c : c[scope] \in lists(scope)},
       global : {g \in [ScopesOf(globals) -> globals] :
                   \A scope \in DOMAIN g : ScopeOf(g[scope]) = scope}]

EmptyIndex == [candidates |-> <<>>, global |-> <<>>]

(* get_candidates *)
GetCandidates(index, scope) ==
  IF scope \in DOMAIN index.candidates THEN index.candidates[scope] ELSE <<>>

(* get_global *)
GetGlobal(index, scope) ==
  IF scope \in DOMAIN index.global THEN index.global[scope] ELSE None

(* _resolve_rule: the first candidate whose types were all provided, else the
   global rule, else none. *)
ResolveRule(index, client, endpoint, provided) ==
  LET candidates == GetCandidates(index, <<client, endpoint>>)
      fit == {i \in DOMAIN candidates : candidates[i].sig \subseteq provided}
  IN  IF fit # {} THEN candidates[CHOOSE i \in fit : \A j \in fit : i <= j]
      ELSE GetGlobal(index, <<client, endpoint>>)

-----------------------------------------------------------------------------

(* README.md "Resolution order": among the active non-global rules of the
   client at the endpoint whose types were all provided, none has more types
   than the chosen one, none of as many types has a higher priority, and none
   of those an earlier signature; the global rule only if there is none. *)
Decides(rule, table, client, endpoint, provided) ==
  LET fit == {r \in table :
                /\ r.status = "active" /\ r.client = client /\ r.endpoint = endpoint
                /\ r.sig \subseteq provided}
  IN  IF fit = {} THEN rule = None
      ELSE /\ rule \in fit
           /\ \A r \in fit \ {rule} :
                \/ Cardinality(r.sig) < Cardinality(rule.sig)
                \/ /\ Cardinality(r.sig) = Cardinality(rule.sig)
                   /\ \/ r.priority < rule.priority
                      \/ r.priority = rule.priority /\ SigLess(rule.sig, r.sig)

=============================================================================
