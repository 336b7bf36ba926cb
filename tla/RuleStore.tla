----------------------------- MODULE RuleStore -----------------------------
(***************************************************************************)
(* Rules and groups in PostgreSQL, as RuleService and RuleGroupService     *)
(* change them through the REST API.                                       *)
(*                                                                         *)
(* Every request has its own session and runs at READ COMMITTED: it reads  *)
(* committed rows into objects, awaits, and writes at commit.  SQLAlchemy  *)
(* then emits, for each object, an UPDATE of the columns whose value       *)
(* differs from the one it loaded; other columns keep what they meanwhile  *)
(* became.  A commit is one step here: the row locks it takes are held to  *)
(* its end.  Requests that write nothing that depends on an earlier read   *)
(* are one step as a whole.                                                *)
(*                                                                         *)
(* A request that is refused changes nothing and is not a step; one that   *)
(* is refused at its commit is its transaction's Abort.                    *)
(***************************************************************************)
EXTENDS Integers, FiniteSets

CONSTANTS
  RuleIds, GroupIds,    \* the UUIDs there are; none is used twice
  Txns,                 \* requests that can be under way at the same time
  Clients, Endpoints,
  Signatures,           \* identifier_signature (and identifier_types)
  Algorithms,
  Values,               \* values of an algorithm parameter
  Priorities,
  None,                 \* SQL NULL, an absent optional field, no object
  Ops,                  \* the kinds of requests of this model
  MaxRequests           \* bound on the requests with more than one step

OpNames == {"create_rule", "update_rule", "delete_rule", "create_group",
            "update_group", "add_members", "delete_group", "detach_rule",
            "move_to_group"}

ASSUME RuleStoreAssumption ==
  /\ Ops \subseteq OpNames
  /\ MaxRequests \in Nat
  /\ RuleIds \cap GroupIds = {}
  /\ None \notin RuleIds \cup GroupIds \cup Txns \cup Algorithms \cup Priorities
  /\ None \notin OpNames
  /\ None \notin {"active", "inactive"}

VARIABLES
  rules,      \* the rows of table rules
  groups,     \* the rows of table rule_groups
  live,       \* ids of the rows there are now
  used,       \* ids of the rows there ever were
  lock,       \* who holds the group's row lock (SELECT ... FOR UPDATE)
  tx,         \* the requests under way
  started     \* how many have been started

vars == <<rules, groups, live, used, lock, tx, started>>

-----------------------------------------------------------------------------
(* Params are what an algorithm of some kind understands; an override set
   holds at most one value, which replaces the base value.  Overrides with keys
   that the base does not have are refused by validate_overrides_or_raise and
   are not among the inputs. *)

Params == [kind : Algorithms, val : Values]

Overrides == {{}} \cup {{v} : v \in Values}

(* build_algorithm_config accepts the params *)
Builds(algo, p) == p.kind = algo

(* compute_effective_params: {**base, **overrides} *)
Effective(base, ov) ==
  IF ov = None \/ ov = {} THEN base ELSE [base EXCEPT !.val = CHOOSE v \in ov : TRUE]

Members(g) == {r \in RuleIds \cap live : rules[r].group = g}

(* ux_rules_active_scope: the active rules, other than those in `but', that
   hold the scope. *)
Holders(client, endpoint, sig, but) ==
  {r \in (RuleIds \cap live) \ but :
     /\ rules[r].client = client
     /\ rules[r].endpoint = endpoint
     /\ rules[r].sig = sig
     /\ rules[r].status = "active"}

(* What the UPDATE of an object loaded as `old' and assigned `new' makes of
   the row it finds. *)
Updated(row, old, new) ==
  [c \in DOMAIN row |-> IF new[c] = old[c] THEN row[c] ELSE new[c]]

(* A slip: no unique index backs up the pre-checks. *)
RowAcceptedNoIndex(r, row) == row.overrides # None => row.group # None

(* The constraints a written row is checked against: CHECK (overrides IS NULL
   OR group_id IS NOT NULL) and, for an active row, the unique scope. *)
RowAccepted(r, row) ==
  /\ row.overrides # None => row.group # None
  /\ row.status = "active" => Holders(row.client, row.endpoint, row.sig, {r}) = {}

NoRow == [client |-> None, endpoint |-> None, sig |-> None, algo |-> None,
          params |-> None, status |-> None, priority |-> None, version |-> 0,
          group |-> None, overrides |-> None]

NoGroup == [client |-> None, sig |-> None, algo |-> None, params |-> None,
            priority |-> None]

Idle == [op |-> None]

-----------------------------------------------------------------------------

Init ==
  /\ rules = [r \in RuleIds |-> NoRow]
  /\ groups = [g \in GroupIds |-> NoGroup]
  /\ live = {}
  /\ used = {}
  /\ lock = [g \in GroupIds |-> None]
  /\ tx = [t \in Txns |-> Idle]
  /\ started = 0

Begin(t, request) ==
  /\ request.op \in Ops
  /\ tx[t] = Idle
  /\ started < MaxRequests
  /\ started' = started + 1
  /\ tx' = [tx EXCEPT ![t] = request]

(* A slip: the row lock survives the transaction. *)
EndKeepsLock(t) == tx' = [tx EXCEPT ![t] = Idle] /\ UNCHANGED <<lock, started>>

(* COMMIT and ROLLBACK release the row locks of the transaction. *)
End(t) ==
  /\ tx' = [tx EXCEPT ![t] = Idle]
  /\ lock' = [g \in GroupIds |-> IF lock[g] = t THEN None ELSE lock[g]]
  /\ UNCHANGED started

(* The transaction is rolled back: the caller sees a 4xx or a 500. *)
Abort(t) ==
  /\ End(t)
  /\ UNCHANGED <<rules, groups, live, used>>

(* A slip: a plain SELECT, which waits for nobody. *)
LockableAlways(g) == TRUE

(* SELECT ... FOR UPDATE returns when nobody holds the row's lock. *)
Lockable(g) == lock[g] = None

NewRow(client, endpoint, sig, algo, params, priority, group, overrides) ==
  [client |-> client, endpoint |-> endpoint, sig |-> sig, algo |-> algo,
   params |-> params, status |-> "active", priority |-> priority, version |-> 1,
   group |-> group, overrides |-> overrides]

(* RuleService.create_rule *)
CreateRule(r, client, endpoint, sig, algo, params, priority) ==
  /\ "create_rule" \in Ops
  /\ r \in RuleIds \ used
  /\ Builds(algo, params)
  /\ Holders(client, endpoint, sig, {}) = {}
  /\ rules' = [rules EXCEPT ![r] =
                 NewRow(client, endpoint, sig, algo, params, priority, None, None)]
  /\ live' = live \cup {r}
  /\ used' = used \cup {r}
  /\ UNCHANGED <<groups, lock, tx, started>>

(* RuleService.delete_rule: a DELETE by id, whatever the row has become *)
DeleteRule(r) ==
  /\ "delete_rule" \in Ops
  /\ r \in RuleIds \cap live
  /\ live' = live \ {r}
  /\ rules' = [rules EXCEPT ![r] = NoRow]
  /\ UNCHANGED <<groups, used, lock, tx, started>>

(* New member rows of group g: one unused id for each endpoint of `ids'. *)
MemberRows(ids, g, grow, overrides) ==
  [r \in RuleIds |->
     IF \E e \in DOMAIN ids : ids[e] = r
     THEN LET e == CHOOSE e \in DOMAIN ids : ids[e] = r
          IN  NewRow(grow.client, e, grow.sig, grow.algo,
                     Effective(grow.params, overrides[e]), grow.priority, g, overrides[e])
     ELSE rules[r]]

(* What create_group and add_members check of the members they are given:
   ids are fresh, overrides build, and no endpoint has an active rule. *)
MembersAccepted(ids, grow, overrides) ==
  /\ \A e \in DOMAIN ids : ids[e] \notin used
  /\ \A e, f \in DOMAIN ids : e # f => ids[e] # ids[f]
  /\ \A e \in DOMAIN ids : Builds(grow.algo, Effective(grow.params, overrides[e]))
  /\ \A e \in DOMAIN ids : Holders(grow.client, e, grow.sig, {}) = {}

IdsOf(ids) == {ids[e] : e \in DOMAIN ids}

(* RuleGroupService.create_group, with its initial members *)
CreateGroup(g, grow, ids, overrides) ==
  /\ "create_group" \in Ops
  /\ g \in GroupIds \ used
  /\ Builds(grow.algo, grow.params)
  /\ MembersAccepted(ids, grow, overrides)
  /\ groups' = [groups EXCEPT ![g] = grow]
  /\ rules' = MemberRows(ids, g, grow, overrides)
  /\ live' = live \cup {g} \cup IdsOf(ids)
  /\ used' = used \cup {g} \cup IdsOf(ids)
  /\ UNCHANGED <<lock, tx, started>>

(* RuleGroupService.add_members: waits for the group's row lock *)
AddMembers(g, ids, overrides) ==
  /\ "add_members" \in Ops
  /\ g \in GroupIds \cap live
  /\ Lockable(g)
  /\ MembersAccepted(ids, groups[g], overrides)
  /\ rules' = MemberRows(ids, g, groups[g], overrides)
  /\ live' = live \cup IdsOf(ids)
  /\ used' = used \cup IdsOf(ids)
  /\ UNCHANGED <<groups, lock, tx, started>>

-----------------------------------------------------------------------------
(* Requests that read, await, and write what they computed from the read.   *)

(* repository.update: the UPDATE of one rule, and COMMIT.  The row may be
   gone (StaleDataError) or a constraint may refuse it (IntegrityError). *)
CommitRule(t) ==
  /\ tx[t].op \in {"update_rule", "detach_rule", "move_to_group"}
  /\ tx[t].pc = "commit"
  /\ LET r == tx[t].rule
         row == Updated(rules[r], tx[t].old, tx[t].new)
     IN  IF r \in live /\ RowAccepted(r, row)
         THEN /\ rules' = [rules EXCEPT ![r] = row]
              /\ End(t)
              /\ UNCHANGED <<groups, live, used>>
         ELSE Abort(t)

VersionMatches(expected, version) == expected # None => expected = version

(* A slip: only new params are validated, not a new algorithm. *)
PatchBuildsParamsOnly(patch, row) ==
  patch.params # None =>
    Builds(IF patch.algo # None THEN patch.algo ELSE row.algo, patch.params)

(* The candidate algorithm and params of a standalone rule build together. *)
PatchBuilds(patch, row) ==
  patch.algo # None \/ patch.params # None =>
    Builds(IF patch.algo # None THEN patch.algo ELSE row.algo,
           IF patch.params # None THEN patch.params ELSE row.params)

(* RuleService.update_rule up to the first await after the rule is loaded:
   the version and the guards are checked on the loaded object. *)
PatchRule(t, r, patch) ==
  /\ r \in RuleIds \cap live
  /\ VersionMatches(patch.expected, rules[r].version)
  /\ IF rules[r].group # None
     THEN patch.algo = None /\ patch.params = None /\ patch.priority = None
     ELSE patch.overrides = None /\ PatchBuilds(patch, rules[r])
  /\ Begin(t, [op |-> "update_rule", pc |-> "loaded", rule |-> r, old |-> rules[r],
               new |-> rules[r], patch |-> patch])
  /\ UNCHANGED <<rules, groups, live, used, lock>>

(* What the patch makes of the loaded object; a grouped rule's params come
   from the group row as it is now, read without a lock. *)
Patched(old, patch) ==
  LET or(x, y) == IF x # None THEN x ELSE y
  IN  [old EXCEPT
         !.algo = or(patch.algo, old.algo),
         !.priority = or(patch.priority, old.priority),
         !.params = IF patch.overrides # None
                    THEN Effective(groups[old.group].params, patch.overrides)
                    ELSE or(patch.params, old.params),
         !.overrides = or(patch.overrides, old.overrides),
         !.status = or(patch.status, old.status),
         !.version = old.version + 1]

(* The rest of update_rule before the write: the group is loaded if overrides
   are given (a missing group is an AttributeError), the merged params are
   validated, and an active rule's scope is checked. *)
PlanPatch(t) ==
  /\ tx[t].op = "update_rule"
  /\ tx[t].pc = "loaded"
  /\ LET old == tx[t].old
         patch == tx[t].patch
         groupOK == /\ old.group \in live
                    /\ Builds(groups[old.group].algo,
                              Effective(groups[old.group].params, patch.overrides))
         status == IF patch.status # None THEN patch.status ELSE old.status
         scopeOK == Holders(old.client, old.endpoint, old.sig, {tx[t].rule}) = {}
     IN  IF (patch.overrides # None => groupOK) /\ (status = "active" => scopeOK)
         THEN /\ tx' = [tx EXCEPT ![t].pc = "commit", ![t].new = Patched(old, patch)]
              /\ UNCHANGED <<rules, groups, live, used, lock, started>>
         ELSE Abort(t)

(* RuleGroupService.detach_rule *)
DetachRule(t, r, algo, params) ==
  /\ r \in RuleIds \cap live
  /\ rules[r].group # None
  /\ Builds(algo, params)
  /\ Begin(t, [op |-> "detach_rule", pc |-> "commit", rule |-> r, old |-> rules[r],
               new |-> [rules[r] EXCEPT !.group = None, !.overrides = None,
                          !.algo = algo, !.params = params, !.version = @ + 1]])
  /\ UNCHANGED <<rules, groups, live, used, lock>>

(* RuleGroupService.move_to_group: the rule is loaded first ... *)
MoveRule(t, r, g, ov) ==
  /\ r \in RuleIds \cap live
  /\ Begin(t, [op |-> "move_to_group", pc |-> "loaded", rule |-> r, old |-> rules[r],
               new |-> rules[r], group |-> g, overrides |-> ov])
  /\ UNCHANGED <<rules, groups, live, used, lock>>

(* A slip: rules of any client may be moved to the group. *)
RuleFitsAnyClient(r, old, grow, merged) == Builds(grow.algo, merged)

(* What move_to_group checks of the loaded rule and the locked group. *)
RuleFits(r, old, grow, merged) ==
  /\ old.client = grow.client
  /\ Builds(grow.algo, merged)
  /\ grow.sig # old.sig => Holders(old.client, old.endpoint, grow.sig, {r}) = {}

(* ... then the target group is locked, and the rule is made to fit it. *)
LockTarget(t) ==
  /\ tx[t].op = "move_to_group"
  /\ tx[t].pc = "loaded"
  /\ LET g == tx[t].group
         old == tx[t].old
         grow == groups[g]
         merged == Effective(grow.params, tx[t].overrides)
     IN  /\ Lockable(g)
         /\ IF g \in live /\ RuleFits(tx[t].rule, old, grow, merged)
            THEN /\ lock' = [lock EXCEPT ![g] = t]
                 /\ tx' = [tx EXCEPT ![t].pc = "commit",
                             ![t].new = [old EXCEPT !.group = g, !.algo = grow.algo,
                                           !.sig = grow.sig, !.priority = grow.priority,
                                           !.overrides = tx[t].overrides,
                                           !.params = merged, !.version = @ + 1]]
                 /\ UNCHANGED <<rules, groups, live, used, started>>
            ELSE Abort(t)

(* Lock a group and load its members (update_group, delete_group). *)
LockGroup(t, op, g, params, priority, mode) ==
  /\ g \in GroupIds \cap live
  /\ Lockable(g)
  /\ Begin(t, [op |-> op, group |-> g, members |-> [r \in Members(g) |-> rules[r]],
               params |-> params, priority |-> priority, mode |-> mode])
  /\ lock' = [lock EXCEPT ![g] = t]
  /\ UNCHANGED <<rules, groups, live, used>>

(* RuleGroupService.update_group up to its commit: every loaded member must
   build with the new base, or nothing is written. *)
PatchGroup(t, g, params, priority) ==
  /\ \A r \in Members(g) :
       Builds(groups[g].algo,
              Effective(IF params # None THEN params ELSE groups[g].params, rules[r].overrides))
  /\ LockGroup(t, "update_group", g, params, priority, None)

(* Slips: a member keeps its params or its priority. *)
NewMemberOldParams(row, base, prio) ==
  [row EXCEPT !.priority = IF prio # None THEN prio ELSE @, !.version = @ + 1]

NewMemberOldPriority(row, base, prio) ==
  [row EXCEPT !.params = Effective(base, row.overrides), !.version = @ + 1]

(* What update_group makes of a loaded member. *)
NewMember(row, base, prio) ==
  [row EXCEPT !.params = Effective(base, row.overrides),
              !.priority = IF prio # None THEN prio ELSE @,
              !.version = @ + 1]

(* Its commit: the group and every member that was loaded and is still there.
   Of a member that is gone the ORM learns by the row count, which it has for
   single UPDATEs and need not have for a batch: it may raise StaleDataError or
   commit what is left. *)
CommitGroup(t) ==
  /\ tx[t].op = "update_group"
  /\ LET g == tx[t].group
         members == tx[t].members
         rows == DOMAIN members \cap live
         base == IF tx[t].params # None THEN tx[t].params ELSE groups[g].params
         prio == IF tx[t].priority # None THEN tx[t].priority ELSE groups[g].priority
     IN  \/ /\ groups' = [groups EXCEPT ![g].params = base, ![g].priority = prio]
            /\ rules' = [r \in RuleIds |->
                           IF r \in rows
                           THEN Updated(rules[r], members[r],
                                        NewMember(members[r], base, tx[t].priority))
                           ELSE rules[r]]
            /\ End(t)
            /\ UNCHANGED <<live, used>>
         \/ /\ rows # DOMAIN members
            /\ Abort(t)

(* RuleGroupService.delete_group up to its commit. *)
DropGroup(t, g, mode) == LockGroup(t, "delete_group", g, None, None, mode)

(* Its commit: members are detached or deleted, then the group goes, unless
   a rule still refers to it (ON DELETE RESTRICT).  A member that is gone may
   be noticed by the UPDATE that detaches it, as in CommitGroup; a DELETE that
   finds no row is only warned about. *)
CommitDrop(t) ==
  /\ tx[t].op = "delete_group"
  /\ LET g == tx[t].group
         members == tx[t].members
         rows == DOMAIN members \cap live
         detach == tx[t].mode = "detach"
         after == [r \in RuleIds |->
                     IF r \notin rows THEN rules[r]
                     ELSE IF detach
                          THEN Updated(rules[r], members[r],
                                       [members[r] EXCEPT !.group = None, !.overrides = None])
                          ELSE NoRow]
         left == live \ (IF detach THEN {} ELSE rows)
         accepted == /\ detach => \A r \in rows : RowAccepted(r, after[r])
                     /\ \A r \in RuleIds \cap left : after[r].group # g
     IN  \/ /\ accepted
            /\ rules' = after
            /\ groups' = [groups EXCEPT ![g] = NoGroup]
            /\ live' = left \ {g}
            /\ End(t)
            /\ UNCHANGED used
         \/ /\ ~accepted \/ (detach /\ rows # DOMAIN members)
            /\ Abort(t)

-----------------------------------------------------------------------------

Maybe(S) == S \cup {None}

NoPatch ==
  [expected |-> None, algo |-> None, params |-> None, priority |-> None,
   status |-> None, overrides |-> None]

(* PATCH bodies: one field, or an algorithm with its params ... *)
Patches ==
  {[NoPatch EXCEPT !.params = p] : p \in Params}
  \cup {[NoPatch EXCEPT !.algo = a] : a \in Algorithms}
  \cup {[NoPatch EXCEPT !.algo = p.kind, !.params = p] : p \in Params}
  \cup {[NoPatch EXCEPT !.priority = n] : n \in Priorities}
  \cup {[NoPatch EXCEPT !.status = s] : s \in {"active", "inactive"}}
  \cup {[NoPatch EXCEPT !.overrides = ov] : ov \in Overrides}

(* ... with or without an expected_version, which the caller saw at some time. *)
Expecting(patch) ==
  {[patch EXCEPT !.expected = v] : v \in Maybe(1 .. MaxRequests + 1)}

GroupRows ==
  [client : Clients, sig : Signatures, algo : Algorithms, params : Params,
   priority : Priorities]

(* Members to add: endpoints, the ids they get, and their overrides. *)
NewMembers == UNION {[E -> RuleIds] : E \in SUBSET Endpoints}

Next ==
  \/ \E r \in RuleIds, c \in Clients, e \in Endpoints, s \in Signatures,
        a \in Algorithms, p \in Params, n \in Priorities : CreateRule(r, c, e, s, a, p, n)
  \/ \E r \in RuleIds : DeleteRule(r)
  \/ \E g \in GroupIds, grow \in GroupRows, ids \in NewMembers :
        \E ov \in [DOMAIN ids -> Overrides] : CreateGroup(g, grow, ids, ov)
  \/ \E g \in GroupIds, ids \in NewMembers :
        \E ov \in [DOMAIN ids -> Overrides] : AddMembers(g, ids, ov)
  \/ \E t \in Txns :
        \/ \E r \in RuleIds, p \in Patches :
              \E patch \in Expecting(p) : PatchRule(t, r, patch)
        \/ PlanPatch(t)
        \/ \E r \in RuleIds, a \in Algorithms, p \in Params : DetachRule(t, r, a, p)
        \/ \E r \in RuleIds, g \in GroupIds, ov \in Overrides : MoveRule(t, r, g, ov)
        \/ LockTarget(t)
        \/ CommitRule(t)
        \/ \E g \in GroupIds, p \in Maybe(Params), n \in Maybe(Priorities) :
              PatchGroup(t, g, p, n)
        \/ CommitGroup(t)
        \/ \E g \in GroupIds, mode \in {"detach", "delete"} : DropGroup(t, g, mode)
        \/ CommitDrop(t)

Spec == Init /\ [][Next]_vars

(* The next step of a request that is under way. *)
Step(t) == PlanPatch(t) \/ LockTarget(t) \/ CommitRule(t) \/ CommitGroup(t) \/ CommitDrop(t)

-----------------------------------------------------------------------------

Grouped == {r \in RuleIds \cap live : rules[r].group # None}

(* Types of the rows. *)
TypeOK ==
  /\ live \subseteq used /\ used \subseteq RuleIds \cup GroupIds
  /\ \A r \in RuleIds :
       IF r \in live
       THEN /\ rules[r].client \in Clients /\ rules[r].endpoint \in Endpoints
            /\ rules[r].sig \in Signatures /\ rules[r].algo \in Algorithms
            /\ rules[r].params \in Params /\ rules[r].status \in {"active", "inactive"}
            /\ rules[r].priority \in Priorities /\ rules[r].version \in 1 .. MaxRequests + 1
            /\ rules[r].group \in Maybe(GroupIds) /\ rules[r].overrides \in Maybe(Overrides)
       ELSE rules[r] = NoRow
  /\ \A g \in GroupIds : groups[g] \in IF g \in live THEN GroupRows ELSE {NoGroup}
  /\ \A g \in GroupIds : lock[g] # None => tx[lock[g]] # Idle

(* At most one active rule holds a (client, endpoint, signature): the
   resolution of a check is deterministic.  ux_rules_active_scope backs up
   the pre-checks, which two interleaved requests can both pass. *)
OneActivePerScope ==
  \A r, s \in RuleIds \cap live :
    (/\ rules[r].status = "active" /\ rules[s].status = "active"
     /\ rules[r].client = rules[s].client /\ rules[r].endpoint = rules[s].endpoint
     /\ rules[r].sig = rules[s].sig) => r = s

(* What a poll reads of a rule (_serialize_rule). *)
Served(r, row) ==
  [id |-> r, client |-> row.client, endpoint |-> row.endpoint, sig |-> row.sig,
   priority |-> row.priority, algo |-> row.algo, builds |-> Builds(row.algo, row.params),
   status |-> row.status]

ServedRows ==
  [id : RuleIds, client : Clients, endpoint : Endpoints, sig : Signatures,
   priority : Priorities, algo : Algorithms, builds : BOOLEAN, status : {"active", "inactive"}]

Table == INSTANCE RuleTable WITH
  Rules <- ServedRows,
  table <- {Served(r, rules[r]) : r \in RuleIds \cap live},
  used <- used \cap RuleIds

(* However the requests overlap, what polls see is a table that changes commit
   by commit: no two active rules share a scope (ux_rules_active_scope backs up
   the pre-checks, which two requests can both pass), no id ever returns, and
   no rule changes its client or endpoint. *)
ImplementsTable == Table!Spec

(* A grouped rule's group exists and belongs to the rule's own client: the
   latter is enforced by RuleGroupService only (rule_group.py:25-27). *)
GroupExistsForClient ==
  \A r \in Grouped :
    rules[r].group \in live /\ groups[rules[r].group].client = rules[r].client

(* What FOR UPDATE is for: while update_group or delete_group works on the
   members it loaded, no rule joins the group behind its back, so that none
   misses the new base and the group can be deleted. *)
NobodyJoinsLockedGroup ==
  \A t \in Txns : tx[t].op \in {"update_group", "delete_group"} =>
    Members(tx[t].group) \subseteq DOMAIN tx[t].members

(* README.md:468, group_params.py:4: the effective params of a member are the
   group's base with the member's overrides merged in. *)
MemberParamsFollowGroup ==
  \A r \in Grouped :
    rules[r].params = Effective(groups[rules[r].group].params, rules[r].overrides)

(* README.md:468-469: a member's algorithm, identifier types and priority are
   the group's. *)
MemberShapeFollowsGroup ==
  \A r \in Grouped :
    LET grow == groups[rules[r].group]
    IN  /\ rules[r].algo = grow.algo
        /\ rules[r].sig = grow.sig
        /\ rules[r].priority = grow.priority

(* Every stored rule can be turned into a limiter: whatever request wrote its
   algorithm and its params validated them together. *)
RulesBuild == \A r \in RuleIds \cap live : Builds(rules[r].algo, rules[r].params)

(* README.md:456: expected_version enables optimistic concurrency.  A PATCH
   that names a version replaces that version and no other: what it overwrites
   is what its caller saw.  update_rule compares when it loads the rule
   (rule_service.py:99) and writes after two more awaits. *)
ExpectedVersionHolds ==
  [][\A t \in Txns :
       (/\ tx[t].op = "update_rule" /\ tx[t].pc = "commit"
        /\ tx[t].patch.expected # None /\ tx'[t] = Idle /\ rules' # rules)
       => rules[tx[t].rule].version = tx[t].patch.expected]_vars

(* Whoever holds the lock of a group is under way and can take its next step
   at once: locks are neither left behind nor held while waiting for another,
   so no requests wait in a circle, and as PostgreSQL grants locks in turn and
   the event loop resumes what can be resumed, every request ends. *)
HoldersNeverWait ==
  \A g \in GroupIds : lock[g] # None => tx[lock[g]] # Idle /\ ENABLED Step(lock[g])

=============================================================================
