-------------------------- MODULE RuleStoreProofs --------------------------
(***************************************************************************)
(* The tables of rules and groups, for any number of rules, groups,        *)
(* clients and requests.                                                   *)
(*                                                                         *)
(* In any interleaving: Typed says what rows and requests hold, Sound what *)
(* a request that awaits may rely on: a rule it read may change or go but  *)
(* keeps its client; a group it locked stays, with its client, and nobody  *)
(* joins it.  VersionsCounted bounds versions by the requests started.     *)
(*                                                                         *)
(* What a request validated against rows it read holds of what it writes   *)
(* only if nothing committed in between.  Serial says so, under            *)
(* OneAtATime; with overlapping requests these properties are false.       *)
(* Shaped and Current say what is left of them when requests overlap:      *)
(* without move_to_group, and without update_rule besides.                 *)
(***************************************************************************)
EXTENDS RuleStore, TLAPS

Status == {"active", "inactive"}

(* The rows of table rules. *)
RuleRows ==
  [client : Clients, endpoint : Endpoints, sig : Signatures, algo : Algorithms,
   params : Params, status : Status, priority : Priorities, version : Nat \ {0},
   group : Maybe(GroupIds), overrides : Maybe(Overrides)]

PatchBodies ==
  [expected : Maybe(Nat), algo : Maybe(Algorithms), params : Maybe(Params),
   priority : Maybe(Priorities), status : Maybe(Status), overrides : Maybe(Overrides)]

(* The requests under way, by the objects they hold. *)
UpdateTx ==
  [op : {"update_rule"}, pc : {"loaded", "commit"}, rule : RuleIds, old : RuleRows,
   new : RuleRows, patch : PatchBodies]

DetachTx ==
  [op : {"detach_rule"}, pc : {"commit"}, rule : RuleIds, old : RuleRows, new : RuleRows]

MoveTx ==
  [op : {"move_to_group"}, pc : {"loaded", "commit"}, rule : RuleIds, old : RuleRows,
   new : RuleRows, group : GroupIds, overrides : Overrides]

Loaded == UNION {[R -> RuleRows] : R \in SUBSET RuleIds}

GroupTx ==
  [op : {"update_group", "delete_group"}, group : GroupIds, members : Loaded,
   params : Maybe(Params), priority : Maybe(Priorities), mode : {None, "detach", "delete"}]

RuleTxs == UpdateTx \cup DetachTx \cup MoveTx

Requests == {Idle} \cup RuleTxs \cup GroupTx

-----------------------------------------------------------------------------

LEMMA NoRowIsNoRow == NoRow \notin RuleRows
  BY DEF NoRow, RuleRows

LEMMA EffectiveType ==
  ASSUME NEW base \in Params, NEW ov \in Maybe(Overrides)
  PROVE  Effective(base, ov) \in Params /\ Effective(base, ov).kind = base.kind
  <1>1. CASE ov = None \/ ov = {}
    BY <1>1 DEF Effective
  <1>2. CASE ~(ov = None \/ ov = {})
    <2>1. PICK v \in Values : ov = {v}
      BY <1>2 DEF Maybe, Overrides
    <2>2. (CHOOSE w \in ov : TRUE) = v
      BY <2>1
    <2>3. Effective(base, ov) = [base EXCEPT !.val = v]
      BY <1>2, <2>2 DEF Effective
    <2>4. base = [kind |-> base.kind, val |-> base.val] /\ base.kind \in Algorithms
      BY DEF Params
    <2> QED
      BY <2>3, <2>4 DEF Params
  <1> QED
    BY <1>1, <1>2

(* The UPDATE of a row, column by column. *)
LEMMA UpdatedColumns ==
  ASSUME NEW row \in RuleRows, NEW old \in RuleRows, NEW new \in RuleRows
  PROVE  /\ Updated(row, old, new) \in RuleRows
         /\ Updated(row, old, new).client = IF new.client = old.client THEN row.client ELSE new.client
         /\ Updated(row, old, new).endpoint = IF new.endpoint = old.endpoint THEN row.endpoint ELSE new.endpoint
         /\ Updated(row, old, new).sig = IF new.sig = old.sig THEN row.sig ELSE new.sig
         /\ Updated(row, old, new).algo = IF new.algo = old.algo THEN row.algo ELSE new.algo
         /\ Updated(row, old, new).params = IF new.params = old.params THEN row.params ELSE new.params
         /\ Updated(row, old, new).status = IF new.status = old.status THEN row.status ELSE new.status
         /\ Updated(row, old, new).priority = IF new.priority = old.priority THEN row.priority ELSE new.priority
         /\ Updated(row, old, new).version = IF new.version = old.version THEN row.version ELSE new.version
         /\ Updated(row, old, new).group = IF new.group = old.group THEN row.group ELSE new.group
         /\ Updated(row, old, new).overrides = IF new.overrides = old.overrides THEN row.overrides ELSE new.overrides
  <1> DEFINE Col(c) == IF new[c] = old[c] THEN row[c] ELSE new[c]
  <1>1. Updated(row, old, new) =
          [client |-> Col("client"), endpoint |-> Col("endpoint"), sig |-> Col("sig"),
           algo |-> Col("algo"), params |-> Col("params"), status |-> Col("status"),
           priority |-> Col("priority"), version |-> Col("version"),
           group |-> Col("group"), overrides |-> Col("overrides")]
    BY DEF Updated, RuleRows
  <1>2. /\ Col("client") \in Clients /\ Col("endpoint") \in Endpoints
        /\ Col("sig") \in Signatures /\ Col("algo") \in Algorithms
        /\ Col("params") \in Params /\ Col("status") \in Status
        /\ Col("priority") \in Priorities /\ Col("version") \in Nat \ {0}
        /\ Col("group") \in Maybe(GroupIds) /\ Col("overrides") \in Maybe(Overrides)
    BY DEF RuleRows
  <1>3. Updated(row, old, new) \in RuleRows
    <2> HIDE DEF Col
    <2> QED BY <1>1, <1>2 DEF RuleRows
  <1>4. \A c \in DOMAIN row : Updated(row, old, new)[c] = Col(c)
    BY DEF Updated
  <1>5. DOMAIN row = {"client", "endpoint", "sig", "algo", "params", "status", "priority",
                      "version", "group", "overrides"}
    BY DEF RuleRows
  <1> QED
    BY <1>3, <1>4, <1>5

-----------------------------------------------------------------------------
(* Types of the whole state, of which TypeOK is a part. *)

Typed ==
  /\ rules \in [RuleIds -> RuleRows \cup {NoRow}]
  /\ groups \in [GroupIds -> GroupRows \cup {NoGroup}]
  /\ live \subseteq used /\ used \subseteq RuleIds \cup GroupIds
  /\ lock \in [GroupIds -> Maybe(Txns)]
  /\ tx \in [Txns -> Requests]
  /\ started \in Nat
  /\ \A r \in RuleIds : IF r \in live THEN rules[r] \in RuleRows ELSE rules[r] = NoRow
  /\ \A g \in GroupIds : IF g \in live THEN groups[g] \in GroupRows ELSE groups[g] = NoGroup

LEMMA TypedInit == Init => Typed
  BY DEF Init, Typed, Requests, Maybe

(* Requests are told apart by their op. *)
LEMMA RequestKinds ==
  ASSUME NEW q \in Requests
  PROVE  /\ q.op \in {"update_rule", "detach_rule", "move_to_group"} <=> q \in RuleTxs
         /\ q.op \in {"update_group", "delete_group"} <=> q \in GroupTx
         /\ q.op = "update_rule" => q \in UpdateTx
         /\ q.op = "move_to_group" => q \in MoveTx
         /\ q.op = "detach_rule" => q \in DetachTx
         /\ q # Idle <=> q \in RuleTxs \cup GroupTx
         /\ q \in RuleTxs => q \notin GroupTx
  <1>1. CASE q = Idle
    BY <1>1, RuleStoreAssumption
       DEF Idle, OpNames, RuleTxs, UpdateTx, DetachTx, MoveTx, GroupTx
  <1>2. CASE q \in RuleTxs
    BY <1>2, RuleStoreAssumption
       DEF Idle, OpNames, RuleTxs, UpdateTx, DetachTx, MoveTx, GroupTx
  <1>3. CASE q \in GroupTx
    BY <1>3, RuleStoreAssumption
       DEF Idle, OpNames, RuleTxs, UpdateTx, DetachTx, MoveTx, GroupTx
  <1> QED
    BY <1>1, <1>2, <1>3 DEF Requests

LEMMA PatchType ==
  ASSUME NEW p \in Patches, NEW patch \in Expecting(p)
  PROVE  patch \in PatchBodies
  <1>1. MaxRequests \in Nat
    BY RuleStoreAssumption
  <1>2. p \in PatchBodies
    <2>1. NoPatch \in PatchBodies
      BY DEF NoPatch, PatchBodies, Maybe
    <2>2. CASE \E x \in Params : p = [NoPatch EXCEPT !.params = x]
      BY <2>2 DEF NoPatch, PatchBodies, Maybe
    <2>3. CASE \E x \in Algorithms : p = [NoPatch EXCEPT !.algo = x]
      BY <2>3 DEF NoPatch, PatchBodies, Maybe
    <2>4. CASE \E x \in Params : p = [NoPatch EXCEPT !.algo = x.kind, !.params = x]
      <3>1. PICK x \in Params : p = [NoPatch EXCEPT !.algo = x.kind, !.params = x]
        BY <2>4
      <3>2. x.kind \in Algorithms
        BY DEF Params
      <3> QED
        BY <3>1, <3>2 DEF NoPatch, PatchBodies, Maybe
    <2>5. CASE \E x \in Priorities : p = [NoPatch EXCEPT !.priority = x]
      BY <2>5 DEF NoPatch, PatchBodies, Maybe
    <2>6. CASE \E x \in Status : p = [NoPatch EXCEPT !.status = x]
      BY <2>6 DEF NoPatch, PatchBodies, Maybe
    <2>7. CASE \E x \in Overrides : p = [NoPatch EXCEPT !.overrides = x]
      BY <2>7 DEF NoPatch, PatchBodies, Maybe
    <2> QED
      BY <2>2, <2>3, <2>4, <2>5, <2>6, <2>7 DEF Patches, Status
  <1>3. PICK v \in Maybe(1 .. MaxRequests + 1) : patch = [p EXCEPT !.expected = v]
    BY DEF Expecting
  <1>4. v \in Maybe(Nat)
    BY <1>1 DEF Maybe
  <1> QED
    BY <1>2, <1>3, <1>4 DEF PatchBodies

-----------------------------------------------------------------------------
(* What create_rule, create_group and add_members have in common: rows with
   fresh ids, whose scopes nobody holds, in no group or in one that nobody
   has locked or that is new itself. *)

SameShape(row, grow) ==
  /\ row.client = grow.client /\ row.sig = grow.sig /\ row.algo = grow.algo
  /\ row.priority = grow.priority
  /\ row.params = Effective(grow.params, row.overrides)

Inserts(N) ==
  /\ N \subseteq RuleIds \ used
  /\ \A r \in RuleIds \ N :
       rules'[r] = rules[r] /\ (r \in live' <=> r \in live) /\ (r \in used' <=> r \in used)
  /\ \A g \in GroupIds \cap used : groups'[g] = groups[g] /\ (g \in live' <=> g \in live)
  /\ \A r \in N :
       /\ r \in live'
       /\ rules'[r] \in RuleRows
       /\ rules'[r].version = 1
       /\ rules'[r].status = "active"
       /\ Builds(rules'[r].algo, rules'[r].params)
       /\ Holders(rules'[r].client, rules'[r].endpoint, rules'[r].sig, {}) = {}
       /\ \A s \in N : s # r => rules'[s].endpoint # rules'[r].endpoint
       /\ rules'[r].group # None =>
            /\ rules'[r].group \in GroupIds \cap live'
            /\ rules'[r].group \in live => Lockable(rules'[r].group)
            /\ SameShape(rules'[r], groups'[rules'[r].group])
  /\ used \subseteq used'
  /\ UNCHANGED <<lock, tx, started>>

LEMMA NewRowType ==
  ASSUME NEW client \in Clients, NEW endpoint \in Endpoints, NEW sig \in Signatures,
         NEW algo \in Algorithms, NEW params \in Params, NEW priority \in Priorities,
         NEW group \in Maybe(GroupIds), NEW overrides \in Maybe(Overrides)
  PROVE  /\ NewRow(client, endpoint, sig, algo, params, priority, group, overrides) \in RuleRows
  BY DEF NewRow, RuleRows, Status

LEMMA CreateRuleInserts ==
  ASSUME Typed, NEW r \in RuleIds, NEW c \in Clients, NEW e \in Endpoints,
         NEW s \in Signatures, NEW a \in Algorithms, NEW p \in Params, NEW n \in Priorities,
         CreateRule(r, c, e, s, a, p, n)
  PROVE  Typed' /\ Inserts({r})
  <1> DEFINE row == NewRow(c, e, s, a, p, n, None, None)
  <1>1. row \in RuleRows
    BY NewRowType DEF Maybe
  <1>2. /\ row.client = c /\ row.endpoint = e /\ row.sig = s /\ row.algo = a /\ row.params = p
        /\ row.status = "active" /\ row.version = 1 /\ row.group = None
    BY DEF NewRow
  <1>3. /\ rules' = [rules EXCEPT ![r] = row] /\ live' = live \cup {r}
        /\ used' = used \cup {r} /\ r \notin used /\ UNCHANGED <<groups, lock, tx, started>>
        /\ Builds(a, p) /\ Holders(c, e, s, {}) = {}
    BY DEF CreateRule
  <1> HIDE DEF row
  <1>4. \A q \in RuleIds : rules'[q] = IF q = r THEN row ELSE rules[q]
    BY <1>3 DEF Typed
  <1>5. \A g \in GroupIds : g # r
    BY RuleStoreAssumption
  <1>6. Typed'
    BY <1>1, <1>3, <1>4, <1>5 DEF Typed
  <1>7. Inserts({r})
    BY <1>1, <1>2, <1>3, <1>4, <1>5 DEF Typed, Inserts
  <1> QED
    BY <1>6, <1>7

(* The rows that create_group and add_members insert. *)
FreshMembers(rows, N, g, grow) ==
  /\ rows \in [RuleIds -> RuleRows \cup {NoRow}]
  /\ N \subseteq RuleIds \ used
  /\ \A r \in RuleIds \ N : rows[r] = rules[r]
  /\ \A r \in N :
       /\ rows[r] \in RuleRows /\ rows[r].version = 1 /\ rows[r].status = "active"
       /\ rows[r].group = g /\ Builds(rows[r].algo, rows[r].params)
       /\ Holders(rows[r].client, rows[r].endpoint, rows[r].sig, {}) = {}
       /\ \A s \in N : s # r => rows[s].endpoint # rows[r].endpoint
       /\ SameShape(rows[r], grow)

LEMMA MemberRowsAre ==
  ASSUME Typed, NEW g \in GroupIds, NEW grow \in GroupRows, NEW ids \in NewMembers,
         NEW ov \in [DOMAIN ids -> Overrides], MembersAccepted(ids, grow, ov)
  PROVE  FreshMembers(MemberRows(ids, g, grow, ov), IdsOf(ids), g, grow)
  <1> DEFINE rows == MemberRows(ids, g, grow, ov)
             Row(e) == NewRow(grow.client, e, grow.sig, grow.algo,
                              Effective(grow.params, ov[e]), grow.priority, g, ov[e])
  <1>1. PICK E \in SUBSET Endpoints : ids \in [E -> RuleIds]
    BY DEF NewMembers
  <1>2. /\ grow.client \in Clients /\ grow.sig \in Signatures /\ grow.algo \in Algorithms
        /\ grow.params \in Params /\ grow.priority \in Priorities
    BY DEF GroupRows
  <1>3. ASSUME NEW e \in E
        PROVE  /\ Row(e) \in RuleRows
               /\ Row(e).version = 1 /\ Row(e).status = "active" /\ Row(e).group = g
               /\ Builds(Row(e).algo, Row(e).params)
               /\ Holders(Row(e).client, Row(e).endpoint, Row(e).sig, {}) = {}
               /\ Row(e).endpoint = e
               /\ SameShape(Row(e), grow)
    <2>1. ov[e] \in Overrides /\ e \in Endpoints
      BY <1>1
    <2>2. Effective(grow.params, ov[e]) \in Params
      BY <1>2, <2>1, EffectiveType DEF Maybe
    <2>3. Row(e) \in RuleRows
      BY <1>2, <2>1, <2>2, NewRowType DEF Maybe
    <2>4. /\ Builds(grow.algo, Effective(grow.params, ov[e]))
          /\ Holders(grow.client, e, grow.sig, {}) = {}
      BY <1>1 DEF MembersAccepted
    <2> QED
      BY <2>3, <2>4 DEF NewRow, SameShape
  <1>4. \A r \in RuleIds : r \in IdsOf(ids) <=> \E e \in E : ids[e] = r
    BY <1>1 DEF IdsOf
  <1> HIDE DEF Row
  <1>5. ASSUME NEW r \in RuleIds, r \in IdsOf(ids)
        PROVE  \E e \in E : ids[e] = r /\ rows[r] = Row(e)
    <2> DEFINE e == CHOOSE e \in DOMAIN ids : ids[e] = r
    <2>1. e \in E /\ ids[e] = r
      BY <1>1, <1>4, <1>5
    <2>2. rows[r] = Row(e)
      BY <1>1, <1>4, <1>5 DEF MemberRows, Row
    <2> QED
      BY <2>1, <2>2
  <1>6. \A r \in RuleIds \ IdsOf(ids) : rows[r] = rules[r]
    BY <1>1, <1>4 DEF MemberRows
  <1>7. IdsOf(ids) \subseteq RuleIds \ used
    BY <1>1 DEF IdsOf, MembersAccepted
  <1>8. rows \in [RuleIds -> RuleRows \cup {NoRow}]
    <2>1. rows = [r \in RuleIds |-> rows[r]]
      BY DEF MemberRows
    <2>2. \A r \in RuleIds : rows[r] \in RuleRows \cup {NoRow}
      BY <1>3, <1>5, <1>6 DEF Typed
    <2> HIDE DEF rows
    <2> QED
      BY <2>1, <2>2
  <1> HIDE DEF rows
  <1>9. \A r, s \in IdsOf(ids) : s # r => rows[s].endpoint # rows[r].endpoint
    BY <1>3, <1>5, <1>7
  <1>10. \A r \in IdsOf(ids) :
           /\ rows[r] \in RuleRows /\ rows[r].version = 1 /\ rows[r].status = "active"
           /\ rows[r].group = g /\ Builds(rows[r].algo, rows[r].params)
           /\ Holders(rows[r].client, rows[r].endpoint, rows[r].sig, {}) = {}
           /\ SameShape(rows[r], grow)
    BY <1>3, <1>5, <1>7
  <1> QED
    BY <1>6, <1>7, <1>8, <1>9, <1>10 DEF rows, FreshMembers

LEMMA CreateGroupInserts ==
  ASSUME Typed, NEW g \in GroupIds, NEW grow \in GroupRows, NEW ids \in NewMembers,
         NEW ov \in [DOMAIN ids -> Overrides], CreateGroup(g, grow, ids, ov)
  PROVE  Typed' /\ Inserts(IdsOf(ids))
  <1> DEFINE rows == MemberRows(ids, g, grow, ov)
             N == IdsOf(ids)
  <1>1. /\ rules' = rows /\ groups' = [groups EXCEPT ![g] = grow]
        /\ live' = live \cup {g} \cup N /\ used' = used \cup {g} \cup N
        /\ g \notin used /\ MembersAccepted(ids, grow, ov) /\ UNCHANGED <<lock, tx, started>>
    BY DEF CreateGroup
  <1>2. FreshMembers(rows, N, g, grow)
    BY <1>1, MemberRowsAre
  <1>3. \A h \in GroupIds : groups'[h] = IF h = g THEN grow ELSE groups[h]
    BY <1>1 DEF Typed
  <1>4. \A h \in GroupIds : h \notin RuleIds
    BY RuleStoreAssumption
  <1> HIDE DEF rows, N
  <1>5. Typed'
    <2>1. groups' \in [GroupIds -> GroupRows \cup {NoGroup}]
      BY <1>1 DEF Typed
    <2>2. \A r \in RuleIds : IF r \in live' THEN rules'[r] \in RuleRows ELSE rules'[r] = NoRow
      BY <1>1, <1>2, <1>4 DEF Typed, FreshMembers
    <2>3. \A h \in GroupIds : IF h \in live' THEN groups'[h] \in GroupRows ELSE groups'[h] = NoGroup
      BY <1>1, <1>2, <1>3, <1>4 DEF Typed, FreshMembers
    <2> QED
      BY <1>1, <1>2, <2>1, <2>2, <2>3 DEF Typed, FreshMembers
  <1>6. Inserts(N)
    <2>1. \A h \in GroupIds \cap used : groups'[h] = groups[h] /\ (h \in live' <=> h \in live)
      BY <1>1, <1>2, <1>3, <1>4 DEF FreshMembers
    <2>2. \A r \in RuleIds \ N : rules'[r] = rules[r] /\ (r \in live' <=> r \in live)
      BY <1>1, <1>2, <1>4 DEF FreshMembers
    <2>3. g \in GroupIds \cap live' /\ g \notin live /\ groups'[g] = grow
      BY <1>1, <1>3 DEF Typed, FreshMembers
    <2> QED
      BY <1>1, <1>2, <2>1, <2>2, <2>3 DEF Inserts, FreshMembers
  <1> QED
    BY <1>5, <1>6 DEF N

LEMMA AddMembersInserts ==
  ASSUME Typed, NEW g \in GroupIds, NEW ids \in NewMembers,
         NEW ov \in [DOMAIN ids -> Overrides], AddMembers(g, ids, ov)
  PROVE  Typed' /\ Inserts(IdsOf(ids))
  <1> DEFINE grow == groups[g]
             rows == MemberRows(ids, g, grow, ov)
             N == IdsOf(ids)
  <1>1. /\ rules' = rows /\ live' = live \cup N /\ used' = used \cup N
        /\ g \in live /\ Lockable(g) /\ MembersAccepted(ids, grow, ov)
        /\ UNCHANGED <<groups, lock, tx, started>>
    BY DEF AddMembers
  <1>2. grow \in GroupRows
    BY <1>1 DEF Typed
  <1>3. FreshMembers(rows, N, g, grow)
    BY <1>1, <1>2, MemberRowsAre
  <1>4. \A h \in GroupIds : h \notin RuleIds
    BY RuleStoreAssumption
  <1> HIDE DEF rows, N
  <1>5. Typed'
    <2>1. \A r \in RuleIds : IF r \in live' THEN rules'[r] \in RuleRows ELSE rules'[r] = NoRow
      BY <1>1, <1>3 DEF Typed, FreshMembers
    <2> QED
      BY <1>1, <1>3, <1>4, <2>1 DEF Typed, FreshMembers
  <1>6. Inserts(N)
    BY <1>1, <1>3, <1>4 DEF Inserts, FreshMembers
  <1> QED
    BY <1>5, <1>6 DEF N

-----------------------------------------------------------------------------
(* What a request relies on between two of its steps.  The rule it loaded may
   be changed or deleted, but keeps its client and its id.  A group it has
   locked stays, with its client, and nobody joins it. *)

InCommit(q) == q.op = "move_to_group" /\ q.pc = "commit"

RuleTxSound(t) ==
  LET q == tx[t]
  IN  /\ q.rule \in used
      /\ q.rule \in live => rules[q.rule].client = q.old.client
      /\ q.new.client = q.old.client /\ q.new.endpoint = q.old.endpoint
      /\ IF InCommit(q)
         THEN /\ q.new.group = q.group
              /\ lock[q.group] = t
              /\ q.group \in live
              /\ groups[q.group].client = q.old.client
         ELSE q.new.group \in {q.old.group, None}

GroupTxSound(t) ==
  LET q == tx[t]
  IN  /\ lock[q.group] = t
      /\ q.group \in live
      /\ DOMAIN q.members \subseteq used
      /\ Members(q.group) \subseteq DOMAIN q.members

TxSound(t) ==
  /\ tx[t] \in RuleTxs => RuleTxSound(t)
  /\ tx[t] \in GroupTx => GroupTxSound(t)

HoldersUnderWay == \A g \in GroupIds : lock[g] # None => tx[lock[g]] # Idle

Sound == HoldersUnderWay /\ \A t \in Txns : TxSound(t)

(* What a step leaves to the requests that go on. *)
Frame ==
  /\ used \subseteq used'
  /\ \A r \in RuleIds \cap used :
       r \in live' => r \in live /\ rules'[r].client = rules[r].client
  /\ \A g \in GroupIds \cap live :
       lock[g] # None /\ tx'[lock[g]] # Idle =>
         /\ lock'[g] = lock[g]
         /\ g \in live' /\ groups'[g].client = groups[g].client
         /\ Members(g)' \subseteq Members(g)

LEMMA FrameKeepsSound ==
  ASSUME Typed, Typed', Sound, Frame, NEW t \in Txns, tx'[t] = tx[t]
  PROVE  TxSound(t)'
  <1> DEFINE q == tx[t]
  <1>0. t # None
    BY RuleStoreAssumption
  <1>1. ASSUME q \in RuleTxs
        PROVE  RuleTxSound(t)'
    <2>1. q # Idle /\ q.rule \in RuleIds /\ (InCommit(q) => q.group \in GroupIds)
      BY <1>1, RequestKinds DEF Requests, RuleTxs, UpdateTx, DetachTx, MoveTx, InCommit
    <2>2. RuleTxSound(t)
      BY <1>1 DEF Sound, TxSound
    <2> HIDE DEF q
    <2>3. q.rule \in used' /\ (q.rule \in live' => rules'[q.rule].client = q.old.client)
      BY <2>1, <2>2 DEF q, RuleTxSound, Frame
    <2>4. InCommit(q) => /\ lock'[q.group] = t /\ q.group \in live'
                         /\ groups'[q.group].client = q.old.client
      BY <1>0, <2>1, <2>2 DEF q, RuleTxSound, Frame
    <2> QED
      BY <2>2, <2>3, <2>4 DEF q, RuleTxSound
  <1>2. ASSUME q \in GroupTx
        PROVE  GroupTxSound(t)'
    <2>1. q # Idle /\ q.group \in GroupIds
      BY <1>2, RequestKinds DEF Requests, GroupTx
    <2>2. GroupTxSound(t)
      BY <1>2 DEF Sound, TxSound
    <2>3. /\ lock'[q.group] = t /\ q.group \in live' /\ DOMAIN q.members \subseteq used'
          /\ Members(q.group)' \subseteq DOMAIN q.members
      BY <1>0, <2>1, <2>2 DEF GroupTxSound, Frame
    <2> QED
      BY <2>3 DEF GroupTxSound
  <1> QED
    BY <1>1, <1>2 DEF TxSound

(* A step that leaves requests and locks alone. *)
LEMMA StoreStepSound ==
  ASSUME Typed, Typed', Sound, Frame, UNCHANGED <<lock, tx>>
  PROVE  Sound'
  BY FrameKeepsSound DEF Sound, HoldersUnderWay

(* A request takes a step that leaves the tables alone; it may lock a group. *)
Proceeds(t, q, g) ==
  /\ tx' = [tx EXCEPT ![t] = q]
  /\ q # Idle
  /\ \/ UNCHANGED lock
     \/ g \in GroupIds /\ Lockable(g) /\ lock' = [lock EXCEPT ![g] = t]
  /\ UNCHANGED <<rules, groups, live, used>>
  /\ started' \in {started, started + 1}

LEMMA ProceedsKeeps ==
  ASSUME Typed, Sound, NEW t \in Txns, NEW q \in Requests, NEW g, Proceeds(t, q, g)
  PROVE  /\ Typed' /\ Frame /\ HoldersUnderWay' /\ tx'[t] = q
         /\ TxSound(t)' => Sound'
  <1>1. \A u \in Txns : tx'[u] = IF u = t THEN q ELSE tx[u]
    BY DEF Typed, Proceeds
  <1>2. lock' \in [GroupIds -> Maybe(Txns)]
    BY DEF Typed, Proceeds, Maybe
  <1>3. Typed'
    BY <1>2 DEF Typed, Proceeds
  <1>4. \A h \in GroupIds : lock'[h] = lock[h] \/ (lock[h] = None /\ lock'[h] = t)
    BY DEF Typed, Proceeds, Lockable
  <1>5. \A h \in GroupIds : lock[h] # None => lock[h] \in Txns
    BY DEF Typed, Maybe
  <1>6. HoldersUnderWay'
    BY <1>1, <1>4, <1>5 DEF Sound, HoldersUnderWay, Proceeds
  <1>7. Frame
    BY <1>4 DEF Frame, Proceeds, Members
  <1>8. \A u \in Txns : u # t => TxSound(u)'
    BY <1>1, <1>3, <1>7, FrameKeepsSound
  <1> QED
    BY <1>1, <1>3, <1>6, <1>7, <1>8 DEF Sound

(* A request ends. *)
LEMMA EndFacts ==
  ASSUME Typed, Sound, NEW t \in Txns, End(t)
  PROVE  /\ tx' \in [Txns -> Requests] /\ lock' \in [GroupIds -> Maybe(Txns)]
         /\ started' = started
         /\ \A u \in Txns : tx'[u] = IF u = t THEN Idle ELSE tx[u]
         /\ \A g \in GroupIds : lock'[g] = IF lock[g] = t THEN None ELSE lock[g]
         /\ HoldersUnderWay'
  <1>1. \A u \in Txns : tx'[u] = IF u = t THEN Idle ELSE tx[u]
    BY DEF End, Typed
  <1>2. \A g \in GroupIds : lock'[g] = IF lock[g] = t THEN None ELSE lock[g]
    BY DEF End
  <1>3. \A h \in GroupIds : lock[h] # None => lock[h] \in Txns
    BY DEF Typed, Maybe
  <1>4. HoldersUnderWay'
    BY <1>1, <1>2, <1>3 DEF Sound, HoldersUnderWay
  <1> QED
    BY <1>1, <1>2, <1>4 DEF End, Typed, Requests, Maybe

LEMMA EndSound ==
  ASSUME Typed, Typed', Sound, Frame, NEW t \in Txns, End(t)
  PROVE  Sound'
  <1>1. /\ \A u \in Txns : tx'[u] = IF u = t THEN Idle ELSE tx[u]
        /\ HoldersUnderWay'
    BY EndFacts
  <1>2. TxSound(t)'
    <2>1. Idle \notin RuleTxs /\ Idle \notin GroupTx
      BY RequestKinds DEF Requests
    <2> QED
      BY <1>1, <2>1 DEF TxSound
  <1> QED
    BY <1>1, <1>2, FrameKeepsSound DEF Sound

LEMMA AbortKeeps ==
  ASSUME Typed, Sound, NEW t \in Txns, Abort(t)
  PROVE  Typed' /\ Frame /\ Sound'
  <1>1. End(t) /\ UNCHANGED <<rules, groups, live, used>>
    BY DEF Abort
  <1>2. Typed'
    BY <1>1, EndFacts DEF Typed
  <1>3. \A g \in GroupIds : lock[g] # None /\ tx'[lock[g]] # Idle => lock'[g] = lock[g]
    BY <1>1, EndFacts
  <1>4. Frame
    BY <1>1, <1>3 DEF Frame, Members
  <1> QED
    BY <1>1, <1>2, <1>4, EndSound

-----------------------------------------------------------------------------
(* The requests that are one step. *)

LEMMA InsertsKeeps ==
  ASSUME Typed, Typed', Sound, NEW N, Inserts(N)
  PROVE  Frame /\ Sound'
  <1>1. \A r \in RuleIds \cap used : rules'[r] = rules[r] /\ (r \in live' <=> r \in live)
    BY DEF Inserts
  <1>2. \A g \in GroupIds \cap live : g \in live' /\ groups'[g] = groups[g]
    BY DEF Inserts, Typed
  <1>3. ASSUME NEW g \in GroupIds \cap live, lock[g] # None
        PROVE  Members(g)' \subseteq Members(g)
    <2>1. \A r \in N : rules'[r].group # g
      BY <1>3, RuleStoreAssumption DEF Inserts, Lockable
    <2> QED
      BY <2>1 DEF Inserts, Members
  <1>4. Frame
    BY <1>1, <1>2, <1>3 DEF Frame, Inserts
  <1> QED
    BY <1>4, StoreStepSound DEF Inserts

LEMMA DeleteRuleKeeps ==
  ASSUME Typed, Sound, NEW r \in RuleIds, DeleteRule(r)
  PROVE  Typed' /\ Frame /\ Sound'
  <1>1. /\ rules' = [rules EXCEPT ![r] = NoRow] /\ live' = live \ {r} /\ r \in live
        /\ UNCHANGED <<groups, used, lock, tx, started>>
    BY DEF DeleteRule
  <1>2. \A q \in RuleIds : rules'[q] = IF q = r THEN NoRow ELSE rules[q]
    BY <1>1 DEF Typed
  <1>3. \A g \in GroupIds : g # r
    BY RuleStoreAssumption
  <1>4. Typed'
    BY <1>1, <1>2, <1>3 DEF Typed
  <1>5. Frame
    BY <1>1, <1>2, <1>3 DEF Frame, Members
  <1> QED
    BY <1>1, <1>4, <1>5, StoreStepSound

(* The requests that begin by loading what they need. *)

LEMMA PatchRuleProceeds ==
  ASSUME Typed, Sound, NEW t \in Txns, NEW r \in RuleIds, NEW patch \in PatchBodies,
         PatchRule(t, r, patch)
  PROVE  /\ tx[t] = Idle /\ started < MaxRequests /\ started' = started + 1
         /\ tx'[t] = [op |-> "update_rule", pc |-> "loaded", rule |-> r, old |-> rules[r],
                      new |-> rules[r], patch |-> patch]
         /\ tx'[t] \in UpdateTx /\ r \in live
         /\ Proceeds(t, tx'[t], None) /\ Typed' /\ Frame /\ Sound'
  <1> DEFINE q == [op |-> "update_rule", pc |-> "loaded", rule |-> r, old |-> rules[r],
                   new |-> rules[r], patch |-> patch]
  <1>1. /\ tx[t] = Idle /\ started < MaxRequests /\ started' = started + 1
        /\ tx' = [tx EXCEPT ![t] = q] /\ r \in live
        /\ UNCHANGED <<rules, groups, live, used, lock>>
    BY DEF PatchRule, Begin
  <1>2. rules[r] \in RuleRows
    BY <1>1 DEF Typed
  <1>3. q \in UpdateTx
    BY <1>2 DEF UpdateTx
  <1>4. q.rule = r /\ q.old = rules[r] /\ q.new = rules[r] /\ ~InCommit(q)
    BY DEF InCommit
  <1> HIDE DEF q
  <1>5. q \in Requests /\ q \in RuleTxs /\ q # Idle /\ q \notin GroupTx
    BY <1>3, RequestKinds DEF Requests, RuleTxs
  <1>6. Proceeds(t, q, None)
    BY <1>1, <1>5 DEF Proceeds
  <1>7. Typed' /\ Frame /\ HoldersUnderWay' /\ tx'[t] = q /\ (TxSound(t)' => Sound')
    BY <1>5, <1>6, ProceedsKeeps
  <1>8. TxSound(t)'
    BY <1>1, <1>4, <1>5, <1>7 DEF TxSound, RuleTxSound, Typed
  <1> QED
    BY <1>1, <1>3, <1>6, <1>7, <1>8 DEF q

LEMMA DetachRuleProceeds ==
  ASSUME Typed, Sound, NEW t \in Txns, NEW r \in RuleIds, NEW algo \in Algorithms,
         NEW params \in Params, DetachRule(t, r, algo, params)
  PROVE  /\ tx[t] = Idle /\ started < MaxRequests /\ started' = started + 1
         /\ tx'[t] \in DetachTx /\ r \in live
         /\ tx'[t].rule = r /\ tx'[t].old = rules[r]
         /\ tx'[t].new.algo = algo /\ tx'[t].new.params = params /\ Builds(algo, params)
         /\ tx'[t].new.version = rules[r].version + 1
         /\ tx'[t].new.group = None /\ rules[r].group # None
         /\ Proceeds(t, tx'[t], None) /\ Typed' /\ Frame /\ Sound'
  <1> DEFINE row == rules[r]
             new == [row EXCEPT !.group = None, !.overrides = None, !.algo = algo,
                                !.params = params, !.version = @ + 1]
             q == [op |-> "detach_rule", pc |-> "commit", rule |-> r, old |-> row, new |-> new]
  <1>1. /\ tx[t] = Idle /\ started < MaxRequests /\ started' = started + 1 /\ r \in live
        /\ tx' = [tx EXCEPT ![t] = q] /\ Builds(algo, params) /\ row.group # None
        /\ UNCHANGED <<rules, groups, live, used, lock>>
    BY DEF DetachRule, Begin
  <1>2. row \in RuleRows
    BY <1>1 DEF Typed
  <1>3. new \in RuleRows
    <2>1. row.version + 1 \in Nat \ {0} /\ None \in Maybe(GroupIds) /\ None \in Maybe(Overrides)
      BY <1>2 DEF RuleRows, Maybe
    <2> QED
      BY <1>2, <2>1 DEF RuleRows
  <1>4. /\ new.client = row.client /\ new.endpoint = row.endpoint
        /\ new.group = None /\ new.algo = algo
        /\ new.params = params /\ new.version = row.version + 1
    BY <1>2 DEF RuleRows
  <1> HIDE DEF new
  <1>5. q \in DetachTx
    BY <1>2, <1>3 DEF DetachTx
  <1>6. q.rule = r /\ q.old = row /\ q.new = new /\ ~InCommit(q)
    BY DEF InCommit
  <1> HIDE DEF q
  <1>7. q \in Requests /\ q \in RuleTxs /\ q # Idle /\ q \notin GroupTx
    BY <1>5, RequestKinds DEF Requests, RuleTxs
  <1>8. Proceeds(t, q, None)
    BY <1>1, <1>7 DEF Proceeds
  <1>9. Typed' /\ Frame /\ HoldersUnderWay' /\ tx'[t] = q /\ (TxSound(t)' => Sound')
    BY <1>7, <1>8, ProceedsKeeps
  <1>10. TxSound(t)'
    BY <1>1, <1>4, <1>6, <1>7, <1>9 DEF TxSound, RuleTxSound, Typed
  <1> QED
    BY <1>1, <1>4, <1>5, <1>6, <1>8, <1>9, <1>10

LEMMA MoveRuleProceeds ==
  ASSUME Typed, Sound, NEW t \in Txns, NEW r \in RuleIds, NEW g \in GroupIds,
         NEW ov \in Overrides, MoveRule(t, r, g, ov)
  PROVE  /\ tx[t] = Idle /\ started < MaxRequests /\ started' = started + 1
         /\ tx'[t] = [op |-> "move_to_group", pc |-> "loaded", rule |-> r, old |-> rules[r],
                      new |-> rules[r], group |-> g, overrides |-> ov]
         /\ tx'[t] \in MoveTx /\ r \in live
         /\ Proceeds(t, tx'[t], None) /\ Typed' /\ Frame /\ Sound'
  <1> DEFINE q == [op |-> "move_to_group", pc |-> "loaded", rule |-> r, old |-> rules[r],
                   new |-> rules[r], group |-> g, overrides |-> ov]
  <1>1. /\ tx[t] = Idle /\ started < MaxRequests /\ started' = started + 1
        /\ tx' = [tx EXCEPT ![t] = q] /\ r \in live
        /\ UNCHANGED <<rules, groups, live, used, lock>>
    BY DEF MoveRule, Begin
  <1>2. rules[r] \in RuleRows
    BY <1>1 DEF Typed
  <1>3. q \in MoveTx
    BY <1>2 DEF MoveTx
  <1>4. q.rule = r /\ q.old = rules[r] /\ q.new = rules[r] /\ ~InCommit(q)
    BY DEF InCommit
  <1> HIDE DEF q
  <1>5. q \in Requests /\ q \in RuleTxs /\ q # Idle /\ q \notin GroupTx
    BY <1>3, RequestKinds DEF Requests, RuleTxs
  <1>6. Proceeds(t, q, None)
    BY <1>1, <1>5 DEF Proceeds
  <1>7. Typed' /\ Frame /\ HoldersUnderWay' /\ tx'[t] = q /\ (TxSound(t)' => Sound')
    BY <1>5, <1>6, ProceedsKeeps
  <1>8. TxSound(t)'
    BY <1>1, <1>4, <1>5, <1>7 DEF TxSound, RuleTxSound, Typed
  <1> QED
    BY <1>1, <1>3, <1>6, <1>7, <1>8 DEF q

LEMMA LockGroupProceeds ==
  ASSUME Typed, Sound, NEW t \in Txns, NEW op \in {"update_group", "delete_group"},
         NEW g \in GroupIds, NEW params \in Maybe(Params), NEW priority \in Maybe(Priorities),
         NEW mode \in {None, "detach", "delete"}, LockGroup(t, op, g, params, priority, mode)
  PROVE  /\ tx[t] = Idle /\ started < MaxRequests /\ started' = started + 1
         /\ tx'[t].op = op /\ tx'[t].group = g
         /\ tx'[t].members = [r \in Members(g) |-> rules[r]]
         /\ tx'[t].params = params /\ tx'[t].priority = priority /\ tx'[t].mode = mode
         /\ tx'[t] \in GroupTx /\ g \in live
         /\ Proceeds(t, tx'[t], g) /\ Typed' /\ Frame /\ Sound'
  <1> DEFINE members == [r \in Members(g) |-> rules[r]]
             q == [op |-> op, group |-> g, members |-> members,
                   params |-> params, priority |-> priority, mode |-> mode]
  <1>1. /\ tx[t] = Idle /\ started < MaxRequests /\ started' = started + 1
        /\ tx' = [tx EXCEPT ![t] = q] /\ g \in live /\ Lockable(g)
        /\ lock' = [lock EXCEPT ![g] = t]
        /\ UNCHANGED <<rules, groups, live, used>>
    BY DEF LockGroup, Begin
  <1>2. Members(g) \subseteq RuleIds /\ Members(g) \subseteq live
    BY DEF Members
  <1>3. members \in Loaded /\ DOMAIN members = Members(g)
    BY <1>2 DEF Loaded, Typed
  <1> HIDE DEF members
  <1>4. q \in GroupTx
    BY <1>3 DEF GroupTx
  <1>5. /\ q.op = op /\ q.group = g /\ q.members = members
        /\ q.params = params /\ q.priority = priority /\ q.mode = mode
    OBVIOUS
  <1> HIDE DEF q
  <1>6. q \in Requests /\ q \notin RuleTxs /\ q # Idle
    BY <1>4, RequestKinds DEF Requests
  <1>7. Proceeds(t, q, g)
    BY <1>1, <1>6 DEF Proceeds
  <1>8. Typed' /\ Frame /\ HoldersUnderWay' /\ tx'[t] = q /\ (TxSound(t)' => Sound')
    BY <1>6, <1>7, ProceedsKeeps
  <1>9. Members(g)' = Members(g) /\ lock'[g] = t
    BY <1>1 DEF Members, Typed
  <1>10. TxSound(t)'
    BY <1>1, <1>2, <1>3, <1>5, <1>6, <1>8, <1>9 DEF TxSound, GroupTxSound, Typed
  <1> QED
    BY <1>1, <1>4, <1>5, <1>7, <1>8, <1>10 DEF members

(* The second steps of update_rule and move_to_group. *)

LEMMA PatchedIs ==
  ASSUME Typed, NEW old \in RuleRows, NEW patch \in PatchBodies,
         patch.overrides # None => old.group \in live
  PROVE  /\ Patched(old, patch) \in RuleRows
         /\ Patched(old, patch).client = old.client
         /\ Patched(old, patch).endpoint = old.endpoint
         /\ Patched(old, patch).sig = old.sig
         /\ Patched(old, patch).group = old.group
         /\ Patched(old, patch).version = old.version + 1
         /\ Patched(old, patch).algo = IF patch.algo # None THEN patch.algo ELSE old.algo
         /\ Patched(old, patch).priority =
              IF patch.priority # None THEN patch.priority ELSE old.priority
         /\ Patched(old, patch).params =
              IF patch.overrides # None
              THEN Effective(groups[old.group].params, patch.overrides)
              ELSE IF patch.params # None THEN patch.params ELSE old.params
         /\ Patched(old, patch).overrides =
              IF patch.overrides # None THEN patch.overrides ELSE old.overrides
  <1> DEFINE algo == IF patch.algo # None THEN patch.algo ELSE old.algo
             priority == IF patch.priority # None THEN patch.priority ELSE old.priority
             params == IF patch.overrides # None
                       THEN Effective(groups[old.group].params, patch.overrides)
                       ELSE IF patch.params # None THEN patch.params ELSE old.params
             overrides == IF patch.overrides # None THEN patch.overrides ELSE old.overrides
             status == IF patch.status # None THEN patch.status ELSE old.status
             version == old.version + 1
  <1>1. Patched(old, patch) =
          [old EXCEPT !.algo = algo, !.priority = priority, !.params = params,
                      !.overrides = overrides, !.status = status, !.version = version]
    BY DEF Patched
  <1>2. /\ algo \in Algorithms /\ priority \in Priorities /\ status \in Status
        /\ version \in Nat \ {0} /\ overrides \in Maybe(Overrides)
    BY DEF RuleRows, PatchBodies, Maybe
  <1>3. params \in Params
    <2>1. CASE patch.overrides # None
      <3>1. old.group \in GroupIds \cap live
        BY <2>1, RuleStoreAssumption DEF Typed, RuleRows, Maybe
      <3>2. groups[old.group].params \in Params
        BY <3>1 DEF Typed, GroupRows
      <3>3. patch.overrides \in Maybe(Overrides)
        BY DEF PatchBodies
      <3> QED
        BY <2>1, <3>2, <3>3, EffectiveType
    <2>2. CASE patch.overrides = None
      BY <2>2 DEF RuleRows, PatchBodies, Maybe
    <2> QED
      BY <2>1, <2>2
  <1> HIDE DEF algo, priority, params, overrides, status, version
  <1>4. /\ Patched(old, patch) \in RuleRows
        /\ Patched(old, patch).client = old.client
        /\ Patched(old, patch).endpoint = old.endpoint
        /\ Patched(old, patch).sig = old.sig
        /\ Patched(old, patch).group = old.group
        /\ Patched(old, patch).version = version
        /\ Patched(old, patch).algo = algo
        /\ Patched(old, patch).priority = priority
        /\ Patched(old, patch).params = params
        /\ Patched(old, patch).overrides = overrides
    BY <1>1, <1>2, <1>3 DEF RuleRows
  <1> QED
    BY <1>4 DEF algo, priority, params, overrides, version

LEMMA PlanPatchProceeds ==
  ASSUME Typed, Sound, NEW t \in Txns, PlanPatch(t)
  PROVE  /\ tx[t] \in UpdateTx
         /\ \/ Abort(t)
            \/ /\ tx[t].patch.overrides # None => tx[t].old.group \in live
               /\ tx[t].patch.overrides # None =>
                    Builds(groups[tx[t].old.group].algo,
                           Effective(groups[tx[t].old.group].params, tx[t].patch.overrides))
               /\ tx'[t] = [tx[t] EXCEPT !.pc = "commit",
                                         !.new = Patched(tx[t].old, tx[t].patch)]
               /\ tx'[t] \in UpdateTx
               /\ started' = started
               /\ Proceeds(t, tx'[t], None) /\ Sound'
         /\ Typed' /\ Frame
  <1> DEFINE old == tx[t].old
             patch == tx[t].patch
             new == Patched(old, patch)
             q == [tx[t] EXCEPT !.pc = "commit", !.new = new]
  <1>1. tx[t] \in Requests /\ tx[t].op = "update_rule"
    BY DEF PlanPatch, Typed
  <1>2. tx[t] \in UpdateTx /\ tx[t] \in RuleTxs
    BY <1>1, RequestKinds DEF RuleTxs
  <1>3. CASE Abort(t)
    BY <1>2, <1>3, AbortKeeps
  <1>4. CASE ~Abort(t)
    <2>1. /\ patch.overrides # None =>
               /\ old.group \in live
               /\ Builds(groups[old.group].algo,
                         Effective(groups[old.group].params, patch.overrides))
          /\ tx' = [tx EXCEPT ![t].pc = "commit", ![t].new = new]
          /\ UNCHANGED <<rules, groups, live, used, lock, started>>
      BY <1>4 DEF PlanPatch
    <2>2. old \in RuleRows /\ patch \in PatchBodies
      BY <1>2 DEF UpdateTx
    <2>3. /\ new \in RuleRows /\ new.client = old.client /\ new.endpoint = old.endpoint
          /\ new.group = old.group
      BY <2>1, <2>2, PatchedIs
    <2> HIDE DEF new
    <2>4. tx' = [tx EXCEPT ![t] = q]
      BY <2>1 DEF Typed
    <2>5. q \in UpdateTx /\ q.rule = tx[t].rule /\ q.old = old /\ q.new = new /\ ~InCommit(q)
      BY <1>2, <2>3 DEF UpdateTx, InCommit
    <2> HIDE DEF q
    <2>6. q \in Requests /\ q \in RuleTxs /\ q # Idle /\ q \notin GroupTx
      BY <2>5, RequestKinds DEF Requests, RuleTxs
    <2>7. Proceeds(t, q, None)
      BY <2>1, <2>4, <2>6 DEF Proceeds
    <2>8. Typed' /\ Frame /\ HoldersUnderWay' /\ tx'[t] = q /\ (TxSound(t)' => Sound')
      BY <2>6, <2>7, ProceedsKeeps
    <2>9. RuleTxSound(t)
      BY <1>2 DEF Sound, TxSound
    <2>10. TxSound(t)'
      BY <2>1, <2>3, <2>5, <2>6, <2>8, <2>9 DEF TxSound, RuleTxSound
    <2> QED
      BY <1>2, <2>1, <2>5, <2>7, <2>8, <2>10 DEF q, new
  <1> QED
    BY <1>3, <1>4

LEMMA LockTargetProceeds ==
  ASSUME Typed, Sound, NEW t \in Txns, LockTarget(t)
  PROVE  /\ tx[t] \in MoveTx
         /\ \/ Abort(t)
            \/ LET old == tx[t].old
                   new == tx'[t].new
                   grow == groups[tx[t].group]
               IN  /\ tx[t].group \in live
                   /\ tx'[t] \in MoveTx
                   /\ tx'[t].rule = tx[t].rule /\ tx'[t].old = old
                   /\ tx'[t].group = tx[t].group /\ InCommit(tx'[t])
                   /\ new.client = old.client /\ new.endpoint = old.endpoint
                   /\ new.group = tx[t].group /\ new.version = old.version + 1
                   /\ SameShape(new, grow) /\ Builds(new.algo, new.params)
                   /\ started' = started
                   /\ Proceeds(t, tx'[t], tx[t].group) /\ Sound'
         /\ Typed' /\ Frame
  <1> DEFINE old == tx[t].old
             g == tx[t].group
             ov == tx[t].overrides
             grow == groups[g]
             merged == Effective(grow.params, ov)
             new == [old EXCEPT !.group = g, !.algo = grow.algo, !.sig = grow.sig,
                                !.priority = grow.priority, !.overrides = ov,
                                !.params = merged, !.version = @ + 1]
             q == [tx[t] EXCEPT !.pc = "commit", !.new = new]
  <1>1. tx[t] \in Requests /\ tx[t].op = "move_to_group"
    BY DEF LockTarget, Typed
  <1>2. tx[t] \in MoveTx /\ tx[t] \in RuleTxs
    BY <1>1, RequestKinds DEF RuleTxs
  <1>3. CASE Abort(t)
    BY <1>2, <1>3, AbortKeeps
  <1>4. CASE ~Abort(t)
    <2>1. /\ g \in live /\ RuleFits(tx[t].rule, old, grow, merged) /\ Lockable(g)
          /\ lock' = [lock EXCEPT ![g] = t]
          /\ tx' = [tx EXCEPT ![t].pc = "commit", ![t].new = new]
          /\ UNCHANGED <<rules, groups, live, used, started>>
      BY <1>4 DEF LockTarget
    <2>2. old \in RuleRows /\ g \in GroupIds /\ ov \in Overrides
      BY <1>2 DEF MoveTx
    <2>3. grow \in GroupRows
      BY <2>1, <2>2 DEF Typed
    <2>4. /\ grow.params \in Params /\ grow.sig \in Signatures /\ grow.algo \in Algorithms
          /\ grow.priority \in Priorities
      BY <2>3 DEF GroupRows
    <2>5. merged \in Params /\ ov \in Maybe(Overrides) /\ g \in Maybe(GroupIds)
      BY <2>2, <2>4, EffectiveType DEF Maybe
    <2>6. old.version + 1 \in Nat \ {0} /\ old.client = grow.client /\ Builds(grow.algo, merged)
      BY <2>1, <2>2 DEF RuleRows, RuleFits
    <2>7. merged = Effective(grow.params, ov)
      OBVIOUS
    <2> HIDE DEF grow, merged, g, ov, old
    <2>8. /\ new \in RuleRows /\ new.client = old.client /\ new.endpoint = old.endpoint
          /\ new.group = g /\ new.version = old.version + 1 /\ new.sig = grow.sig
          /\ new.algo = grow.algo /\ new.priority = grow.priority
          /\ new.overrides = ov /\ new.params = merged
      BY <2>2, <2>4, <2>5, <2>6 DEF RuleRows
    <2>9. SameShape(new, grow) /\ Builds(new.algo, new.params)
      BY <2>6, <2>7, <2>8 DEF SameShape
    <2> HIDE DEF new
    <2>10. tx' = [tx EXCEPT ![t] = q]
      BY <2>1 DEF Typed
    <2>11. /\ q \in MoveTx /\ q.rule = tx[t].rule /\ q.old = old /\ q.new = new
           /\ q.group = g /\ InCommit(q)
      BY <1>2, <2>8 DEF MoveTx, InCommit, old, g
    <2> HIDE DEF q
    <2>12. q \in Requests /\ q \in RuleTxs /\ q # Idle /\ q \notin GroupTx
      BY <2>11, RequestKinds DEF Requests, RuleTxs
    <2>13. Proceeds(t, q, g)
      BY <2>1, <2>2, <2>10, <2>12 DEF Proceeds
    <2>14. Typed' /\ Frame /\ HoldersUnderWay' /\ tx'[t] = q /\ (TxSound(t)' => Sound')
      BY <2>12, <2>13, ProceedsKeeps
    <2>15. RuleTxSound(t)
      BY <1>2 DEF Sound, TxSound
    <2>16. lock'[g] = t
      BY <2>1, <2>2 DEF Typed
    <2>17. TxSound(t)'
      <3>1. q.rule \in used' /\ (q.rule \in live' => rules'[q.rule].client = q.old.client)
        BY <2>1, <2>11, <2>15 DEF RuleTxSound, old
      <3>2. groups'[g].client = q.old.client
        BY <2>1, <2>6, <2>11 DEF grow
      <3>3. g \in live'
        BY <2>1
      <3>4. RuleTxSound(t)'
        BY <2>8, <2>11, <2>14, <2>16, <3>1, <3>2, <3>3 DEF RuleTxSound
      <3> QED
        BY <2>12, <2>14, <3>4 DEF TxSound
    <2> QED
      BY <1>2, <2>1, <2>8, <2>9, <2>11, <2>13, <2>14, <2>17 DEF old, grow, g
  <1> QED
    BY <1>3, <1>4

-----------------------------------------------------------------------------
(* The commits that are not refused. *)

RuleWritten(t) ==
  LET r == tx[t].rule
      row == Updated(rules[r], tx[t].old, tx[t].new)
  IN  /\ tx[t] \in RuleTxs /\ tx[t].pc = "commit"
      /\ r \in RuleIds \cap live
      /\ tx[t].old \in RuleRows /\ tx[t].new \in RuleRows
      /\ RowAccepted(r, row)
      /\ rules' = [rules EXCEPT ![r] = row]
      /\ \A s \in RuleIds : rules'[s] = IF s = r THEN row ELSE rules[s]
      /\ End(t)
      /\ UNCHANGED <<groups, live, used>>

LEMMA CommitRuleCases ==
  ASSUME Typed, NEW t \in Txns, CommitRule(t)
  PROVE  Abort(t) \/ RuleWritten(t)
  <1>1. tx[t] \in RuleTxs /\ tx[t].pc = "commit"
    BY RequestKinds DEF CommitRule, Typed
  <1>2. tx[t].rule \in RuleIds /\ tx[t].old \in RuleRows /\ tx[t].new \in RuleRows
    BY <1>1 DEF RuleTxs, UpdateTx, DetachTx, MoveTx
  <1>3. CASE Abort(t)
    BY <1>3
  <1>4. CASE ~Abort(t)
    <2>1. /\ tx[t].rule \in live
          /\ RowAccepted(tx[t].rule, Updated(rules[tx[t].rule], tx[t].old, tx[t].new))
          /\ rules' = [rules EXCEPT ![tx[t].rule] =
                         Updated(rules[tx[t].rule], tx[t].old, tx[t].new)]
          /\ End(t) /\ UNCHANGED <<groups, live, used>>
      BY <1>4 DEF CommitRule
    <2>2. \A s \in RuleIds : rules'[s] = IF s = tx[t].rule
                                         THEN Updated(rules[tx[t].rule], tx[t].old, tx[t].new)
                                         ELSE rules[s]
      BY <2>1 DEF Typed
    <2> QED
      BY <1>1, <1>2, <2>1, <2>2 DEF RuleWritten
  <1> QED
    BY <1>3, <1>4

LEMMA RuleWrittenKeeps ==
  ASSUME Typed, Sound, NEW t \in Txns, RuleWritten(t)
  PROVE  Typed' /\ Frame /\ Sound'
  <1> DEFINE r == tx[t].rule
             row == Updated(rules[r], tx[t].old, tx[t].new)
  <1>1. /\ r \in RuleIds \cap live /\ tx[t].old \in RuleRows /\ tx[t].new \in RuleRows
        /\ tx[t] \in RuleTxs
        /\ rules' = [rules EXCEPT ![r] = row]
        /\ \A s \in RuleIds : rules'[s] = IF s = r THEN row ELSE rules[s]
        /\ End(t) /\ UNCHANGED <<groups, live, used>>
    BY DEF RuleWritten
  <1>2. RuleTxSound(t)
    BY <1>1 DEF Sound, TxSound
  <1>3. rules[r] \in RuleRows
    BY <1>1 DEF Typed
  <1>4. /\ row \in RuleRows
        /\ row.client = IF tx[t].new.client = tx[t].old.client
                        THEN rules[r].client ELSE tx[t].new.client
        /\ row.group = IF tx[t].new.group = tx[t].old.group
                       THEN rules[r].group ELSE tx[t].new.group
    BY <1>1, <1>3, UpdatedColumns
  <1>5. row.client = rules[r].client
    BY <1>2, <1>4 DEF RuleTxSound
  <1>6. row.group \in {rules[r].group, None} \/ lock[row.group] = t
    BY <1>2, <1>4 DEF RuleTxSound
  <1> HIDE DEF row, r
  <1>7. Typed'
    <2>1. rules' \in [RuleIds -> RuleRows \cup {NoRow}]
      BY <1>1, <1>4 DEF Typed
    <2>2. \A s \in RuleIds : IF s \in live' THEN rules'[s] \in RuleRows ELSE rules'[s] = NoRow
      BY <1>1, <1>4 DEF Typed
    <2> QED
      BY <1>1, <2>1, <2>2, EndFacts DEF Typed
  <1>8. ASSUME NEW g \in GroupIds \cap live, lock[g] # None, tx'[lock[g]] # Idle
        PROVE  lock'[g] = lock[g] /\ Members(g)' \subseteq Members(g)
    <2>1. lock[g] # t /\ lock'[g] = lock[g]
      BY <1>1, <1>8, EndFacts
    <2>2. g # None
      BY RuleStoreAssumption
    <2>3. row.group = g => rules[r].group = g
      BY <1>6, <2>1, <2>2
    <2> QED
      BY <1>1, <2>1, <2>3 DEF Members
  <1>9. Frame
    BY <1>1, <1>5, <1>8 DEF Frame
  <1> QED
    BY <1>1, <1>7, <1>9, EndSound

GroupWritten(t) ==
  LET q == tx[t]
      g == q.group
      base == IF q.params # None THEN q.params ELSE groups[g].params
      prio == IF q.priority # None THEN q.priority ELSE groups[g].priority
  IN  /\ q \in GroupTx /\ q.op = "update_group"
      /\ g \in GroupIds \cap live
      /\ DOMAIN q.members \subseteq RuleIds
      /\ \A r \in DOMAIN q.members : q.members[r] \in RuleRows
      /\ groups' = [groups EXCEPT ![g] = [groups[g] EXCEPT !.params = base, !.priority = prio]]
      /\ rules' \in [RuleIds -> RuleRows \cup {NoRow}]
      /\ \A r \in RuleIds :
           rules'[r] = IF r \in DOMAIN q.members \cap live
                       THEN Updated(rules[r], q.members[r],
                                    NewMember(q.members[r], base, q.priority))
                       ELSE rules[r]
      /\ base \in Params /\ prio \in Priorities
      /\ End(t)
      /\ UNCHANGED <<live, used>>

LEMMA NewMemberIs ==
  ASSUME NEW row \in RuleRows, NEW base \in Params, NEW prio \in Maybe(Priorities)
  PROVE  /\ NewMember(row, base, prio) \in RuleRows
         /\ NewMember(row, base, prio).client = row.client
         /\ NewMember(row, base, prio).endpoint = row.endpoint
         /\ NewMember(row, base, prio).sig = row.sig
         /\ NewMember(row, base, prio).algo = row.algo
         /\ NewMember(row, base, prio).status = row.status
         /\ NewMember(row, base, prio).group = row.group
         /\ NewMember(row, base, prio).overrides = row.overrides
         /\ NewMember(row, base, prio).params = Effective(base, row.overrides)
         /\ NewMember(row, base, prio).priority = IF prio # None THEN prio ELSE row.priority
         /\ NewMember(row, base, prio).version = row.version + 1
  <1> DEFINE params == Effective(base, row.overrides)
             priority == IF prio # None THEN prio ELSE row.priority
             version == row.version + 1
  <1>1. params \in Params
    BY EffectiveType DEF RuleRows
  <1>2. priority \in Priorities /\ version \in Nat \ {0}
    BY DEF RuleRows, Maybe
  <1>3. NewMember(row, base, prio) =
          [row EXCEPT !.params = params, !.priority = priority, !.version = version]
    BY DEF NewMember, RuleRows
  <1> HIDE DEF params, priority, version
  <1> QED
    BY <1>1, <1>2, <1>3 DEF RuleRows, params, priority, version

LEMMA CommitGroupCases ==
  ASSUME Typed, Sound, NEW t \in Txns, CommitGroup(t)
  PROVE  Abort(t) \/ GroupWritten(t)
  <1> DEFINE q == tx[t]
             g == q.group
             base == IF q.params # None THEN q.params ELSE groups[g].params
             prio == IF q.priority # None THEN q.priority ELSE groups[g].priority
  <1>1. q \in GroupTx /\ q.op = "update_group"
    BY RequestKinds DEF CommitGroup, Typed
  <1>2. g \in GroupIds \cap live
    BY <1>1 DEF Sound, TxSound, GroupTxSound, GroupTx
  <1>3. DOMAIN q.members \subseteq RuleIds /\ \A r \in DOMAIN q.members : q.members[r] \in RuleRows
    BY <1>1 DEF GroupTx, Loaded
  <1>4. base \in Params /\ prio \in Priorities /\ q.priority \in Maybe(Priorities)
    <2>1. groups[g].params \in Params /\ groups[g].priority \in Priorities
      BY <1>2 DEF Typed, GroupRows
    <2> QED
      BY <1>1, <2>1 DEF GroupTx, Maybe
  <1>5. CASE ~Abort(t)
    <2>1. /\ groups' = [groups EXCEPT ![g].params = base, ![g].priority = prio]
          /\ rules' = [r \in RuleIds |->
                         IF r \in DOMAIN q.members \cap live
                         THEN Updated(rules[r], q.members[r],
                                      NewMember(q.members[r], base, q.priority))
                         ELSE rules[r]]
          /\ End(t) /\ UNCHANGED <<live, used>>
      BY <1>5 DEF CommitGroup
    <2>2. groups' = [groups EXCEPT ![g] = [groups[g] EXCEPT !.params = base, !.priority = prio]]
      BY <1>2, <2>1 DEF Typed
    <2> HIDE DEF base, prio
    <2>3. \A r \in DOMAIN q.members \cap live :
            Updated(rules[r], q.members[r], NewMember(q.members[r], base, q.priority)) \in RuleRows
      <3> TAKE r \in DOMAIN q.members \cap live
      <3>1. rules[r] \in RuleRows /\ q.members[r] \in RuleRows
        BY <1>3 DEF Typed
      <3>2. NewMember(q.members[r], base, q.priority) \in RuleRows
        BY <1>4, <3>1, NewMemberIs
      <3> QED
        BY <3>1, <3>2, UpdatedColumns
    <2>4. rules' \in [RuleIds -> RuleRows \cup {NoRow}]
      BY <2>1, <2>3 DEF Typed
    <2> QED
      BY <1>1, <1>2, <1>3, <1>4, <2>1, <2>2, <2>4 DEF GroupWritten, base, prio
  <1> QED
    BY <1>5

LEMMA GroupWrittenKeeps ==
  ASSUME Typed, Sound, NEW t \in Txns, GroupWritten(t)
  PROVE  /\ Typed' /\ Frame /\ Sound'
         /\ \A r \in RuleIds \cap live :
              /\ rules'[r].client = rules[r].client /\ rules'[r].endpoint = rules[r].endpoint
              /\ rules'[r].sig = rules[r].sig /\ rules'[r].status = rules[r].status
              /\ rules'[r].algo = rules[r].algo
              /\ rules'[r].group = rules[r].group /\ rules'[r].overrides = rules[r].overrides
  <1> DEFINE q == tx[t]
             g == q.group
             base == IF q.params # None THEN q.params ELSE groups[g].params
             prio == IF q.priority # None THEN q.priority ELSE groups[g].priority
             New(r) == NewMember(q.members[r], base, q.priority)
  <1>1. /\ q \in GroupTx /\ g \in GroupIds \cap live
        /\ DOMAIN q.members \subseteq RuleIds
        /\ \A r \in DOMAIN q.members : q.members[r] \in RuleRows
        /\ groups' = [groups EXCEPT ![g] = [groups[g] EXCEPT !.params = base, !.priority = prio]]
        /\ rules' \in [RuleIds -> RuleRows \cup {NoRow}]
        /\ \A r \in RuleIds : rules'[r] = IF r \in DOMAIN q.members \cap live
                                          THEN Updated(rules[r], q.members[r], New(r))
                                          ELSE rules[r]
        /\ base \in Params /\ prio \in Priorities
        /\ End(t) /\ UNCHANGED <<live, used>>
    BY DEF GroupWritten
  <1> HIDE DEF base, prio
  <1>2. q.priority \in Maybe(Priorities)
    BY <1>1 DEF GroupTx
  <1>3. ASSUME NEW r \in RuleIds \cap live
        PROVE  /\ rules'[r] \in RuleRows
               /\ rules'[r].client = rules[r].client /\ rules'[r].endpoint = rules[r].endpoint
               /\ rules'[r].sig = rules[r].sig /\ rules'[r].status = rules[r].status
               /\ rules'[r].algo = rules[r].algo
               /\ rules'[r].group = rules[r].group /\ rules'[r].overrides = rules[r].overrides
    <2>1. rules[r] \in RuleRows
      BY DEF Typed
    <2>2. CASE r \in DOMAIN q.members
      <3> DEFINE old == q.members[r]
      <3>1. old \in RuleRows /\ rules'[r] = Updated(rules[r], old, New(r))
        BY <1>1, <2>2
      <3>2. /\ New(r) \in RuleRows
            /\ New(r).client = old.client /\ New(r).endpoint = old.endpoint
            /\ New(r).sig = old.sig /\ New(r).status = old.status /\ New(r).algo = old.algo
            /\ New(r).group = old.group /\ New(r).overrides = old.overrides
        BY <1>1, <1>2, <3>1, NewMemberIs
      <3> HIDE DEF New, old
      <3> QED
        BY <2>1, <3>1, <3>2, UpdatedColumns
    <2>3. CASE r \notin DOMAIN q.members
      BY <1>1, <2>1, <2>3
    <2> QED
      BY <2>2, <2>3
  <1> HIDE DEF New
  <1>4. /\ groups' \in [GroupIds -> GroupRows \cup {NoGroup}]
        /\ \A h \in GroupIds : h # g => groups'[h] = groups[h]
        /\ groups'[g] \in GroupRows /\ groups'[g].client = groups[g].client
    <2> DEFINE grow == [groups[g] EXCEPT !.params = base, !.priority = prio]
    <2>1. groups[g] \in GroupRows
      BY <1>1 DEF Typed
    <2>2. grow \in GroupRows /\ grow.client = groups[g].client
      BY <1>1, <2>1 DEF GroupRows
    <2>3. groups' = [groups EXCEPT ![g] = grow]
      BY <1>1
    <2>4. g \in GroupIds /\ groups \in [GroupIds -> GroupRows \cup {NoGroup}]
      BY <1>1 DEF Typed
    <2> HIDE DEF grow, g
    <2> QED
      BY <2>2, <2>3, <2>4
  <1> HIDE DEF g
  <1>5. Typed'
    <2>1. \A r \in RuleIds : IF r \in live' THEN rules'[r] \in RuleRows ELSE rules'[r] = NoRow
      BY <1>1, <1>3 DEF Typed
    <2>2. \A h \in GroupIds : IF h \in live' THEN groups'[h] \in GroupRows ELSE groups'[h] = NoGroup
      BY <1>1, <1>4 DEF Typed
    <2> QED
      BY <1>1, <1>4, <2>1, <2>2, EndFacts DEF Typed
  <1>6. Frame
    <2>1. \A h \in GroupIds : lock[h] # None /\ tx'[lock[h]] # Idle => lock'[h] = lock[h]
      BY <1>1, EndFacts
    <2>2. \A h \in GroupIds : Members(h)' \subseteq Members(h)
      BY <1>1, <1>3 DEF Members
    <2>3. \A h \in GroupIds \cap live : h \in live' /\ groups'[h].client = groups[h].client
      BY <1>1, <1>4
    <2>4. \A r \in RuleIds \cap used :
            r \in live' => r \in live /\ rules'[r].client = rules[r].client
      BY <1>1, <1>3
    <2> QED
      BY <1>1, <2>1, <2>2, <2>3, <2>4 DEF Frame
  <1> QED
    BY <1>1, <1>3, <1>5, <1>6, EndSound

BareRow(row) == [row EXCEPT !.group = None, !.overrides = None]

GroupDropped(t) ==
  LET q == tx[t]
      g == q.group
      detach == q.mode = "detach"
  IN  /\ q \in GroupTx /\ q.op = "delete_group"
      /\ g \in GroupIds \cap live
      /\ DOMAIN q.members \subseteq RuleIds
      /\ \A r \in DOMAIN q.members : q.members[r] \in RuleRows
      /\ \A r \in RuleIds :
           rules'[r] = IF r \notin DOMAIN q.members \cap live THEN rules[r]
                       ELSE IF detach THEN Updated(rules[r], q.members[r], BareRow(q.members[r]))
                                      ELSE NoRow
      /\ DOMAIN rules' = RuleIds /\ rules' = [r \in RuleIds |-> rules'[r]]
      /\ groups' = [groups EXCEPT ![g] = NoGroup]
      /\ live' = (live \ (IF detach THEN {} ELSE DOMAIN q.members \cap live)) \ {g}
      /\ \A r \in RuleIds \cap live' : rules'[r].group # g
      /\ End(t)
      /\ UNCHANGED used

LEMMA CommitDropCases ==
  ASSUME Typed, Sound, NEW t \in Txns, CommitDrop(t)
  PROVE  Abort(t) \/ GroupDropped(t)
  <1> DEFINE q == tx[t]
             g == q.group
             members == q.members
             detach == q.mode = "detach"
             after == [r \in RuleIds |->
                         IF r \notin DOMAIN members \cap live THEN rules[r]
                         ELSE IF detach THEN Updated(rules[r], members[r], BareRow(members[r]))
                                        ELSE NoRow]
             left == live \ (IF detach THEN {} ELSE DOMAIN members \cap live)
  <1>1. q \in GroupTx /\ q.op = "delete_group"
    BY RequestKinds DEF CommitDrop, Typed
  <1>2. g \in GroupIds \cap live
    BY <1>1 DEF Sound, TxSound, GroupTxSound, GroupTx
  <1>3. DOMAIN members \subseteq RuleIds /\ \A r \in DOMAIN members : members[r] \in RuleRows
    BY <1>1 DEF GroupTx, Loaded
  <1>4. CASE ~Abort(t)
    <2>1. /\ \A r \in RuleIds \cap left : after[r].group # g
          /\ rules' = after
          /\ groups' = [groups EXCEPT ![g] = NoGroup]
          /\ live' = left \ {g}
          /\ End(t) /\ UNCHANGED used
      BY <1>4 DEF CommitDrop, BareRow
    <2>2. \A r \in RuleIds :
            rules'[r] = IF r \notin DOMAIN members \cap live THEN rules[r]
                        ELSE IF detach THEN Updated(rules[r], members[r], BareRow(members[r]))
                                       ELSE NoRow
      BY <2>1
    <2>3. DOMAIN rules' = RuleIds /\ rules' = [r \in RuleIds |-> rules'[r]]
      BY <2>1
    <2>4. \A r \in RuleIds \cap live' : rules'[r].group # g
      BY <2>1
    <2> HIDE DEF after
    <2> QED
      BY <1>1, <1>2, <1>3, <2>1, <2>2, <2>3, <2>4 DEF GroupDropped
  <1> QED
    BY <1>4

LEMMA GroupDroppedKeeps ==
  ASSUME Typed, Sound, NEW t \in Txns, GroupDropped(t)
  PROVE  /\ Typed' /\ Frame /\ Sound'
         /\ \A r \in RuleIds \cap live' :
              /\ r \in live /\ rules'[r].group # tx[t].group
              /\ rules'[r].client = rules[r].client /\ rules'[r].endpoint = rules[r].endpoint
              /\ rules'[r].sig = rules[r].sig /\ rules'[r].status = rules[r].status
              /\ rules'[r].algo = rules[r].algo /\ rules'[r].params = rules[r].params
              /\ rules'[r].priority = rules[r].priority
              /\ rules'[r].version = rules[r].version
              /\ rules'[r] = rules[r] \/ rules'[r].group \in {rules[r].group, None}
         /\ \A r \in RuleIds \cap live' : r \notin DOMAIN tx[t].members => rules'[r] = rules[r]
         /\ \A g \in GroupIds : g # tx[t].group => groups'[g] = groups[g]
         /\ \A g \in GroupIds : g \in live' <=> g \in live /\ g # tx[t].group
  <1> DEFINE q == tx[t]
             g == q.group
             members == q.members
             detach == q.mode = "detach"
  <1>1. /\ q \in GroupTx
        /\ g \in GroupIds \cap live
        /\ DOMAIN members \subseteq RuleIds
        /\ \A r \in DOMAIN members : members[r] \in RuleRows
        /\ \A r \in RuleIds :
             rules'[r] = IF r \notin DOMAIN members \cap live THEN rules[r]
                         ELSE IF detach THEN Updated(rules[r], members[r], BareRow(members[r]))
                                        ELSE NoRow
        /\ rules' = [r \in RuleIds |-> rules'[r]]
        /\ groups' = [groups EXCEPT ![g] = NoGroup]
        /\ live' = (live \ (IF detach THEN {} ELSE DOMAIN members \cap live)) \ {g}
        /\ \A r \in RuleIds \cap live' : rules'[r].group # g
        /\ End(t) /\ UNCHANGED used
    BY DEF GroupDropped
  <1>2. /\ lock[g] = t /\ \A h \in GroupIds : h \notin RuleIds
    BY <1>1, RuleStoreAssumption DEF Sound, TxSound, GroupTxSound
  <1> HIDE DEF g, members, detach
  <1>3. ASSUME NEW r \in RuleIds, r \in live'
        PROVE  /\ r \in live /\ rules'[r] \in RuleRows /\ rules'[r].group # g
               /\ rules'[r].client = rules[r].client /\ rules'[r].endpoint = rules[r].endpoint
               /\ rules'[r].sig = rules[r].sig /\ rules'[r].status = rules[r].status
               /\ rules'[r].algo = rules[r].algo /\ rules'[r].params = rules[r].params
               /\ rules'[r].priority = rules[r].priority
               /\ rules'[r].version = rules[r].version
               /\ rules'[r] = rules[r] \/ rules'[r].group \in {rules[r].group, None}
    <2>1. r \in live /\ rules'[r].group # g
      BY <1>1, <1>3
    <2>2. rules[r] \in RuleRows
      BY <2>1 DEF Typed
    <2>3. CASE r \in DOMAIN members
      <3> DEFINE old == members[r]
                 new == BareRow(old)
      <3>1. detach
        BY <1>1, <1>3, <2>1, <2>3
      <3>2. old \in RuleRows /\ rules'[r] = Updated(rules[r], old, new)
        BY <1>1, <2>1, <2>3, <3>1
      <3>3. new \in RuleRows
        BY <3>2 DEF BareRow, RuleRows, Maybe
      <3>4. /\ new.client = old.client /\ new.endpoint = old.endpoint /\ new.sig = old.sig
            /\ new.status = old.status /\ new.algo = old.algo /\ new.params = old.params
            /\ new.priority = old.priority /\ new.version = old.version /\ new.group = None
        BY <3>2 DEF BareRow, RuleRows
      <3> HIDE DEF old, new
      <3> QED
        BY <2>1, <2>2, <3>2, <3>3, <3>4, UpdatedColumns
    <2>4. CASE r \notin DOMAIN members
      BY <1>1, <2>1, <2>2, <2>4
    <2> QED
      BY <2>3, <2>4
  <1>4. /\ groups' \in [GroupIds -> GroupRows \cup {NoGroup}]
        /\ \A h \in GroupIds : groups'[h] = IF h = g THEN NoGroup ELSE groups[h]
    BY <1>1 DEF Typed
  <1>5. \A h \in GroupIds : h \in live' <=> h \in live /\ h # g
    BY <1>1, <1>2
  <1>6. \A r \in RuleIds : r \notin live' => rules'[r] = NoRow
    <2> SUFFICES ASSUME NEW r \in RuleIds, r \notin live'
                 PROVE  rules'[r] = NoRow
      OBVIOUS
    <2>1. CASE r \in DOMAIN members \cap live
      BY <1>1, <1>2, <2>1
    <2>2. CASE r \notin DOMAIN members \cap live
      BY <1>1, <1>2, <2>2 DEF Typed
    <2> QED
      BY <2>1, <2>2
  <1>7. Typed'
    <2>1. rules' \in [RuleIds -> RuleRows \cup {NoRow}]
      <3>1. \A r \in RuleIds : rules'[r] \in RuleRows \cup {NoRow}
        BY <1>3, <1>6
      <3>2. rules' = [r \in RuleIds |-> rules'[r]]
        BY <1>1
      <3> QED
        BY <3>1, <3>2
    <2>2. \A r \in RuleIds : IF r \in live' THEN rules'[r] \in RuleRows ELSE rules'[r] = NoRow
      BY <1>3, <1>6
    <2>3. \A h \in GroupIds : IF h \in live' THEN groups'[h] \in GroupRows ELSE groups'[h] = NoGroup
      BY <1>4, <1>5 DEF Typed
    <2>4. live' \subseteq used' /\ used' \subseteq RuleIds \cup GroupIds
      BY <1>1 DEF Typed
    <2>5. /\ tx' \in [Txns -> Requests] /\ lock' \in [GroupIds -> Maybe(Txns)]
          /\ started' \in Nat
      BY <1>1, EndFacts DEF Typed
    <2> QED
      BY <1>4, <2>1, <2>2, <2>3, <2>4, <2>5 DEF Typed
  <1>8. Frame
    <2>1. \A h \in GroupIds : lock[h] # None /\ tx'[lock[h]] # Idle =>
            lock'[h] = lock[h] /\ h # g
      BY <1>1, <1>2, EndFacts
    <2>2. \A h \in GroupIds : Members(h)' \subseteq Members(h)
      <3> SUFFICES ASSUME NEW h \in GroupIds, NEW r \in RuleIds, r \in live',
                          rules'[r].group = h
                   PROVE  r \in live /\ rules[r].group = h
        BY DEF Members
      <3>1. h # None
        BY RuleStoreAssumption
      <3> QED
        BY <1>3, <3>1
    <2>3. \A r \in RuleIds \cap used :
            r \in live' => r \in live /\ rules'[r].client = rules[r].client
      BY <1>3
    <2> QED
      BY <1>1, <1>4, <1>5, <2>1, <2>2, <2>3 DEF Frame
  <1>9. \A r \in RuleIds \cap live' : r \notin DOMAIN members => rules'[r] = rules[r]
    BY <1>1
  <1> QED
    BY <1>1, <1>3, <1>4, <1>5, <1>7, <1>8, <1>9, EndSound DEF g, members

-----------------------------------------------------------------------------
(* The steps there are, and what each of them keeps. *)

LEMMA Steps ==
  ASSUME Typed, Sound, [Next]_vars
  PROVE  /\ Typed' /\ Frame /\ Sound'
         /\ \/ \E N : Inserts(N)
            \/ \E r \in RuleIds : DeleteRule(r)
            \/ \E t \in Txns : RuleWritten(t) \/ GroupWritten(t) \/ GroupDropped(t)
            \/ UNCHANGED <<rules, groups, live, used>>
  <1>1. CASE \E r \in RuleIds, c \in Clients, e \in Endpoints, s \in Signatures,
                a \in Algorithms, p \in Params, n \in Priorities : CreateRule(r, c, e, s, a, p, n)
    BY <1>1, CreateRuleInserts, InsertsKeeps
  <1>2. CASE \E r \in RuleIds : DeleteRule(r)
    BY <1>2, DeleteRuleKeeps
  <1>3. CASE \E g \in GroupIds, grow \in GroupRows, ids \in NewMembers :
               \E ov \in [DOMAIN ids -> Overrides] : CreateGroup(g, grow, ids, ov)
    BY <1>3, CreateGroupInserts, InsertsKeeps
  <1>4. CASE \E g \in GroupIds, ids \in NewMembers :
               \E ov \in [DOMAIN ids -> Overrides] : AddMembers(g, ids, ov)
    BY <1>4, AddMembersInserts, InsertsKeeps
  <1>5. ASSUME NEW t \in Txns, NEW r \in RuleIds, NEW p \in Patches, NEW patch \in Expecting(p),
               PatchRule(t, r, patch)
        PROVE  Typed' /\ Frame /\ Sound' /\ UNCHANGED <<rules, groups, live, used>>
    <2>1. patch \in PatchBodies
      BY PatchType
    <2> QED
      BY <1>5, <2>1, PatchRuleProceeds DEF Proceeds
  <1>6. ASSUME NEW t \in Txns, PlanPatch(t)
        PROVE  Typed' /\ Frame /\ Sound' /\ UNCHANGED <<rules, groups, live, used>>
    BY <1>6, PlanPatchProceeds, AbortKeeps DEF Proceeds, Abort
  <1>7. ASSUME NEW t \in Txns, NEW r \in RuleIds, NEW a \in Algorithms, NEW p \in Params,
               DetachRule(t, r, a, p)
        PROVE  Typed' /\ Frame /\ Sound' /\ UNCHANGED <<rules, groups, live, used>>
    BY <1>7, DetachRuleProceeds DEF Proceeds
  <1>8. ASSUME NEW t \in Txns, NEW r \in RuleIds, NEW g \in GroupIds, NEW ov \in Overrides,
               MoveRule(t, r, g, ov)
        PROVE  Typed' /\ Frame /\ Sound' /\ UNCHANGED <<rules, groups, live, used>>
    BY <1>8, MoveRuleProceeds DEF Proceeds
  <1>9. ASSUME NEW t \in Txns, LockTarget(t)
        PROVE  Typed' /\ Frame /\ Sound' /\ UNCHANGED <<rules, groups, live, used>>
    BY <1>9, LockTargetProceeds, AbortKeeps DEF Proceeds, Abort
  <1>10. ASSUME NEW t \in Txns, CommitRule(t)
         PROVE  /\ Typed' /\ Frame /\ Sound'
                /\ RuleWritten(t) \/ UNCHANGED <<rules, groups, live, used>>
    BY <1>10, CommitRuleCases, RuleWrittenKeeps, AbortKeeps DEF Abort
  <1>11. ASSUME NEW t \in Txns, NEW g \in GroupIds, NEW p \in Maybe(Params),
                NEW n \in Maybe(Priorities), PatchGroup(t, g, p, n)
         PROVE  Typed' /\ Frame /\ Sound' /\ UNCHANGED <<rules, groups, live, used>>
    BY <1>11, LockGroupProceeds DEF PatchGroup, Proceeds
  <1>12. ASSUME NEW t \in Txns, CommitGroup(t)
         PROVE  /\ Typed' /\ Frame /\ Sound'
                /\ GroupWritten(t) \/ UNCHANGED <<rules, groups, live, used>>
    BY <1>12, CommitGroupCases, GroupWrittenKeeps, AbortKeeps DEF Abort
  <1>13. ASSUME NEW t \in Txns, NEW g \in GroupIds, NEW mode \in {"detach", "delete"},
                DropGroup(t, g, mode)
         PROVE  Typed' /\ Frame /\ Sound' /\ UNCHANGED <<rules, groups, live, used>>
    <2>1. None \in Maybe(Params) /\ None \in Maybe(Priorities)
      BY DEF Maybe
    <2> QED
      BY <1>13, <2>1, LockGroupProceeds DEF DropGroup, Proceeds
  <1>14. ASSUME NEW t \in Txns, CommitDrop(t)
         PROVE  /\ Typed' /\ Frame /\ Sound'
                /\ GroupDropped(t) \/ UNCHANGED <<rules, groups, live, used>>
    BY <1>14, CommitDropCases, GroupDroppedKeeps, AbortKeeps DEF Abort
  <1>15. CASE UNCHANGED vars
    <2>1. UNCHANGED <<rules, groups, live, used, lock, tx, started>>
      BY <1>15 DEF vars
    <2>2. Typed'
      BY <2>1 DEF Typed
    <2>3. Frame
      BY <2>1 DEF Frame, Members
    <2> QED
      BY <2>1, <2>2, <2>3, StoreStepSound
  <1> QED
    BY <1>1, <1>2, <1>3, <1>4, <1>5, <1>6, <1>7, <1>8, <1>9, <1>10, <1>11, <1>12, <1>13,
       <1>14, <1>15 DEF Next

LEMMA SoundInit == Init => Sound
  <1> SUFFICES ASSUME Init
               PROVE  Sound
    OBVIOUS
  <1>1. Idle \notin RuleTxs /\ Idle \notin GroupTx
    BY RequestKinds DEF Requests
  <1>2. \A t \in Txns : tx[t] = Idle
    BY DEF Init
  <1>3. \A g \in GroupIds : lock[g] = None
    BY DEF Init
  <1> QED
    BY <1>1, <1>2, <1>3 DEF Sound, TxSound, HoldersUnderWay

LEMMA AlwaysSound == Spec => [](Typed /\ Sound)
  <1>1. Init => Typed /\ Sound
    BY TypedInit, SoundInit
  <1>2. Typed /\ Sound /\ [Next]_vars => Typed' /\ Sound'
    BY Steps
  <1> QED
    BY <1>1, <1>2, PTL DEF Spec

-----------------------------------------------------------------------------

(* NobodyJoinsLockedGroup of RuleGroupService, for any number of overlapping
   requests: what update_group and delete_group loaded under FOR UPDATE is
   all that there is to change. *)
THEOREM LockedGroups == Spec => []NobodyJoinsLockedGroup
  <1>1. Typed /\ Sound => NobodyJoinsLockedGroup
    <2> SUFFICES ASSUME Typed, Sound, NEW t \in Txns,
                        tx[t].op \in {"update_group", "delete_group"}
                 PROVE  Members(tx[t].group) \subseteq DOMAIN tx[t].members
      BY DEF NobodyJoinsLockedGroup
    <2>1. tx[t] \in GroupTx
      BY RequestKinds DEF Typed
    <2> QED
      BY <2>1 DEF Sound, TxSound, GroupTxSound
  <1> QED
    BY <1>1, AlwaysSound, PTL

(* No two requests, whatever they read before the other committed, leave two
   active rules on one scope: the partial unique index refuses the second, and
   the writes it does not see leave the scope alone. *)
LEMMA ScopesStep ==
  ASSUME Typed, Sound, OneActivePerScope, [Next]_vars
  PROVE  OneActivePerScope'
  <1> DEFINE Clash(x, y) ==
               /\ rules[x].status = "active" /\ rules[y].status = "active"
               /\ rules[x].client = rules[y].client /\ rules[x].endpoint = rules[y].endpoint
               /\ rules[x].sig = rules[y].sig
             Same(x) ==
               /\ x \in live
               /\ rules'[x].client = rules[x].client /\ rules'[x].endpoint = rules[x].endpoint
               /\ rules'[x].sig = rules[x].sig /\ rules'[x].status = rules[x].status
  <1> SUFFICES ASSUME NEW r \in RuleIds \cap live', NEW s \in RuleIds \cap live', Clash(r, s)',
                      r # s
               PROVE  FALSE
    BY DEF OneActivePerScope
  <1>1. ~(Same(r) /\ Same(s))
    BY DEF OneActivePerScope
  <1>2. CASE \E N : Inserts(N)
    <2>1. PICK N : Inserts(N)
      BY <1>2
    <2>2. ASSUME NEW x \in RuleIds \cap live', NEW y \in RuleIds \cap live', x \in N,
                 y \notin N, Clash(x, y)'
          PROVE  FALSE
      <3>1. Holders(rules'[x].client, rules'[x].endpoint, rules'[x].sig, {}) = {}
        BY <2>1, <2>2 DEF Inserts
      <3>2. y \in live /\ rules'[y] = rules[y]
        BY <2>1, <2>2 DEF Inserts
      <3> QED
        BY <2>2, <3>1, <3>2 DEF Holders
    <2>3. r \in N /\ s \in N => rules'[r].endpoint # rules'[s].endpoint
      BY <2>1 DEF Inserts
    <2>4. r \notin N /\ s \notin N => Same(r) /\ Same(s)
      BY <2>1 DEF Inserts
    <2> QED
      BY <1>1, <2>2, <2>3, <2>4
  <1>3. CASE \E q \in RuleIds : DeleteRule(q)
    BY <1>1, <1>3 DEF DeleteRule, Typed
  <1>4. ASSUME NEW t \in Txns, RuleWritten(t)
        PROVE  FALSE
    <2> DEFINE q == tx[t].rule
               row == Updated(rules[q], tx[t].old, tx[t].new)
    <2>1. /\ q \in live /\ RowAccepted(q, row) /\ UNCHANGED live
          /\ \A x \in RuleIds : rules'[x] = IF x = q THEN row ELSE rules[x]
      BY <1>4 DEF RuleWritten
    <2> HIDE DEF q, row
    <2>2. ASSUME NEW y \in RuleIds \cap live', y # q
          PROVE  ~(/\ row.status = "active" /\ rules[y].status = "active"
                   /\ row.client = rules[y].client /\ row.endpoint = rules[y].endpoint
                   /\ row.sig = rules[y].sig)
      BY <2>1, <2>2 DEF RowAccepted, Holders
    <2>3. r = q \/ s = q
      BY <1>1, <2>1
    <2> QED
      BY <2>1, <2>2, <2>3
  <1>5. ASSUME NEW t \in Txns, GroupWritten(t)
        PROVE  FALSE
    BY <1>1, <1>5, GroupWrittenKeeps DEF GroupWritten
  <1>6. ASSUME NEW t \in Txns, GroupDropped(t)
        PROVE  FALSE
    BY <1>1, <1>6, GroupDroppedKeeps
  <1>7. CASE UNCHANGED <<rules, groups, live, used>>
    BY <1>1, <1>7
  <1> QED
    BY <1>2, <1>3, <1>4, <1>5, <1>6, <1>7, Steps

(* OneActivePerScope (ux_rules_active_scope and the pre-checks of RuleService
   and RuleGroupService) for any number of rules and overlapping requests. *)
THEOREM OneActive == Spec => []OneActivePerScope
  <1>1. Init => OneActivePerScope
    BY DEF Init, OneActivePerScope
  <1>2. Typed /\ Sound /\ OneActivePerScope /\ [Next]_vars => OneActivePerScope'
    BY ScopesStep
  <1> QED
    BY <1>1, <1>2, AlwaysSound, PTL DEF Spec

-----------------------------------------------------------------------------
(* What polls see of the store is RuleTable. *)

LEMMA ServedIs ==
  ASSUME NEW r, NEW row
  PROVE  /\ Served(r, row).id = r /\ Served(r, row).client = row.client
         /\ Served(r, row).endpoint = row.endpoint /\ Served(r, row).sig = row.sig
         /\ Served(r, row).status = row.status
         /\ row \in RuleRows /\ r \in RuleIds => Served(r, row) \in ServedRows
  BY DEF Served, RuleRows, ServedRows, Builds, Status

(* The rows of the abstract table, now and after a step. *)
Now == {Served(r, rules[r]) : r \in RuleIds \cap live}

Then == {Served(r, rules'[r]) : r \in RuleIds \cap live'}

(* No step gives a rule to another client or endpoint. *)
LEMMA WrittenKeepsScope ==
  ASSUME Typed, Sound, NEW t \in Txns, RuleWritten(t)
  PROVE  /\ live' = live /\ used' = used
         /\ \A r \in RuleIds \cap live :
              rules'[r].client = rules[r].client /\ rules'[r].endpoint = rules[r].endpoint
  <1> DEFINE r == tx[t].rule
             row == Updated(rules[r], tx[t].old, tx[t].new)
  <1>1. /\ r \in RuleIds \cap live /\ tx[t].old \in RuleRows /\ tx[t].new \in RuleRows
        /\ tx[t] \in RuleTxs
        /\ \A s \in RuleIds : rules'[s] = IF s = r THEN row ELSE rules[s]
        /\ live' = live /\ used' = used
    BY DEF RuleWritten
  <1>2. rules[r] \in RuleRows /\ RuleTxSound(t)
    BY <1>1 DEF Typed, Sound, TxSound
  <1>3. row.client = rules[r].client /\ row.endpoint = rules[r].endpoint
    BY <1>1, <1>2, UpdatedColumns DEF RuleTxSound
  <1> HIDE DEF r, row
  <1> QED
    BY <1>1, <1>3

(* The three kinds of commits. *)
LEMMA CommitKinds ==
  ASSUME Typed, Sound, [Next]_vars
  PROVE  \/ \E N \in SUBSET (RuleIds \ used) :
              /\ RuleIds \cap live' = (RuleIds \cap live) \cup N
              /\ RuleIds \cap used' = (RuleIds \cap used) \cup N
              /\ \A r \in RuleIds \cap live : rules'[r] = rules[r]
         \/ /\ RuleIds \cap live' = RuleIds \cap live
            /\ RuleIds \cap used' = RuleIds \cap used
            /\ \A r \in RuleIds \cap live :
                 rules'[r].client = rules[r].client /\ rules'[r].endpoint = rules[r].endpoint
         \/ /\ live' \subseteq live /\ used' = used
            /\ \A r \in RuleIds \cap live' : rules'[r] = rules[r]
  <1>1. CASE \E N : Inserts(N)
    <2>1. PICK N : Inserts(N)
      BY <1>1
    <2>2. /\ N \subseteq RuleIds \ used /\ N \subseteq live' /\ live \subseteq used
          /\ live' \subseteq used'
          /\ \A r \in RuleIds \ N :
               /\ rules'[r] = rules[r] /\ (r \in live' <=> r \in live)
               /\ (r \in used' <=> r \in used)
      <3>1. Typed'
        BY Steps
      <3> QED
        BY <2>1, <3>1 DEF Inserts, Typed
    <2> QED
      BY <2>2
  <1>2. CASE \E r \in RuleIds : DeleteRule(r)
    BY <1>2 DEF DeleteRule, Typed
  <1>3. ASSUME NEW t \in Txns, RuleWritten(t)
        PROVE  /\ live' = live /\ used' = used
               /\ \A r \in RuleIds \cap live :
                    rules'[r].client = rules[r].client /\ rules'[r].endpoint = rules[r].endpoint
    BY <1>3, WrittenKeepsScope
  <1>4. ASSUME NEW t \in Txns, GroupWritten(t)
        PROVE  /\ live' = live /\ used' = used
               /\ \A r \in RuleIds \cap live :
                    rules'[r].client = rules[r].client /\ rules'[r].endpoint = rules[r].endpoint
    BY <1>4, GroupWrittenKeeps DEF GroupWritten
  <1>5. ASSUME NEW t \in Txns, GroupDropped(t), tx[t].mode = "detach"
        PROVE  /\ RuleIds \cap live' = RuleIds \cap live /\ used' = used
               /\ \A r \in RuleIds \cap live :
                    rules'[r].client = rules[r].client /\ rules'[r].endpoint = rules[r].endpoint
    <2>1. live' = (live \ {}) \ {tx[t].group} /\ tx[t].group \in GroupIds /\ used' = used
      BY <1>5 DEF GroupDropped
    <2>2. RuleIds \cap live' = RuleIds \cap live
      BY <2>1, RuleStoreAssumption
    <2> QED
      BY <1>5, <2>1, <2>2, GroupDroppedKeeps
  <1>6. ASSUME NEW t \in Txns, GroupDropped(t), tx[t].mode # "detach"
        PROVE  /\ live' \subseteq live /\ used' = used
               /\ \A r \in RuleIds \cap live' : rules'[r] = rules[r]
    <2>1. /\ live' = (live \ DOMAIN tx[t].members) \ {tx[t].group} /\ used' = used
          /\ \A r \in RuleIds : r \notin DOMAIN tx[t].members => rules'[r] = rules[r]
      BY <1>6 DEF GroupDropped
    <2> QED
      BY <2>1
  <1>7. CASE UNCHANGED <<rules, groups, live, used>>
    BY <1>7
  <1> QED
    BY <1>1, <1>2, <1>3, <1>4, <1>5, <1>6, <1>7, Steps

LEMMA TableStep ==
  ASSUME Typed, Typed', Sound, OneActivePerScope', [Next]_vars
  PROVE  Table!Next
  <1> DEFINE U0 == used \cap RuleIds
             U1 == used' \cap RuleIds
  <1>1. Then \subseteq ServedRows
    BY ServedIs DEF Then, Typed
  <1>2. \A a, b \in Then :
          (\/ a.id = b.id
           \/ /\ a.status = "active" /\ b.status = "active"
              /\ a.client = b.client /\ a.endpoint = b.endpoint /\ a.sig = b.sig) => a = b
    BY ServedIs DEF Then, OneActivePerScope
  <1>3. CASE \E N \in SUBSET (RuleIds \ used) :
               /\ RuleIds \cap live' = (RuleIds \cap live) \cup N
               /\ RuleIds \cap used' = (RuleIds \cap used) \cup N
               /\ \A r \in RuleIds \cap live : rules'[r] = rules[r]
    <2>1. PICK N \in SUBSET (RuleIds \ used) :
               /\ RuleIds \cap live' = (RuleIds \cap live) \cup N
               /\ RuleIds \cap used' = (RuleIds \cap used) \cup N
               /\ \A r \in RuleIds \cap live : rules'[r] = rules[r]
      BY <1>3
    <2>2. Now \subseteq Then
      BY <2>1 DEF Now, Then
    <2>3. \A r \in RuleIds \cap live : r \in used
      BY DEF Typed
    <2>4. \A a \in Then \ Now : a.id \in N
      BY <2>1, ServedIs DEF Now, Then
    <2>5. \A r \in N : \E a \in Then \ Now : a.id = r
      <3> SUFFICES ASSUME NEW r \in N
                   PROVE  Served(r, rules'[r]) \in Then \ Now /\ Served(r, rules'[r]).id = r
        OBVIOUS
      <3> QED
        BY <2>1, <2>3, ServedIs DEF Now, Then
    <2>6. {a.id : a \in Then \ Now} = N
      BY <2>4, <2>5
    <2>7. N \cap U0 = {} /\ U1 = U0 \cup N
      BY <2>1
    <2> QED
      BY <1>1, <1>2, <2>2, <2>6, <2>7
         DEF Now, Then, Table!Next, Table!Unique, Table!Insert, Table!Ids
  <1>4. CASE /\ RuleIds \cap live' = RuleIds \cap live
             /\ RuleIds \cap used' = RuleIds \cap used
             /\ \A r \in RuleIds \cap live :
                  rules'[r].client = rules[r].client /\ rules'[r].endpoint = rules[r].endpoint
    <2>1. {a.id : a \in Now} = RuleIds \cap live /\ {a.id : a \in Then} = RuleIds \cap live
      <3>1. \A a \in Now : a.id \in RuleIds \cap live
        BY ServedIs DEF Now
      <3>2. \A a \in Then : a.id \in RuleIds \cap live
        BY <1>4, ServedIs DEF Then
      <3>3. \A r \in RuleIds \cap live : \E a \in Now : a.id = r
        <4> SUFFICES ASSUME NEW r \in RuleIds \cap live
                     PROVE  Served(r, rules[r]) \in Now /\ Served(r, rules[r]).id = r
          OBVIOUS
        <4> QED
          BY ServedIs DEF Now
      <3>4. \A r \in RuleIds \cap live : \E a \in Then : a.id = r
        <4> SUFFICES ASSUME NEW r \in RuleIds \cap live
                     PROVE  Served(r, rules'[r]) \in Then /\ Served(r, rules'[r]).id = r
          OBVIOUS
        <4> QED
          BY <1>4, ServedIs DEF Then
      <3> QED
        BY <3>1, <3>2, <3>3, <3>4
    <2>2. \A a \in Now, b \in Then : a.id = b.id => a.client = b.client /\ a.endpoint = b.endpoint
      BY <1>4, ServedIs DEF Now, Then
    <2>3. {a.id : a \in Then} = {a.id : a \in Now} /\ U1 = U0
      BY <1>4, <2>1
    <2> QED
      BY <1>1, <1>2, <2>2, <2>3
         DEF Now, Then, Table!Next, Table!Unique, Table!Update, Table!Ids
  <1>5. CASE /\ live' \subseteq live /\ used' = used
             /\ \A r \in RuleIds \cap live' : rules'[r] = rules[r]
    <2>1. Then \subseteq Now /\ U1 = U0
      BY <1>5 DEF Now, Then
    <2> QED
      BY <1>1, <1>2, <2>1 DEF Now, Then, Table!Next, Table!Unique, Table!Delete
  <1> QED
    BY <1>3, <1>4, <1>5, CommitKinds

(* ImplementsTable: however the requests of RuleService and RuleGroupService
   overlap, what polls see is RuleTable, the table that the check path is
   proved against. *)
THEOREM StoreImplementsTable == Spec => ImplementsTable
  <1>1. Init => Table!Init
    BY DEF Init, Table!Init
  <1>2. Typed /\ Typed' /\ Sound /\ OneActivePerScope' /\ [Next]_vars => Table!Next
    BY TableStep
  <1> QED
    BY <1>1, <1>2, AlwaysSound, OneActive, PTL DEF Spec, ImplementsTable, Table!Spec

LEMMA GroupsStep ==
  ASSUME Typed, Sound, GroupExistsForClient, [Next]_vars
  PROVE  GroupExistsForClient'
  <1> SUFFICES ASSUME NEW r \in RuleIds, r \in live', rules'[r].group # None
               PROVE  /\ rules'[r].group \in live'
                      /\ groups'[rules'[r].group].client = rules'[r].client
    BY DEF GroupExistsForClient, Grouped
  <1> DEFINE Kept == /\ r \in live /\ rules'[r].group = rules[r].group
                     /\ rules'[r].client = rules[r].client
  <1>1. Typed'
    BY Steps
  <1>2. rules'[r].group \in GroupIds
    BY <1>1 DEF Typed, RuleRows, Maybe
  <1>3. Kept => /\ rules'[r].group \in live
                /\ groups[rules'[r].group].client = rules'[r].client
    BY DEF GroupExistsForClient, Grouped
  <1>4. CASE \E N : Inserts(N)
    <2>1. PICK N : Inserts(N)
      BY <1>4
    <2>2. CASE r \in N
      BY <2>1, <2>2 DEF Inserts, SameShape
    <2>3. CASE r \notin N
      <3>1. Kept
        BY <2>1, <2>3 DEF Inserts
      <3>2. rules'[r].group \in GroupIds \cap used
        BY <1>2, <1>3, <3>1 DEF Typed
      <3> QED
        BY <1>3, <2>1, <3>1, <3>2 DEF Inserts
    <2> QED
      BY <2>2, <2>3
  <1>5. CASE \E q \in RuleIds : DeleteRule(q)
    <2>1. PICK q \in RuleIds : DeleteRule(q)
      BY <1>5
    <2>2. Kept /\ rules'[r].group # q
      BY <1>2, <2>1, RuleStoreAssumption DEF DeleteRule, Typed
    <2> QED
      BY <1>3, <2>1, <2>2 DEF DeleteRule
  <1>6. ASSUME NEW t \in Txns, RuleWritten(t)
        PROVE  /\ rules'[r].group \in live'
               /\ groups'[rules'[r].group].client = rules'[r].client
    <2> DEFINE q == tx[t]
               row == Updated(rules[q.rule], q.old, q.new)
    <2>1. /\ q \in RuleTxs /\ q.rule \in RuleIds \cap live
          /\ q.old \in RuleRows /\ q.new \in RuleRows
          /\ \A x \in RuleIds : rules'[x] = IF x = q.rule THEN row ELSE rules[x]
          /\ UNCHANGED <<groups, live, used>>
      BY <1>6 DEF RuleWritten
    <2>2. CASE r = q.rule
      <3>1. RuleTxSound(t)
        BY <2>1 DEF Sound, TxSound
      <3>2. rules[r] \in RuleRows
        BY <2>1, <2>2 DEF Typed
      <3>3. /\ row.client = IF q.new.client = q.old.client THEN rules[r].client ELSE q.new.client
            /\ row.group = IF q.new.group = q.old.group THEN rules[r].group ELSE q.new.group
        BY <2>1, <2>2, <3>2, UpdatedColumns
      <3> HIDE DEF row
      <3>4. rules'[r] = row /\ row.client = rules[r].client /\ rules[r].client = q.old.client
        BY <2>1, <2>2, <3>1, <3>3 DEF RuleTxSound
      <3>5. CASE row.group = rules[r].group
        BY <1>3, <2>1, <3>4, <3>5
      <3>6. CASE row.group # rules[r].group
        <4>1. row.group = q.new.group /\ q.new.group # q.old.group /\ row.group # None
          BY <3>3, <3>4, <3>6
        <4>2. row.group = q.group /\ q.group \in live /\ groups[q.group].client = q.old.client
          BY <3>1, <4>1 DEF RuleTxSound
        <4> QED
          BY <2>1, <3>4, <4>2
      <3> QED
        BY <3>5, <3>6
    <2>3. CASE r # q.rule
      BY <1>3, <2>1, <2>3
    <2> QED
      BY <2>2, <2>3
  <1>7. ASSUME NEW t \in Txns, GroupWritten(t)
        PROVE  /\ rules'[r].group \in live'
               /\ groups'[rules'[r].group].client = rules'[r].client
    <2>1. UNCHANGED live
      BY <1>7 DEF GroupWritten
    <2>2. Kept
      BY <1>7, <2>1, GroupWrittenKeeps
    <2>3. \A g \in GroupIds \cap live : groups'[g].client = groups[g].client
      <3> DEFINE h == tx[t].group
                 base == IF tx[t].params # None THEN tx[t].params ELSE groups[h].params
                 prio == IF tx[t].priority # None THEN tx[t].priority ELSE groups[h].priority
      <3>1. /\ h \in GroupIds \cap live
            /\ groups' = [groups EXCEPT ![h] = [groups[h] EXCEPT !.params = base, !.priority = prio]]
        BY <1>7 DEF GroupWritten
      <3>2. groups[h] \in GroupRows /\ groups \in [GroupIds -> GroupRows \cup {NoGroup}]
        BY <3>1 DEF Typed
      <3> HIDE DEF h, base, prio
      <3>3. [groups[h] EXCEPT !.params = base, !.priority = prio].client = groups[h].client
        BY <3>2 DEF GroupRows
      <3> QED
        BY <3>1, <3>2, <3>3
    <2> QED
      BY <1>2, <1>3, <2>1, <2>2, <2>3
  <1>8. ASSUME NEW t \in Txns, GroupDropped(t)
        PROVE  /\ rules'[r].group \in live'
               /\ groups'[rules'[r].group].client = rules'[r].client
    <2>1. Kept /\ rules'[r].group # tx[t].group
      BY <1>8, GroupDroppedKeeps
    <2>2. /\ \A g \in GroupIds : g # tx[t].group => groups'[g] = groups[g]
          /\ \A g \in GroupIds : g \in live' <=> g \in live /\ g # tx[t].group
      BY <1>8, GroupDroppedKeeps
    <2> QED
      BY <1>2, <1>3, <2>1, <2>2
  <1>9. CASE UNCHANGED <<rules, groups, live, used>>
    BY <1>3, <1>9
  <1> QED
    BY <1>4, <1>5, <1>6, <1>7, <1>8, <1>9, Steps

(* GroupExistsForClient of RuleGroupService, which no foreign key enforces:
   a rule and its group belong to one client, for any number of overlapping
   moves, detachments and deletions of groups. *)
THEOREM GroupsOfClients == Spec => []GroupExistsForClient
  <1>1. Init => GroupExistsForClient
    BY DEF Init, GroupExistsForClient, Grouped
  <1>2. Typed /\ Sound /\ GroupExistsForClient /\ [Next]_vars => GroupExistsForClient'
    BY GroupsStep
  <1> QED
    BY <1>1, <1>2, AlwaysSound, PTL DEF Spec

-----------------------------------------------------------------------------
(* Every write of a rule raises its version by one over the version it
   loaded, so that versions are bounded by the requests started so far. *)

TxVersions(t) ==
  /\ tx[t] \in RuleTxs =>
       tx[t].old.version <= started /\ tx[t].new.version <= started + 1
  /\ tx[t] \in GroupTx =>
       \A r \in DOMAIN tx[t].members : tx[t].members[r].version <= started

VersionsCounted ==
  /\ started <= MaxRequests
  /\ \A r \in RuleIds \cap live : rules[r].version <= started + 1
  /\ \A t \in Txns : TxVersions(t)

LEMMA TxVersionsTyped ==
  ASSUME Typed, NEW t \in Txns
  PROVE  /\ tx[t] \in RuleTxs => tx[t].old.version \in Nat /\ tx[t].new.version \in Nat
         /\ tx[t] \in GroupTx =>
              \A r \in DOMAIN tx[t].members : tx[t].members[r].version \in Nat
  <1>1. tx[t] \in RuleTxs => tx[t].old \in RuleRows /\ tx[t].new \in RuleRows
    BY DEF RuleTxs, UpdateTx, DetachTx, MoveTx
  <1>2. tx[t] \in GroupTx => \A r \in DOMAIN tx[t].members : tx[t].members[r] \in RuleRows
    BY DEF GroupTx, Loaded
  <1> QED
    BY <1>1, <1>2 DEF RuleRows

LEMMA VersionsProceed ==
  ASSUME Typed, VersionsCounted, NEW t \in Txns, NEW q, NEW g, Proceeds(t, q, g),
         started' <= MaxRequests, TxVersions(t)'
  PROVE  VersionsCounted'
  <1>1. \A u \in Txns : u # t => tx'[u] = tx[u]
    BY DEF Typed, Proceeds
  <1>2. started \in Nat /\ started' \in {started, started + 1}
    BY DEF Typed, Proceeds
  <1>3. ASSUME NEW u \in Txns, u # t
        PROVE  TxVersions(u)'
    BY <1>1, <1>2, <1>3, TxVersionsTyped DEF TxVersions, VersionsCounted
  <1>4. \A r \in RuleIds \cap live : rules[r].version \in Nat
    BY DEF Typed, RuleRows
  <1> QED
    BY <1>2, <1>3, <1>4 DEF VersionsCounted, Proceeds

LEMMA VersionsEnd ==
  ASSUME Typed, Sound, VersionsCounted, NEW t \in Txns, End(t),
         \A r \in RuleIds \cap live' : rules'[r].version <= started + 1
  PROVE  VersionsCounted'
  <1>1. /\ started' = started
        /\ \A u \in Txns : tx'[u] = IF u = t THEN Idle ELSE tx[u]
    BY EndFacts
  <1>2. Idle \notin RuleTxs /\ Idle \notin GroupTx
    BY RequestKinds DEF Requests
  <1>3. ASSUME NEW u \in Txns
        PROVE  TxVersions(u)'
    BY <1>1, <1>2 DEF TxVersions, VersionsCounted
  <1> QED
    BY <1>1, <1>3 DEF VersionsCounted

LEMMA VersionsWritten ==
  ASSUME Typed, Sound, VersionsCounted, NEW t \in Txns,
         RuleWritten(t) \/ GroupWritten(t) \/ GroupDropped(t) \/ Abort(t)
  PROVE  VersionsCounted'
  <1>1. \A r \in RuleIds \cap live : rules[r] \in RuleRows /\ rules[r].version <= started + 1
    BY DEF Typed, VersionsCounted
  <1>2. CASE RuleWritten(t)
    <2> DEFINE q == tx[t]
               row == Updated(rules[q.rule], q.old, q.new)
    <2>1. /\ q \in RuleTxs /\ q.rule \in RuleIds \cap live
          /\ q.old \in RuleRows /\ q.new \in RuleRows
          /\ \A x \in RuleIds : rules'[x] = IF x = q.rule THEN row ELSE rules[x]
          /\ UNCHANGED live /\ End(t)
      BY <1>2 DEF RuleWritten
    <2>2. row.version = IF q.new.version = q.old.version
                        THEN rules[q.rule].version ELSE q.new.version
      BY <1>1, <2>1, UpdatedColumns
    <2>3. row.version <= started + 1
      BY <1>1, <2>1, <2>2 DEF VersionsCounted, TxVersions
    <2> HIDE DEF row
    <2> QED
      BY <1>1, <2>1, <2>3, VersionsEnd
  <1>3. CASE GroupWritten(t)
    <2> DEFINE q == tx[t]
               base == IF q.params # None THEN q.params ELSE groups[q.group].params
               New(r) == NewMember(q.members[r], base, q.priority)
    <2>1. /\ q \in GroupTx /\ DOMAIN q.members \subseteq RuleIds
          /\ \A r \in DOMAIN q.members : q.members[r] \in RuleRows
          /\ \A r \in RuleIds : rules'[r] = IF r \in DOMAIN q.members \cap live
                                            THEN Updated(rules[r], q.members[r], New(r))
                                            ELSE rules[r]
          /\ base \in Params /\ UNCHANGED live /\ End(t)
      BY <1>3 DEF GroupWritten
    <2> HIDE DEF base
    <2>2. q.priority \in Maybe(Priorities)
      BY <2>1 DEF GroupTx
    <2>3. ASSUME NEW r \in RuleIds \cap live, r \in DOMAIN q.members
          PROVE  rules'[r].version <= started + 1
      <3>1. q.members[r].version <= started /\ q.members[r].version \in Nat /\ started \in Nat
        BY <2>1, <2>3, TxVersionsTyped DEF VersionsCounted, TxVersions, Typed
      <3>2. New(r) \in RuleRows /\ New(r).version = q.members[r].version + 1
        BY <2>1, <2>2, <2>3, NewMemberIs
      <3> HIDE DEF New
      <3>3. rules'[r].version = IF New(r).version = q.members[r].version
                                THEN rules[r].version ELSE New(r).version
        BY <1>1, <2>1, <2>3, <3>2, UpdatedColumns
      <3> QED
        BY <3>1, <3>2, <3>3
    <2>4. \A r \in RuleIds \cap live' : rules'[r].version <= started + 1
      BY <1>1, <2>1, <2>3
    <2> QED
      BY <2>1, <2>4, VersionsEnd
  <1>4. CASE GroupDropped(t)
    <2>1. \A r \in RuleIds \cap live' : r \in live /\ rules'[r].version = rules[r].version
      BY <1>4, GroupDroppedKeeps
    <2>2. End(t)
      BY <1>4 DEF GroupDropped
    <2> QED
      BY <1>1, <2>1, <2>2, VersionsEnd
  <1>5. CASE Abort(t)
    BY <1>1, <1>5, VersionsEnd DEF Abort
  <1> QED
    BY <1>2, <1>3, <1>4, <1>5

LEMMA VersionsInserted ==
  ASSUME Typed, VersionsCounted, NEW N, Inserts(N)
  PROVE  VersionsCounted'
  <1>1. UNCHANGED <<tx, started>> /\ started \in Nat
    BY DEF Inserts, Typed
  <1>2. \A r \in RuleIds \cap live' : rules'[r].version <= started + 1
    <2> TAKE r \in RuleIds \cap live'
    <2>1. CASE r \in N
      BY <1>1, <2>1 DEF Inserts
    <2>2. CASE r \notin N
      BY <2>2 DEF Inserts, VersionsCounted
    <2> QED
      BY <2>1, <2>2
  <1> QED
    BY <1>1, <1>2 DEF VersionsCounted, TxVersions

LEMMA VersionsStep ==
  ASSUME Typed, Sound, VersionsCounted, [Next]_vars
  PROVE  VersionsCounted'
  <1>0. /\ started \in Nat /\ MaxRequests \in Nat
        /\ \A r \in RuleIds \cap live : rules[r].version \in Nat /\ rules[r].version <= started + 1
    BY RuleStoreAssumption DEF Typed, RuleRows, VersionsCounted
  <1>1. CASE \E r \in RuleIds, c \in Clients, e \in Endpoints, s \in Signatures,
                a \in Algorithms, p \in Params, n \in Priorities : CreateRule(r, c, e, s, a, p, n)
    BY <1>1, CreateRuleInserts, VersionsInserted
  <1>2. CASE \E r \in RuleIds : DeleteRule(r)
    BY <1>0, <1>2 DEF DeleteRule, VersionsCounted, TxVersions, Typed
  <1>3. CASE \E g \in GroupIds, grow \in GroupRows, ids \in NewMembers :
               \E ov \in [DOMAIN ids -> Overrides] : CreateGroup(g, grow, ids, ov)
    BY <1>3, CreateGroupInserts, VersionsInserted
  <1>4. CASE \E g \in GroupIds, ids \in NewMembers :
               \E ov \in [DOMAIN ids -> Overrides] : AddMembers(g, ids, ov)
    BY <1>4, AddMembersInserts, VersionsInserted
  <1>5. ASSUME NEW t \in Txns, NEW r \in RuleIds, NEW p \in Patches, NEW patch \in Expecting(p),
               PatchRule(t, r, patch)
        PROVE  VersionsCounted'
    <2> DEFINE q == [op |-> "update_rule", pc |-> "loaded", rule |-> r, old |-> rules[r],
                     new |-> rules[r], patch |-> patch]
    <2>1. patch \in PatchBodies
      BY PatchType
    <2>2. /\ started < MaxRequests /\ started' = started + 1 /\ tx'[t] = q /\ r \in live
          /\ tx'[t] \in UpdateTx /\ Proceeds(t, tx'[t], None) /\ Typed'
      BY <1>5, <2>1, PatchRuleProceeds
    <2>3. tx'[t].old = rules[r] /\ tx'[t].new = rules[r] /\ tx'[t] \notin GroupTx
      BY <2>2, RequestKinds DEF Requests, RuleTxs
    <2> HIDE DEF q
    <2>4. TxVersions(t)'
      BY <1>0, <2>2, <2>3 DEF TxVersions
    <2> QED
      BY <1>0, <2>2, <2>4, VersionsProceed
  <1>6. ASSUME NEW t \in Txns, PlanPatch(t), ~Abort(t)
        PROVE  VersionsCounted'
    <2> DEFINE new == Patched(tx[t].old, tx[t].patch)
    <2>1. /\ tx[t] \in UpdateTx
          /\ tx[t].patch.overrides # None => tx[t].old.group \in live
          /\ tx'[t] = [tx[t] EXCEPT !.pc = "commit", !.new = new]
          /\ tx'[t] \in UpdateTx /\ started' = started /\ Proceeds(t, tx'[t], None)
      BY <1>6, PlanPatchProceeds
    <2>2. tx[t].old \in RuleRows /\ tx[t].patch \in PatchBodies /\ tx[t] \in RuleTxs
      BY <2>1 DEF UpdateTx, RuleTxs
    <2>3. new.version = tx[t].old.version + 1
      BY <2>1, <2>2, PatchedIs
    <2> HIDE DEF new
    <2>4. tx'[t].old = tx[t].old /\ tx'[t].new = new /\ tx'[t] \notin GroupTx
      BY <2>1, RequestKinds DEF Requests, RuleTxs, UpdateTx
    <2>5. tx[t].old.version <= started /\ tx[t].old.version \in Nat
      BY <2>2, TxVersionsTyped DEF VersionsCounted, TxVersions
    <2>6. TxVersions(t)'
      BY <1>0, <2>1, <2>3, <2>4, <2>5 DEF TxVersions
    <2> QED
      BY <2>1, <2>6, VersionsProceed DEF VersionsCounted
  <1>7. ASSUME NEW t \in Txns, NEW r \in RuleIds, NEW a \in Algorithms, NEW p \in Params,
               DetachRule(t, r, a, p)
        PROVE  VersionsCounted'
    <2>1. /\ started < MaxRequests /\ started' = started + 1 /\ r \in live
          /\ tx'[t] \in DetachTx /\ Proceeds(t, tx'[t], None)
          /\ tx'[t].old = rules[r] /\ tx'[t].new.version = rules[r].version + 1
      BY <1>7, DetachRuleProceeds
    <2>2. tx'[t] \notin GroupTx
      BY <2>1, RequestKinds DEF Requests, RuleTxs
    <2>3. TxVersions(t)'
      BY <1>0, <2>1, <2>2 DEF TxVersions
    <2> QED
      BY <1>0, <2>1, <2>3, VersionsProceed
  <1>8. ASSUME NEW t \in Txns, NEW r \in RuleIds, NEW g \in GroupIds, NEW ov \in Overrides,
               MoveRule(t, r, g, ov)
        PROVE  VersionsCounted'
    <2> DEFINE q == [op |-> "move_to_group", pc |-> "loaded", rule |-> r, old |-> rules[r],
                     new |-> rules[r], group |-> g, overrides |-> ov]
    <2>1. /\ started < MaxRequests /\ started' = started + 1 /\ tx'[t] = q /\ r \in live
          /\ tx'[t] \in MoveTx /\ Proceeds(t, tx'[t], None)
      BY <1>8, MoveRuleProceeds
    <2>2. tx'[t].old = rules[r] /\ tx'[t].new = rules[r] /\ tx'[t] \notin GroupTx
      BY <2>1, RequestKinds DEF Requests, RuleTxs
    <2> HIDE DEF q
    <2>3. TxVersions(t)'
      BY <1>0, <2>1, <2>2 DEF TxVersions
    <2> QED
      BY <1>0, <2>1, <2>3, VersionsProceed
  <1>9. ASSUME NEW t \in Txns, LockTarget(t), ~Abort(t)
        PROVE  VersionsCounted'
    <2>1. /\ tx[t] \in MoveTx /\ tx'[t] \in MoveTx /\ tx'[t].old = tx[t].old
          /\ tx'[t].new.version = tx[t].old.version + 1
          /\ started' = started /\ Proceeds(t, tx'[t], tx[t].group)
      BY <1>9, LockTargetProceeds
    <2>2. tx[t] \in RuleTxs /\ tx'[t] \notin GroupTx
      BY <2>1, RequestKinds DEF Requests, RuleTxs
    <2>3. tx[t].old.version <= started /\ tx[t].old.version \in Nat
      BY <2>2, TxVersionsTyped DEF VersionsCounted, TxVersions
    <2>4. TxVersions(t)'
      BY <1>0, <2>1, <2>2, <2>3 DEF TxVersions
    <2> QED
      BY <2>1, <2>4, VersionsProceed DEF VersionsCounted
  <1>10. ASSUME NEW t \in Txns, NEW op \in {"update_group", "delete_group"}, NEW g \in GroupIds,
                NEW params \in Maybe(Params), NEW priority \in Maybe(Priorities),
                NEW mode \in {None, "detach", "delete"}, LockGroup(t, op, g, params, priority, mode)
         PROVE  VersionsCounted'
    <2> DEFINE members == [r \in Members(g) |-> rules[r]]
    <2>1. /\ started < MaxRequests /\ started' = started + 1 /\ tx'[t].members = members
          /\ tx'[t] \in GroupTx /\ Proceeds(t, tx'[t], g)
      BY <1>10, LockGroupProceeds
    <2>2. tx'[t] \notin RuleTxs
      BY <2>1, RequestKinds DEF Requests
    <2>3. \A r \in DOMAIN members : members[r].version <= started + 1
      BY <1>0 DEF Members
    <2> HIDE DEF members
    <2>4. TxVersions(t)'
      BY <2>1, <2>2, <2>3 DEF TxVersions
    <2> QED
      BY <1>0, <2>1, <2>4, VersionsProceed
  <1>11. ASSUME NEW t \in Txns, NEW g \in GroupIds, NEW p \in Maybe(Params),
                NEW n \in Maybe(Priorities), PatchGroup(t, g, p, n)
         PROVE  VersionsCounted'
    BY <1>10, <1>11 DEF PatchGroup
  <1>12. ASSUME NEW t \in Txns, NEW g \in GroupIds, NEW mode \in {"detach", "delete"},
                DropGroup(t, g, mode)
         PROVE  VersionsCounted'
    BY <1>10, <1>12 DEF DropGroup, Maybe
  <1>13. ASSUME NEW t \in Txns, CommitRule(t) \/ CommitGroup(t) \/ CommitDrop(t) \/ Abort(t)
         PROVE  VersionsCounted'
    BY <1>13, CommitRuleCases, CommitGroupCases, CommitDropCases, VersionsWritten
  <1>14. CASE UNCHANGED vars
    BY <1>14 DEF vars, VersionsCounted, TxVersions
  <1> QED
    BY <1>1, <1>2, <1>3, <1>4, <1>5, <1>6, <1>7, <1>8, <1>9, <1>11, <1>12, <1>13, <1>14
       DEF Next

(* TypeOK for any number of overlapping requests: rows keep their shape, also
   the ones merged from two requests, versions are bounded by the requests,
   and whoever holds a lock is under way. *)
THEOREM StoreTypes == Spec => []TypeOK
  <1>1. Init => VersionsCounted
    <2>1. Idle \notin RuleTxs /\ Idle \notin GroupTx
      BY RequestKinds DEF Requests
    <2> QED
      BY <2>1, RuleStoreAssumption DEF Init, VersionsCounted, TxVersions
  <1>2. Typed /\ Sound /\ VersionsCounted /\ [Next]_vars => VersionsCounted'
    BY VersionsStep
  <1>3. Typed /\ Sound /\ VersionsCounted => TypeOK
    <2> SUFFICES ASSUME Typed, Sound, VersionsCounted
                 PROVE  TypeOK
      OBVIOUS
    <2>1. MaxRequests \in Nat
      BY RuleStoreAssumption
    <2>2. ASSUME NEW r \in RuleIds \cap live
          PROVE  /\ rules[r].client \in Clients /\ rules[r].endpoint \in Endpoints
                 /\ rules[r].sig \in Signatures /\ rules[r].algo \in Algorithms
                 /\ rules[r].params \in Params /\ rules[r].status \in {"active", "inactive"}
                 /\ rules[r].priority \in Priorities
                 /\ rules[r].version \in 1 .. MaxRequests + 1
                 /\ rules[r].group \in Maybe(GroupIds) /\ rules[r].overrides \in Maybe(Overrides)
      <3>1. rules[r] \in RuleRows
        BY DEF Typed
      <3>2. rules[r].version \in Nat \ {0} /\ rules[r].version <= started + 1
        BY <3>1 DEF RuleRows, VersionsCounted
      <3>3. started \in Nat /\ started <= MaxRequests
        BY DEF Typed, VersionsCounted
      <3>4. rules[r].version \in 1 .. MaxRequests + 1
        BY <2>1, <3>2, <3>3
      <3> QED
        BY <3>1, <3>4 DEF RuleRows, Status
    <2>3. \A r \in RuleIds : r \notin live => rules[r] = NoRow
      BY DEF Typed
    <2>4. \A g \in GroupIds : groups[g] \in IF g \in live THEN GroupRows ELSE {NoGroup}
      BY DEF Typed
    <2>5. \A g \in GroupIds : lock[g] # None => tx[lock[g]] # Idle
      BY DEF Sound, HoldersUnderWay
    <2> QED
      BY <2>2, <2>3, <2>4, <2>5 DEF TypeOK, Typed
  <1> QED
    BY <1>1, <1>2, <1>3, AlwaysSound, PTL DEF Spec

-----------------------------------------------------------------------------
(* The locks: a request that waits for one holds none. *)

(* The step that the holder of a group's lock takes next. *)
Ready(q, g) ==
  /\ q.op \in {"update_group", "delete_group"} \/ InCommit(q)
  /\ q.group = g

(* A request holds a group's lock only from taking it to its commit, which
   waits for nothing. *)
HoldersReady == \A g \in GroupIds : lock[g] # None => Ready(tx[lock[g]], g)

(* One who is not ready holds no lock. *)
LEMMA HoldsNone ==
  ASSUME Typed, HoldersReady, NEW t \in Txns,
         \/ tx[t] = Idle
         \/ tx[t].op = "update_rule"
         \/ tx[t].op = "move_to_group" /\ tx[t].pc = "loaded"
  PROVE  \A g \in GroupIds : lock[g] # t
  <1>1. ~(tx[t].op \in {"update_group", "delete_group"}) /\ ~InCommit(tx[t])
    BY RuleStoreAssumption DEF Idle, OpNames, InCommit
  <1> QED
    BY <1>1, RuleStoreAssumption DEF HoldersReady, Ready

LEMMA ReadyProceeds ==
  ASSUME Typed, HoldersReady, NEW t \in Txns, NEW q, NEW g, Proceeds(t, q, g),
         \A h \in GroupIds : lock[h] # t,
         UNCHANGED lock \/ Ready(q, g)
  PROVE  HoldersReady'
  <1>1. \A u \in Txns : tx'[u] = IF u = t THEN q ELSE tx[u]
    BY DEF Proceeds, Typed
  <1>2. \A h \in GroupIds : lock[h] # None => lock[h] \in Txns \ {t}
    BY DEF Typed, Maybe
  <1>3. \A h \in GroupIds : lock'[h] = lock[h] \/ (lock'[h] = t /\ h = g /\ Ready(q, g))
    BY DEF Proceeds, Typed
  <1> QED
    BY <1>1, <1>2, <1>3 DEF HoldersReady

LEMMA ReadyEnd ==
  ASSUME Typed, Sound, HoldersReady, NEW t \in Txns, End(t)
  PROVE  HoldersReady'
  <1>1. /\ \A u \in Txns : tx'[u] = IF u = t THEN Idle ELSE tx[u]
        /\ \A g \in GroupIds : lock'[g] = IF lock[g] = t THEN None ELSE lock[g]
    BY EndFacts
  <1>2. \A g \in GroupIds : lock[g] # None => lock[g] \in Txns
    BY DEF Typed, Maybe
  <1> SUFFICES ASSUME NEW g \in GroupIds, lock'[g] # None
               PROVE  Ready(tx'[lock'[g]], g)
    BY DEF HoldersReady
  <1>3. lock'[g] = lock[g] /\ lock[g] # None /\ lock[g] # t
    BY <1>1
  <1>4. tx'[lock'[g]] = tx[lock[g]]
    BY <1>1, <1>2, <1>3
  <1>5. Ready(tx[lock[g]], g)
    BY <1>3 DEF HoldersReady
  <1> QED
    BY <1>4, <1>5

LEMMA ReadyLockGroup ==
  ASSUME Typed, Sound, HoldersReady, NEW t \in Txns, NEW op \in {"update_group", "delete_group"},
         NEW g \in GroupIds, NEW params \in Maybe(Params), NEW priority \in Maybe(Priorities),
         NEW mode \in {None, "detach", "delete"}, LockGroup(t, op, g, params, priority, mode)
  PROVE  HoldersReady'
  <1>1. /\ tx[t] = Idle /\ tx'[t].op = op /\ tx'[t].group = g
        /\ tx'[t].members = [r \in Members(g) |-> rules[r]]
        /\ Proceeds(t, tx'[t], g)
    BY LockGroupProceeds
  <1>2. Ready(tx'[t], g)
    BY <1>1 DEF Ready
  <1> QED
    BY <1>1, <1>2, HoldsNone, ReadyProceeds

LEMMA ReadyStep ==
  ASSUME Typed, Sound, HoldersReady, [Next]_vars
  PROVE  HoldersReady'
  <1>1. CASE UNCHANGED <<lock, tx>>
    BY <1>1 DEF HoldersReady
  <1>2. ASSUME NEW t \in Txns, End(t)
        PROVE  HoldersReady'
    BY <1>2, ReadyEnd
  <1>3. ASSUME NEW t \in Txns, NEW r \in RuleIds, NEW p \in Patches, NEW patch \in Expecting(p),
               PatchRule(t, r, patch)
        PROVE  HoldersReady'
    <2>1. patch \in PatchBodies
      BY PatchType
    <2>2. tx[t] = Idle /\ Proceeds(t, tx'[t], None)
      BY <1>3, <2>1, PatchRuleProceeds
    <2>3. UNCHANGED lock
      BY <1>3 DEF PatchRule
    <2> QED
      BY <2>2, <2>3, HoldsNone, ReadyProceeds
  <1>4. ASSUME NEW t \in Txns, PlanPatch(t), ~Abort(t)
        PROVE  HoldersReady'
    <2>1. tx[t].op = "update_rule" /\ UNCHANGED lock
      BY <1>4 DEF PlanPatch
    <2>2. Proceeds(t, tx'[t], None)
      BY <1>4, PlanPatchProceeds
    <2> QED
      BY <2>1, <2>2, HoldsNone, ReadyProceeds
  <1>5. ASSUME NEW t \in Txns, NEW r \in RuleIds, NEW a \in Algorithms, NEW p \in Params,
               DetachRule(t, r, a, p)
        PROVE  HoldersReady'
    <2>1. tx[t] = Idle /\ Proceeds(t, tx'[t], None)
      BY <1>5, DetachRuleProceeds
    <2>2. UNCHANGED lock
      BY <1>5 DEF DetachRule
    <2> QED
      BY <2>1, <2>2, HoldsNone, ReadyProceeds
  <1>6. ASSUME NEW t \in Txns, NEW r \in RuleIds, NEW g \in GroupIds, NEW ov \in Overrides,
               MoveRule(t, r, g, ov)
        PROVE  HoldersReady'
    <2>1. tx[t] = Idle /\ Proceeds(t, tx'[t], None)
      BY <1>6, MoveRuleProceeds
    <2>2. UNCHANGED lock
      BY <1>6 DEF MoveRule
    <2> QED
      BY <2>1, <2>2, HoldsNone, ReadyProceeds
  <1>7. ASSUME NEW t \in Txns, LockTarget(t), ~Abort(t)
        PROVE  HoldersReady'
    <2>1. tx[t].op = "move_to_group" /\ tx[t].pc = "loaded"
      BY <1>7 DEF LockTarget
    <2>2. /\ Proceeds(t, tx'[t], tx[t].group)
          /\ tx'[t].group = tx[t].group /\ InCommit(tx'[t])
      BY <1>7, LockTargetProceeds
    <2>3. Ready(tx'[t], tx[t].group)
      BY <2>2 DEF Ready
    <2> QED
      BY <2>1, <2>2, <2>3, HoldsNone, ReadyProceeds
  <1>8. ASSUME NEW t \in Txns, NEW g \in GroupIds, NEW p \in Maybe(Params),
               NEW n \in Maybe(Priorities), PatchGroup(t, g, p, n)
        PROVE  HoldersReady'
    BY <1>8, ReadyLockGroup DEF PatchGroup
  <1>9. ASSUME NEW t \in Txns, NEW g \in GroupIds, NEW mode \in {"detach", "delete"},
               DropGroup(t, g, mode)
        PROVE  HoldersReady'
    <2>1. None \in Maybe(Params) /\ None \in Maybe(Priorities)
      BY DEF Maybe
    <2> QED
      BY <1>9, <2>1, ReadyLockGroup DEF DropGroup
  <1>10. ASSUME NEW t \in Txns, CommitRule(t) \/ CommitGroup(t) \/ CommitDrop(t) \/ Abort(t)
         PROVE  HoldersReady'
    <2>1. End(t)
      BY <1>10 DEF CommitRule, CommitGroup, CommitDrop, Abort
    <2> QED
      BY <1>2, <2>1
  <1> QED
    BY <1>1, <1>3, <1>4, <1>5, <1>6, <1>7, <1>8, <1>9, <1>10
       DEF Next, vars, CreateRule, DeleteRule, CreateGroup, AddMembers

(* HoldersReady, of the row locks of update_group, delete_group and
   move_to_group: a request that waits for a lock (PlanPatch and CommitRule do
   not, LockTarget and LockGroup do) holds none, so requests never wait in a
   circle.  This is HoldersNeverWait with the guard of the commit for its
   ENABLED. *)
THEOREM LockHoldersReady == Spec => []HoldersReady
  <1>1. Init => HoldersReady
    BY DEF Init, HoldersReady
  <1>2. Typed /\ Sound /\ HoldersReady /\ [Next]_vars => HoldersReady'
    BY ReadyStep
  <1> QED
    BY <1>1, <1>2, AlwaysSound, PTL DEF Spec

-----------------------------------------------------------------------------
(* Requests that do not overlap: what the pre-checks of the services promise.
   With overlapping requests TLC refutes it; see store_member_params. *)

OneAtATime == \A t, u \in Txns : t = u

(* What a rule may be stored as: it builds, and follows its group, which
   exists. *)
Fits(row, L, G) ==
  /\ Builds(row.algo, row.params)
  /\ row.group # None => row.group \in L /\ SameShape(row, G[row.group])

Consistent == \A r \in RuleIds \cap live : Fits(rules[r], live, groups)

PatchAllowed(patch, old) ==
  IF old.group # None
  THEN patch.algo = None /\ patch.params = None /\ patch.priority = None
  ELSE patch.overrides = None /\ PatchBuilds(patch, old)

RuleTxSerial(t) ==
  LET q == tx[t]
  IN  /\ q.rule \in live => rules[q.rule] = q.old
      /\ q.pc = "commit" => q.new.version = q.old.version + 1
      /\ q.pc = "commit" /\ q.rule \in live => Fits(q.new, live, groups)

UpdateTxSerial(t) ==
  /\ tx[t].patch.expected # None => tx[t].patch.expected = tx[t].old.version
  /\ PatchAllowed(tx[t].patch, tx[t].old)

GroupTxSerial(t) ==
  LET q == tx[t]
      base == IF q.params # None THEN q.params ELSE groups[q.group].params
  IN  \A r \in DOMAIN q.members :
        /\ q.members[r].group = q.group
        /\ r \in live => rules[r] = q.members[r]
        /\ q.op = "update_group" =>
             Builds(groups[q.group].algo, Effective(base, q.members[r].overrides))

TxSerial(t) ==
  /\ tx[t] \in RuleTxs => RuleTxSerial(t)
  /\ tx[t] \in UpdateTx => UpdateTxSerial(t)
  /\ tx[t] \in GroupTx => GroupTxSerial(t)

Serial == Consistent /\ \A t \in Txns : TxSerial(t)

(* Steps that change no row but those that come or go. *)
Quiet ==
  /\ \A g \in GroupIds \cap live : g \in live' /\ groups'[g] = groups[g]
  /\ \A r \in RuleIds \cap used : r \in live' => r \in live /\ rules'[r] = rules[r]

LEMMA FitsKept ==
  ASSUME Typed, Quiet, NEW row \in RuleRows, Fits(row, live, groups)
  PROVE  Fits(row, live', groups')
  <1>1. row.group # None => row.group \in GroupIds
    BY DEF RuleRows, Maybe
  <1> QED
    BY <1>1 DEF Fits, Quiet

LEMMA QuietTx ==
  ASSUME Typed, Sound, Serial, Quiet, NEW t \in Txns, tx'[t] = tx[t]
  PROVE  TxSerial(t)'
  <1> DEFINE q == tx[t]
  <1>1. ASSUME q \in RuleTxs
        PROVE  RuleTxSerial(t)'
    <2>1. q.rule \in RuleIds \cap used /\ q.new \in RuleRows
      BY <1>1 DEF Sound, TxSound, RuleTxSound, RuleTxs, UpdateTx, DetachTx, MoveTx
    <2>2. RuleTxSerial(t)
      BY <1>1 DEF Serial, TxSerial
    <2>3. q.rule \in live' => q.rule \in live /\ rules'[q.rule] = rules[q.rule]
      BY <2>1 DEF Quiet
    <2>4. q.pc = "commit" /\ q.rule \in live' => Fits(q.new, live', groups')
      BY <2>1, <2>2, <2>3, FitsKept DEF RuleTxSerial
    <2> QED
      BY <2>2, <2>3, <2>4 DEF RuleTxSerial
  <1>2. ASSUME q \in UpdateTx
        PROVE  UpdateTxSerial(t)'
    BY <1>2 DEF Serial, TxSerial, UpdateTxSerial, PatchAllowed, PatchBuilds
  <1>3. ASSUME q \in GroupTx
        PROVE  GroupTxSerial(t)'
    <2>1. /\ q.group \in GroupIds \cap live
          /\ DOMAIN q.members \subseteq RuleIds \cap used
      BY <1>3 DEF Sound, TxSound, GroupTxSound, GroupTx, Loaded
    <2>2. GroupTxSerial(t)
      BY <1>3 DEF Serial, TxSerial
    <2>3. groups'[q.group] = groups[q.group]
      BY <2>1 DEF Quiet
    <2>4. \A r \in DOMAIN q.members : r \in live' => r \in live /\ rules'[r] = rules[r]
      BY <2>1 DEF Quiet
    <2> QED
      BY <2>2, <2>3, <2>4 DEF GroupTxSerial
  <1> QED
    BY <1>1, <1>2, <1>3 DEF TxSerial

(* Rows that come fit, rows that go are gone. *)
LEMMA InsertsSerial ==
  ASSUME Typed, Sound, Serial, NEW N, Inserts(N)
  PROVE  Serial' /\ Quiet
  <1>1. Quiet
    BY DEF Inserts, Typed, Quiet
  <1>2. \A t \in Txns : TxSerial(t)'
    BY <1>1, QuietTx DEF Inserts
  <1>3. ASSUME NEW r \in RuleIds \cap live'
        PROVE  Fits(rules'[r], live', groups')
    <2>1. CASE r \in N
      BY <2>1 DEF Inserts, Fits
    <2>2. CASE r \notin N
      <3>1. r \in live /\ rules'[r] = rules[r]
        BY <2>2 DEF Inserts
      <3>2. rules[r] \in RuleRows /\ Fits(rules[r], live, groups)
        BY <3>1 DEF Typed, Serial, Consistent
      <3> QED
        BY <1>1, <3>1, <3>2, FitsKept
    <2> QED
      BY <2>1, <2>2
  <1> QED
    BY <1>1, <1>2, <1>3 DEF Serial, Consistent

LEMMA DeleteSerial ==
  ASSUME Typed, Sound, Serial, NEW d \in RuleIds, DeleteRule(d)
  PROVE  Serial' /\ Quiet
  <1>1. Quiet
    BY RuleStoreAssumption DEF DeleteRule, Typed, Quiet
  <1>2. \A t \in Txns : TxSerial(t)'
    BY <1>1, QuietTx DEF DeleteRule
  <1>3. ASSUME NEW r \in RuleIds \cap live'
        PROVE  Fits(rules'[r], live', groups')
    <2>1. r \in live /\ rules'[r] = rules[r]
      BY DEF DeleteRule, Typed
    <2>2. rules[r] \in RuleRows /\ Fits(rules[r], live, groups)
      BY <2>1 DEF Typed, Serial, Consistent
    <2> QED
      BY <1>1, <2>1, <2>2, FitsKept
  <1> QED
    BY <1>1, <1>2, <1>3 DEF Serial, Consistent

LEMMA ProceedsSerial ==
  ASSUME Typed, Sound, Serial, NEW t \in Txns, NEW q, NEW g, Proceeds(t, q, g), TxSerial(t)'
  PROVE  Serial'
  <1>1. UNCHANGED <<rules, groups, live, used>>
    BY DEF Proceeds
  <1>2. Quiet
    BY <1>1 DEF Quiet
  <1>3. \A u \in Txns : u # t => tx'[u] = tx[u]
    BY DEF Proceeds, Typed
  <1>4. \A u \in Txns : u # t => TxSerial(u)'
    BY <1>2, <1>3, QuietTx
  <1>5. Consistent'
    BY <1>1 DEF Serial, Consistent
  <1> QED
    BY <1>4, <1>5 DEF Serial

(* With nobody else under way, the end of a request leaves nothing stale. *)
LEMMA EndSerial ==
  ASSUME OneAtATime, Typed, Sound, NEW t \in Txns, End(t), Consistent'
  PROVE  Serial'
  <1>1. \A u \in Txns : tx'[u] = Idle
    BY EndFacts DEF OneAtATime
  <1>2. Idle \notin RuleTxs /\ Idle \notin GroupTx /\ Idle \notin UpdateTx
    BY RequestKinds DEF Requests, RuleTxs
  <1> QED
    BY <1>1, <1>2 DEF Serial, TxSerial

(* The UPDATE of a row that is still what was loaded writes the new row. *)
LEMMA UpdatedCurrent ==
  ASSUME NEW old \in RuleRows, NEW new \in RuleRows
  PROVE  Updated(old, old, new) = new
  <1>1. DOMAIN old = DOMAIN new /\ new = [c \in DOMAIN new |-> new[c]]
    BY DEF RuleRows
  <1>2. Updated(old, old, new) = [c \in DOMAIN new |-> new[c]]
    BY <1>1 DEF Updated
  <1> QED
    BY <1>1, <1>2

LEMMA PlanPatchSerial ==
  ASSUME Typed, Sound, Serial, NEW t \in Txns, PlanPatch(t), ~Abort(t)
  PROVE  Serial'
  <1> DEFINE old == tx[t].old
             patch == tx[t].patch
             new == Patched(old, patch)
  <1>1. /\ tx[t] \in UpdateTx
        /\ patch.overrides # None => old.group \in live
        /\ patch.overrides # None =>
             Builds(groups[old.group].algo, Effective(groups[old.group].params, patch.overrides))
        /\ tx'[t] = [tx[t] EXCEPT !.pc = "commit", !.new = new]
        /\ tx'[t] \in UpdateTx /\ Proceeds(t, tx'[t], None)
    BY PlanPatchProceeds
  <1>2. old \in RuleRows /\ patch \in PatchBodies /\ tx[t] \in RuleTxs /\ tx'[t] \in RuleTxs
    BY <1>1 DEF UpdateTx, RuleTxs
  <1>3. /\ new \in RuleRows /\ new.client = old.client /\ new.sig = old.sig
        /\ new.group = old.group /\ new.version = old.version + 1
        /\ new.algo = IF patch.algo # None THEN patch.algo ELSE old.algo
        /\ new.priority = IF patch.priority # None THEN patch.priority ELSE old.priority
        /\ new.params = IF patch.overrides # None
                        THEN Effective(groups[old.group].params, patch.overrides)
                        ELSE IF patch.params # None THEN patch.params ELSE old.params
        /\ new.overrides = IF patch.overrides # None THEN patch.overrides ELSE old.overrides
    BY <1>1, <1>2, PatchedIs
  <1> HIDE DEF new
  <1>4. /\ tx'[t].old = old /\ tx'[t].new = new /\ tx'[t].rule = tx[t].rule
        /\ tx'[t].patch = patch /\ tx'[t] \notin GroupTx
    BY <1>1, RequestKinds DEF Requests, RuleTxs, UpdateTx
  <1>5. RuleTxSerial(t) /\ UpdateTxSerial(t)
    BY <1>1, <1>2 DEF Serial, TxSerial
  <1>6. UNCHANGED <<rules, groups, live, used>>
    BY <1>1 DEF Proceeds
  <1>7. ASSUME tx[t].rule \in live
        PROVE  Fits(new, live, groups)
    <2>1. Fits(old, live, groups)
      <3>1. rules[tx[t].rule] = old /\ tx[t].rule \in RuleIds
        BY <1>1, <1>5, <1>7 DEF RuleTxSerial, UpdateTx
      <3> QED
        BY <1>7, <3>1 DEF Serial, Consistent
    <2>2. CASE old.group = None
      <3>1. patch.overrides = None /\ PatchBuilds(patch, old)
        BY <1>5, <2>2 DEF UpdateTxSerial, PatchAllowed
      <3>2. Builds(new.algo, new.params)
        BY <1>3, <2>1, <3>1 DEF PatchBuilds, Fits
      <3> QED
        BY <1>3, <2>2, <3>2 DEF Fits
    <2>3. CASE old.group # None
      <3>1. patch.algo = None /\ patch.params = None /\ patch.priority = None
        BY <1>5, <2>3 DEF UpdateTxSerial, PatchAllowed
      <3>2. old.group \in live /\ SameShape(old, groups[old.group])
        BY <2>1, <2>3 DEF Fits
      <3>3. new.algo = old.algo /\ new.priority = old.priority
        BY <1>3, <3>1
      <3>4. CASE patch.overrides # None
        <4>1. /\ new.params = Effective(groups[old.group].params, patch.overrides)
              /\ new.overrides = patch.overrides
          BY <1>3, <3>4
        <4>2. SameShape(new, groups[old.group])
          BY <1>3, <3>2, <3>3, <4>1 DEF SameShape
        <4>3. Builds(new.algo, new.params)
          BY <1>1, <3>2, <3>3, <3>4, <4>1 DEF SameShape
        <4> QED
          BY <1>3, <3>2, <4>2, <4>3 DEF Fits
      <3>5. CASE patch.overrides = None
        <4>1. new.params = old.params /\ new.overrides = old.overrides
          BY <1>3, <3>1, <3>5
        <4>2. SameShape(new, groups[old.group])
          BY <1>3, <3>2, <3>3, <4>1 DEF SameShape
        <4> QED
          BY <1>3, <2>1, <3>2, <3>3, <4>1, <4>2 DEF Fits
      <3> QED
        BY <3>4, <3>5
    <2> QED
      BY <2>2, <2>3
  <1>8. RuleTxSerial(t)'
    <2>1. tx'[t].rule \in live' => rules'[tx'[t].rule] = tx'[t].old
      BY <1>4, <1>5, <1>6 DEF RuleTxSerial
    <2>2. tx'[t].new.version = tx'[t].old.version + 1
      BY <1>3, <1>4
    <2>3. tx'[t].rule \in live' => Fits(tx'[t].new, live', groups')
      BY <1>4, <1>6, <1>7
    <2> QED
      BY <2>1, <2>2, <2>3 DEF RuleTxSerial
  <1>9. UpdateTxSerial(t)'
    BY <1>4, <1>5 DEF UpdateTxSerial, PatchAllowed, PatchBuilds
  <1>10. TxSerial(t)'
    BY <1>4, <1>8, <1>9 DEF TxSerial
  <1> QED
    BY <1>1, <1>10, ProceedsSerial

LEMMA LockTargetSerial ==
  ASSUME Typed, Sound, Serial, NEW t \in Txns, LockTarget(t), ~Abort(t)
  PROVE  Serial'
  <1> DEFINE g == tx[t].group
  <1>1. /\ tx[t] \in MoveTx /\ g \in live
        /\ tx'[t] \in MoveTx /\ tx'[t].rule = tx[t].rule /\ tx'[t].old = tx[t].old
        /\ tx'[t].new.group = g /\ tx'[t].new.version = tx[t].old.version + 1
        /\ SameShape(tx'[t].new, groups[g]) /\ Builds(tx'[t].new.algo, tx'[t].new.params)
        /\ Proceeds(t, tx'[t], g)
    BY LockTargetProceeds
  <1>2. /\ tx[t] \in RuleTxs /\ tx'[t] \in RuleTxs /\ tx'[t] \notin GroupTx
        /\ tx'[t] \notin UpdateTx
    BY <1>1, RequestKinds DEF Requests, RuleTxs, UpdateTx, MoveTx
  <1>3. UNCHANGED <<rules, groups, live, used>>
    BY <1>1 DEF Proceeds
  <1>4. Fits(tx'[t].new, live', groups')
    BY <1>1, <1>3 DEF Fits
  <1>5. RuleTxSerial(t)
    BY <1>2 DEF Serial, TxSerial
  <1>6. RuleTxSerial(t)'
    <2>1. tx'[t].rule \in live' => rules'[tx'[t].rule] = tx'[t].old
      BY <1>1, <1>3, <1>5 DEF RuleTxSerial
    <2> QED
      BY <1>1, <1>4, <2>1 DEF RuleTxSerial
  <1>7. TxSerial(t)'
    BY <1>2, <1>6 DEF TxSerial
  <1> QED
    BY <1>1, <1>7, ProceedsSerial

LEMMA RuleWrittenSerial ==
  ASSUME Typed, Sound, Serial, NEW t \in Txns, RuleWritten(t)
  PROVE  /\ Consistent'
         /\ \A r \in RuleIds : rules'[r] = IF r = tx[t].rule THEN tx[t].new ELSE rules[r]
         /\ tx[t].rule \in live /\ rules[tx[t].rule] = tx[t].old
         /\ tx[t].new.version = tx[t].old.version + 1
         /\ tx[t].old.version \in Nat
  <1> DEFINE q == tx[t]
             row == Updated(rules[q.rule], q.old, q.new)
  <1>1. /\ q \in RuleTxs /\ q.pc = "commit" /\ q.rule \in RuleIds \cap live
        /\ q.old \in RuleRows /\ q.new \in RuleRows
        /\ \A r \in RuleIds : rules'[r] = IF r = q.rule THEN row ELSE rules[r]
        /\ UNCHANGED <<groups, live, used>>
    BY DEF RuleWritten
  <1>2. /\ rules[q.rule] = q.old /\ q.new.version = q.old.version + 1
        /\ Fits(q.new, live, groups)
    BY <1>1 DEF Serial, TxSerial, RuleTxSerial
  <1>3. row = q.new
    BY <1>1, <1>2, UpdatedCurrent
  <1> HIDE DEF row
  <1>4. ASSUME NEW r \in RuleIds \cap live'
        PROVE  Fits(rules'[r], live', groups')
    BY <1>1, <1>2, <1>3 DEF Serial, Consistent
  <1> QED
    BY <1>1, <1>2, <1>3, <1>4 DEF Consistent, RuleRows

LEMMA GroupWrittenSerial ==
  ASSUME Typed, Sound, Serial, NEW t \in Txns, GroupWritten(t)
  PROVE  /\ Consistent'
         /\ \A r \in RuleIds \cap live :
              rules'[r] = rules[r] \/ rules'[r].version = rules[r].version + 1
  <1> DEFINE q == tx[t]
             g == q.group
             members == q.members
             base == IF q.params # None THEN q.params ELSE groups[g].params
             prio == IF q.priority # None THEN q.priority ELSE groups[g].priority
             New(r) == NewMember(members[r], base, q.priority)
  <1>1. /\ q \in GroupTx /\ q.op = "update_group" /\ g \in GroupIds \cap live
        /\ DOMAIN members \subseteq RuleIds
        /\ \A r \in DOMAIN members : members[r] \in RuleRows
        /\ groups' = [groups EXCEPT ![g] = [groups[g] EXCEPT !.params = base, !.priority = prio]]
        /\ \A r \in RuleIds : rules'[r] = IF r \in DOMAIN members \cap live
                                          THEN Updated(rules[r], members[r], New(r))
                                          ELSE rules[r]
        /\ base \in Params /\ prio \in Priorities /\ UNCHANGED live
    BY DEF GroupWritten
  <1>2. \A r \in DOMAIN members \cap live :
          /\ members[r].group = g /\ rules[r] = members[r]
          /\ Builds(groups[g].algo, Effective(base, members[r].overrides))
    BY <1>1 DEF Serial, TxSerial, GroupTxSerial
  <1>3. Members(g) \subseteq DOMAIN members /\ q.priority \in Maybe(Priorities)
    BY <1>1 DEF Sound, TxSound, GroupTxSound, GroupTx
  <1>4. /\ groups'[g].client = groups[g].client /\ groups'[g].sig = groups[g].sig
        /\ groups'[g].algo = groups[g].algo /\ groups'[g].params = base
        /\ groups'[g].priority = prio
        /\ \A h \in GroupIds : h # g => groups'[h] = groups[h]
    <2>1. groups[g] \in GroupRows /\ groups \in [GroupIds -> GroupRows \cup {NoGroup}]
      BY <1>1 DEF Typed
    <2> DEFINE grow == [groups[g] EXCEPT !.params = base, !.priority = prio]
    <2>2. groups' = [groups EXCEPT ![g] = grow] /\ g \in GroupIds
      BY <1>1
    <2> HIDE DEF base, prio, g
    <2>3. /\ grow.client = groups[g].client /\ grow.sig = groups[g].sig
          /\ grow.algo = groups[g].algo /\ grow.params = base /\ grow.priority = prio
      BY <2>1 DEF GroupRows
    <2> HIDE DEF grow
    <2> QED
      BY <2>1, <2>2, <2>3
  <1>5. prio = IF q.priority # None THEN q.priority ELSE groups[g].priority
    OBVIOUS
  <1> HIDE DEF base, prio
  <1>6. ASSUME NEW r \in DOMAIN members \cap live
        PROVE  Fits(rules'[r], live', groups') /\ rules'[r].version = rules[r].version + 1
    <2> DEFINE old == members[r]
    <2>1. /\ old \in RuleRows /\ rules[r] = old /\ r \in RuleIds \cap live
          /\ rules'[r] = Updated(rules[r], old, New(r)) /\ old.group = g
          /\ Builds(groups[g].algo, Effective(base, old.overrides))
      BY <1>1, <1>2
    <2>2. /\ New(r) \in RuleRows /\ New(r).client = old.client /\ New(r).sig = old.sig
          /\ New(r).algo = old.algo /\ New(r).group = old.group
          /\ New(r).overrides = old.overrides /\ New(r).params = Effective(base, old.overrides)
          /\ New(r).priority = (IF q.priority # None THEN q.priority ELSE old.priority)
          /\ New(r).version = old.version + 1
      BY <1>1, <1>3, <2>1, NewMemberIs
    <2>3. Fits(old, live, groups)
      BY <2>1 DEF Serial, Consistent
    <2> HIDE DEF New, old
    <2>4. rules'[r] = New(r)
      BY <2>1, <2>2, UpdatedCurrent
    <2>5. g # None
      BY <1>1, RuleStoreAssumption
    <2> HIDE DEF g, q
    <2>6. SameShape(old, groups[g])
      BY <2>1, <2>3, <2>5 DEF Fits
    <2>7. SameShape(New(r), groups'[g])
      BY <1>4, <1>5, <2>2, <2>6 DEF SameShape
    <2>8. Builds(New(r).algo, New(r).params)
      BY <2>1, <2>2, <2>6 DEF SameShape
    <2> QED
      BY <1>1, <2>1, <2>2, <2>4, <2>7, <2>8 DEF Fits
  <1> HIDE DEF New
  <1>7. ASSUME NEW r \in RuleIds \cap live', r \notin DOMAIN members
        PROVE  Fits(rules'[r], live', groups') /\ rules'[r] = rules[r]
    <2>1. rules'[r] = rules[r] /\ r \in live /\ rules[r] \in RuleRows
      BY <1>1, <1>7 DEF Typed
    <2>2. rules[r].group # g
      BY <1>3, <1>7, <2>1 DEF Members
    <2>3. Fits(rules[r], live, groups)
      BY <2>1 DEF Serial, Consistent
    <2>4. rules[r].group # None => rules[r].group \in GroupIds
      BY <2>1 DEF RuleRows, Maybe
    <2> QED
      BY <1>1, <1>4, <2>1, <2>2, <2>3, <2>4 DEF Fits
  <1> QED
    BY <1>1, <1>6, <1>7 DEF Consistent

LEMMA GroupDroppedSerial ==
  ASSUME Typed, Sound, Serial, NEW t \in Txns, GroupDropped(t)
  PROVE  /\ Consistent'
         /\ \A r \in RuleIds \cap live \cap live' :
              rules'[r] = rules[r] \/ (rules'[r].group = None /\ rules[r].group # None)
  <1> DEFINE g == tx[t].group
             members == tx[t].members
  <1>1. /\ tx[t] \in GroupTx /\ g \in GroupIds
        /\ DOMAIN members \subseteq RuleIds
    BY DEF GroupDropped
  <1>2. \A r \in DOMAIN members : members[r].group = g /\ (r \in live => rules[r] = members[r])
    BY <1>1 DEF Serial, TxSerial, GroupTxSerial
  <1>3. g # None
    BY <1>1, RuleStoreAssumption
  <1>4. ASSUME NEW r \in RuleIds \cap live'
        PROVE  /\ r \in live
               /\ rules'[r].group # g
               /\ rules'[r].algo = rules[r].algo /\ rules'[r].params = rules[r].params
               /\ rules'[r] = rules[r] \/ (rules'[r].group = None /\ rules[r].group # None)
    <2>1. /\ r \in live /\ rules'[r].group # g
          /\ rules'[r].algo = rules[r].algo /\ rules'[r].params = rules[r].params
          /\ rules'[r] = rules[r] \/ rules'[r].group \in {rules[r].group, None}
          /\ r \notin DOMAIN members => rules'[r] = rules[r]
      BY GroupDroppedKeeps
    <2>2. r \in DOMAIN members => rules[r].group = g
      BY <1>2, <2>1
    <2> QED
      BY <1>3, <2>1, <2>2
  <1>5. /\ \A h \in GroupIds : h # g => groups'[h] = groups[h]
        /\ \A h \in GroupIds : h \in live' <=> h \in live /\ h # g
    BY GroupDroppedKeeps
  <1>6. ASSUME NEW r \in RuleIds \cap live'
        PROVE  Fits(rules'[r], live', groups')
    <2>1. r \in live /\ rules[r] \in RuleRows /\ Fits(rules[r], live, groups)
      BY <1>4 DEF Typed, Serial, Consistent
    <2>2. CASE rules'[r] = rules[r]
      <3>1. rules[r].group # None => rules[r].group \in GroupIds /\ rules[r].group # g
        BY <1>4, <2>1, <2>2 DEF RuleRows, Maybe
      <3> QED
        BY <1>5, <2>1, <2>2, <3>1 DEF Fits
    <2>3. CASE rules'[r].group = None
      BY <1>4, <2>1, <2>3 DEF Fits
    <2> QED
      BY <1>4, <2>2, <2>3
  <1> QED
    BY <1>4, <1>6 DEF Consistent

LEMMA SerialStep ==
  ASSUME OneAtATime, Typed, Sound, Serial, [Next]_vars
  PROVE  Serial'
  <1>0. \A r \in RuleIds \cap live : rules[r] \in RuleRows /\ Fits(rules[r], live, groups)
    BY DEF Typed, Serial, Consistent
  <1>1. CASE \E r \in RuleIds, c \in Clients, e \in Endpoints, s \in Signatures,
                a \in Algorithms, p \in Params, n \in Priorities : CreateRule(r, c, e, s, a, p, n)
    BY <1>1, CreateRuleInserts, InsertsSerial
  <1>2. CASE \E r \in RuleIds : DeleteRule(r)
    BY <1>2, DeleteSerial
  <1>3. CASE \E g \in GroupIds, grow \in GroupRows, ids \in NewMembers :
               \E ov \in [DOMAIN ids -> Overrides] : CreateGroup(g, grow, ids, ov)
    BY <1>3, CreateGroupInserts, InsertsSerial
  <1>4. CASE \E g \in GroupIds, ids \in NewMembers :
               \E ov \in [DOMAIN ids -> Overrides] : AddMembers(g, ids, ov)
    BY <1>4, AddMembersInserts, InsertsSerial
  <1>5. ASSUME NEW t \in Txns, NEW r \in RuleIds, NEW p \in Patches, NEW patch \in Expecting(p),
               PatchRule(t, r, patch)
        PROVE  Serial'
    <2> DEFINE q == [op |-> "update_rule", pc |-> "loaded", rule |-> r, old |-> rules[r],
                     new |-> rules[r], patch |-> patch]
    <2>1. patch \in PatchBodies
      BY PatchType
    <2>2. /\ tx'[t] = q /\ r \in live /\ tx'[t] \in UpdateTx /\ Proceeds(t, tx'[t], None)
      BY <1>5, <2>1, PatchRuleProceeds
    <2>3. /\ tx'[t].rule = r /\ tx'[t].old = rules[r] /\ tx'[t].pc = "loaded"
          /\ tx'[t].patch = patch /\ tx'[t] \notin GroupTx
      BY <2>2, RequestKinds DEF Requests, RuleTxs
    <2> HIDE DEF q
    <2>4. VersionMatches(patch.expected, rules[r].version) /\ PatchAllowed(patch, rules[r])
      BY <1>5 DEF PatchRule, PatchAllowed
    <2>5. UpdateTxSerial(t)'
      BY <2>3, <2>4 DEF UpdateTxSerial, PatchAllowed, PatchBuilds, VersionMatches
    <2>6. RuleTxSerial(t)'
      BY <2>2, <2>3 DEF RuleTxSerial, Proceeds
    <2>7. TxSerial(t)'
      BY <2>3, <2>5, <2>6 DEF TxSerial
    <2> QED
      BY <2>2, <2>7, ProceedsSerial
  <1>6. ASSUME NEW t \in Txns, PlanPatch(t), ~Abort(t)
        PROVE  Serial'
    BY <1>6, PlanPatchSerial
  <1>7. ASSUME NEW t \in Txns, NEW r \in RuleIds, NEW a \in Algorithms, NEW p \in Params,
               DetachRule(t, r, a, p)
        PROVE  Serial'
    <2>1. /\ r \in live /\ tx'[t] \in DetachTx /\ Proceeds(t, tx'[t], None)
          /\ tx'[t].rule = r /\ tx'[t].old = rules[r]
          /\ tx'[t].new.version = rules[r].version + 1 /\ tx'[t].new.group = None
          /\ tx'[t].new.algo = a /\ tx'[t].new.params = p /\ Builds(a, p)
      BY <1>7, DetachRuleProceeds
    <2>2. tx'[t] \notin GroupTx /\ tx'[t] \notin UpdateTx
      BY <2>1, RequestKinds DEF Requests, RuleTxs, UpdateTx, DetachTx
    <2>3. Fits(tx'[t].new, live', groups')
      BY <2>1 DEF Fits
    <2>4. RuleTxSerial(t)'
      BY <2>1, <2>3 DEF RuleTxSerial, Proceeds
    <2>5. TxSerial(t)'
      BY <2>2, <2>4 DEF TxSerial
    <2> QED
      BY <2>1, <2>5, ProceedsSerial
  <1>8. ASSUME NEW t \in Txns, NEW r \in RuleIds, NEW g \in GroupIds, NEW ov \in Overrides,
               MoveRule(t, r, g, ov)
        PROVE  Serial'
    <2> DEFINE q == [op |-> "move_to_group", pc |-> "loaded", rule |-> r, old |-> rules[r],
                     new |-> rules[r], group |-> g, overrides |-> ov]
    <2>1. tx'[t] = q /\ r \in live /\ tx'[t] \in MoveTx /\ Proceeds(t, tx'[t], None)
      BY <1>8, MoveRuleProceeds
    <2>2. /\ tx'[t].rule = r /\ tx'[t].old = rules[r] /\ tx'[t].pc = "loaded"
          /\ tx'[t] \notin GroupTx /\ tx'[t] \notin UpdateTx
      BY <2>1, RequestKinds DEF Requests, RuleTxs, UpdateTx, MoveTx
    <2> HIDE DEF q
    <2>3. RuleTxSerial(t)'
      BY <2>1, <2>2 DEF RuleTxSerial, Proceeds
    <2>4. TxSerial(t)'
      BY <2>2, <2>3 DEF TxSerial
    <2> QED
      BY <2>1, <2>4, ProceedsSerial
  <1>9. ASSUME NEW t \in Txns, LockTarget(t), ~Abort(t)
        PROVE  Serial'
    BY <1>9, LockTargetSerial
  <1>10. ASSUME NEW t \in Txns, NEW op \in {"update_group", "delete_group"}, NEW g \in GroupIds,
                NEW params \in Maybe(Params), NEW priority \in Maybe(Priorities),
                NEW mode \in {None, "detach", "delete"}, LockGroup(t, op, g, params, priority, mode),
                op = "update_group" => \A r \in Members(g) :
                  Builds(groups[g].algo,
                         Effective(IF params # None THEN params ELSE groups[g].params,
                                   rules[r].overrides))
         PROVE  Serial'
    <2> DEFINE members == [r \in Members(g) |-> rules[r]]
    <2>1. /\ tx'[t].op = op /\ tx'[t].group = g /\ tx'[t].members = members
          /\ tx'[t].params = params /\ tx'[t] \in GroupTx /\ Proceeds(t, tx'[t], g)
      BY <1>10, LockGroupProceeds
    <2>2. tx'[t] \notin RuleTxs /\ tx'[t] \notin UpdateTx
      BY <2>1, RequestKinds DEF Requests, RuleTxs
    <2>3. UNCHANGED <<rules, groups, live, used>>
      BY <2>1 DEF Proceeds
    <2>4. \A r \in DOMAIN members : members[r].group = g /\ members[r] = rules[r]
      BY DEF Members
    <2>5. DOMAIN members = Members(g)
      OBVIOUS
    <2> HIDE DEF members
    <2>6. GroupTxSerial(t)'
      BY <1>10, <2>1, <2>3, <2>4, <2>5 DEF GroupTxSerial
    <2>7. TxSerial(t)'
      BY <2>2, <2>6 DEF TxSerial
    <2> QED
      BY <2>1, <2>7, ProceedsSerial
  <1>11. ASSUME NEW t \in Txns, NEW g \in GroupIds, NEW p \in Maybe(Params),
                NEW n \in Maybe(Priorities), PatchGroup(t, g, p, n)
         PROVE  Serial'
    BY <1>10, <1>11 DEF PatchGroup
  <1>12. ASSUME NEW t \in Txns, NEW g \in GroupIds, NEW mode \in {"detach", "delete"},
                DropGroup(t, g, mode)
         PROVE  Serial'
    BY <1>10, <1>12 DEF DropGroup, Maybe
  <1>13. ASSUME NEW t \in Txns, CommitRule(t) \/ CommitGroup(t) \/ CommitDrop(t) \/ Abort(t)
         PROVE  Serial'
    <2>1. RuleWritten(t) \/ GroupWritten(t) \/ GroupDropped(t) \/ Abort(t)
      BY <1>13, CommitRuleCases, CommitGroupCases, CommitDropCases
    <2>2. CASE RuleWritten(t)
      BY <2>2, RuleWrittenSerial, EndSerial DEF RuleWritten
    <2>3. CASE GroupWritten(t)
      BY <2>3, GroupWrittenSerial, EndSerial DEF GroupWritten
    <2>4. CASE GroupDropped(t)
      BY <2>4, GroupDroppedSerial, EndSerial DEF GroupDropped
    <2>5. CASE Abort(t)
      <3>1. Consistent'
        BY <2>5 DEF Abort, Serial, Consistent
      <3> QED
        BY <2>5, <3>1, EndSerial DEF Abort
    <2> QED
      BY <2>1, <2>2, <2>3, <2>4, <2>5
  <1>14. CASE UNCHANGED vars
    <2>1. UNCHANGED <<rules, groups, live, used, tx>>
      BY <1>14 DEF vars
    <2>2. Quiet
      BY <2>1 DEF Quiet
    <2>3. Consistent'
      BY <2>1 DEF Serial, Consistent
    <2> QED
      BY <2>1, <2>2, <2>3, QuietTx DEF Serial
  <1> QED
    BY <1>1, <1>2, <1>3, <1>4, <1>5, <1>6, <1>7, <1>8, <1>9, <1>11, <1>12, <1>13, <1>14
       DEF Next

LEMMA AlwaysSerial ==
  ASSUME OneAtATime
  PROVE  Spec => []Serial
  <1>1. Init => Serial
    <2>1. Idle \notin RuleTxs /\ Idle \notin GroupTx /\ Idle \notin UpdateTx
      BY RequestKinds DEF Requests, RuleTxs
    <2> QED
      BY <2>1 DEF Init, Serial, Consistent, TxSerial
  <1>2. Typed /\ Sound /\ Serial /\ [Next]_vars => Serial'
    BY SerialStep
  <1> QED
    BY <1>1, <1>2, AlwaysSound, PTL DEF Spec

(* RulesBuild of RuleService and RuleGroupService, for any sequence of requests
   that do not overlap: what build_algorithm_config accepted is what is
   stored, also after a base edit or a move. *)
THEOREM SerialRulesBuild ==
  ASSUME OneAtATime
  PROVE  Spec => []RulesBuild
  <1>1. Serial => RulesBuild
    BY DEF Serial, Consistent, Fits, RulesBuild
  <1> QED
    BY <1>1, AlwaysSerial, PTL

(* MemberParamsFollowGroup, the group invariant of README.md:468, for requests
   that do not overlap: every commit leaves each member with the params of its
   group's base and its own overrides. *)
THEOREM SerialMemberParams ==
  ASSUME OneAtATime
  PROVE  Spec => []MemberParamsFollowGroup
  <1>1. Serial => MemberParamsFollowGroup
    BY DEF Serial, Consistent, Fits, SameShape, MemberParamsFollowGroup, Grouped
  <1> QED
    BY <1>1, AlwaysSerial, PTL

(* MemberShapeFollowsGroup of base edits, moves and add_members, for requests
   that do not overlap: a member has the algorithm, the identifier types and
   the priority of its group. *)
THEOREM SerialMemberShape ==
  ASSUME OneAtATime
  PROVE  Spec => []MemberShapeFollowsGroup
  <1>1. Serial => MemberShapeFollowsGroup
    BY DEF Serial, Consistent, Fits, SameShape, MemberShapeFollowsGroup, Grouped
  <1> QED
    BY <1>1, AlwaysSerial, PTL

-----------------------------------------------------------------------------
(* Requests that overlap: what of the group invariant they cannot break. *)

NoMoves == "move_to_group" \notin Ops

NoPatches == "update_rule" \notin Ops

(* Rules leave groups and never join one; what a request loaded of a rule may
   be stale, but not in the columns of its group. *)
TxShaped(t) ==
  LET q == tx[t]
  IN  /\ q \notin MoveTx
      /\ q \in UpdateTx =>
           /\ q.new.sig = q.old.sig /\ q.new.group = q.old.group
           /\ IF q.old.group = None
              THEN q.rule \in live => rules[q.rule].group = None
              ELSE /\ q.patch.algo = None /\ q.patch.priority = None
                   /\ q.new.algo = q.old.algo /\ q.new.priority = q.old.priority
      /\ q \in DetachTx => q.old.group # None /\ q.new.group = None
      /\ q \in GroupTx =>
           \A r \in DOMAIN q.members :
             /\ q.members[r].group = q.group
             /\ q.members[r].priority = groups[q.group].priority
             /\ r \in live => rules[r].group \in {q.group, None}

Shaped == MemberShapeFollowsGroup /\ \A t \in Txns : TxShaped(t)

(* Without update_rule, a member that is still in its group is what was loaded
   under the group's lock. *)
TxCurrent(t) ==
  LET q == tx[t]
      base == IF q.params # None THEN q.params ELSE groups[q.group].params
  IN  /\ q \notin UpdateTx
      /\ q \in GroupTx =>
           \A r \in DOMAIN q.members :
             /\ r \in live /\ rules[r].group = q.group => rules[r] = q.members[r]
             /\ q.op = "update_group" =>
                  Builds(groups[q.group].algo, Effective(base, q.members[r].overrides))

MembersBuild == \A r \in Grouped : Builds(rules[r].algo, rules[r].params)

Current == MemberParamsFollowGroup /\ MembersBuild /\ \A t \in Txns : TxCurrent(t)

(* What a step leaves to the requests that go on. *)
Leaves ==
  /\ \A r \in RuleIds \cap used :
       r \in live' => r \in live /\ rules'[r].group \in {rules[r].group, None}
  /\ \A u \in Txns : tx[u] \in GroupTx /\ tx'[u] = tx[u] =>
       groups'[tx[u].group] = groups[tx[u].group]

(* A request that goes on while another one commits has another group. *)
LEMMA OtherGroup ==
  ASSUME Typed, Sound, NEW t \in Txns, NEW u \in Txns, tx[t] \in GroupTx, tx[u] \in GroupTx,
         End(t), tx'[u] = tx[u]
  PROVE  tx[u].group # tx[t].group
  <1>1. tx'[t] = Idle
    BY EndFacts
  <1>2. Idle \notin GroupTx
    BY RequestKinds DEF Requests
  <1>3. lock[tx[t].group] = t /\ lock[tx[u].group] = u
    BY DEF Sound, TxSound, GroupTxSound
  <1> QED
    BY <1>1, <1>2, <1>3

(* What the UPDATE of one rule makes of it, when nothing is moved. *)
LEMMA WrittenShape ==
  ASSUME Typed, Shaped, NEW t \in Txns, RuleWritten(t)
  PROVE  LET r == tx[t].rule
         IN  /\ r \in RuleIds \cap live
             /\ \A s \in RuleIds : s # r => rules'[s] = rules[s]
             /\ \/ rules'[r].group = None
                \/ /\ tx[t] \in UpdateTx
                   /\ rules'[r].group = rules[r].group /\ rules'[r].algo = rules[r].algo
                   /\ rules'[r].sig = rules[r].sig /\ rules'[r].priority = rules[r].priority
             /\ UNCHANGED <<groups, live, used>> /\ End(t)
  <1> DEFINE q == tx[t]
             r == q.rule
             row == Updated(rules[r], q.old, q.new)
  <1>1. /\ r \in RuleIds \cap live /\ q.old \in RuleRows /\ q.new \in RuleRows
        /\ q \in RuleTxs
        /\ \A s \in RuleIds : rules'[s] = IF s = r THEN row ELSE rules[s]
        /\ UNCHANGED <<groups, live, used>> /\ End(t)
    BY DEF RuleWritten
  <1>2. rules[r] \in RuleRows
    BY <1>1 DEF Typed
  <1>3. /\ row.group = IF q.new.group = q.old.group THEN rules[r].group ELSE q.new.group
        /\ row.algo = IF q.new.algo = q.old.algo THEN rules[r].algo ELSE q.new.algo
        /\ row.sig = IF q.new.sig = q.old.sig THEN rules[r].sig ELSE q.new.sig
        /\ row.priority = IF q.new.priority = q.old.priority THEN rules[r].priority
                                                             ELSE q.new.priority
    BY <1>1, <1>2, UpdatedColumns
  <1>4. TxShaped(t)
    BY DEF Shaped
  <1>5. q \in UpdateTx \cup DetachTx
    BY <1>1, <1>4 DEF TxShaped, RuleTxs
  <1>6. rules'[r] = row
    BY <1>1
  <1> HIDE DEF row
  <1>7. CASE q \in UpdateTx
    <2>1. /\ q.new.sig = q.old.sig /\ q.new.group = q.old.group
          /\ IF q.old.group = None
             THEN rules[r].group = None
             ELSE q.new.algo = q.old.algo /\ q.new.priority = q.old.priority
      BY <1>1, <1>4, <1>7 DEF TxShaped
    <2> QED
      BY <1>1, <1>3, <1>6, <1>7, <2>1
  <1>8. CASE q \in DetachTx
    <2>1. q.old.group # None /\ q.new.group = None
      BY <1>4, <1>8 DEF TxShaped
    <2> QED
      BY <1>1, <1>3, <1>6, <2>1
  <1> QED
    BY <1>5, <1>7, <1>8

LEMMA StepLeaves ==
  ASSUME Typed, Sound, Shaped, [Next]_vars
  PROVE  Leaves
  <1>0. \A u \in Txns : tx[u] \in GroupTx => tx[u].group \in GroupIds \cap live
    BY DEF Sound, TxSound, GroupTxSound, GroupTx
  <1>1. CASE \E N : Inserts(N)
    <2>1. PICK N : Inserts(N)
      BY <1>1
    <2>2. live \subseteq used
      BY DEF Typed
    <2> QED
      BY <1>0, <2>1, <2>2 DEF Inserts, Leaves
  <1>2. CASE \E r \in RuleIds : DeleteRule(r)
    BY <1>2 DEF DeleteRule, Leaves, Typed
  <1>3. ASSUME NEW t \in Txns, RuleWritten(t)
        PROVE  Leaves
    BY <1>3, WrittenShape DEF Leaves
  <1>4. ASSUME NEW t \in Txns, GroupWritten(t)
        PROVE  Leaves
    <2> DEFINE g == tx[t].group
    <2>1. /\ tx[t] \in GroupTx /\ g \in GroupIds /\ End(t) /\ live' = live
          /\ \A h \in GroupIds : h # g => groups'[h] = groups[h]
      BY <1>4 DEF GroupWritten, Typed
    <2>2. \A r \in RuleIds \cap live : rules'[r].group = rules[r].group
      BY <1>4, GroupWrittenKeeps
    <2> QED
      BY <1>0, <2>1, <2>2, OtherGroup DEF Leaves
  <1>5. ASSUME NEW t \in Txns, GroupDropped(t)
        PROVE  Leaves
    <2> DEFINE g == tx[t].group
    <2>1. tx[t] \in GroupTx /\ End(t)
      BY <1>5 DEF GroupDropped
    <2>2. /\ \A h \in GroupIds : h # g => groups'[h] = groups[h]
          /\ \A r \in RuleIds \cap live' :
               r \in live /\ (rules'[r] = rules[r] \/ rules'[r].group \in {rules[r].group, None})
      BY <1>5, GroupDroppedKeeps
    <2> QED
      BY <1>0, <2>1, <2>2, OtherGroup DEF Leaves
  <1>6. CASE UNCHANGED <<rules, groups, live, used>>
    BY <1>6 DEF Leaves
  <1> QED
    BY <1>1, <1>2, <1>3, <1>4, <1>5, <1>6, Steps

LEMMA ShapedKept ==
  ASSUME Typed, Sound, Shaped, Leaves, NEW t \in Txns, tx'[t] = tx[t]
  PROVE  TxShaped(t)'
  <1> DEFINE q == tx[t]
  <1>1. TxShaped(t) /\ TxSound(t)
    BY DEF Shaped, Sound
  <1>2. ASSUME q \in UpdateTx, q.old.group = None, q.rule \in live'
        PROVE  rules'[q.rule].group = None
    <2>1. q.rule \in RuleIds \cap used
      BY <1>1, <1>2 DEF TxSound, RuleTxSound, RuleTxs, UpdateTx
    <2> QED
      BY <1>1, <1>2, <2>1 DEF Leaves, TxShaped
  <1>3. ASSUME q \in GroupTx, NEW r \in DOMAIN q.members
        PROVE  /\ q.members[r].group = q.group
               /\ q.members[r].priority = groups'[q.group].priority
               /\ r \in live' => rules'[r].group \in {q.group, None}
    <2>1. r \in RuleIds \cap used
      BY <1>1, <1>3 DEF TxSound, GroupTxSound, GroupTx, Loaded
    <2> QED
      BY <1>1, <1>3, <2>1 DEF Leaves, TxShaped
  <1> QED
    BY <1>1, <1>2, <1>3 DEF TxShaped

(* What update_group writes, by the group of the rule. *)
LEMMA GroupWrittenShape ==
  ASSUME Typed, Sound, Shaped, NEW t \in Txns, GroupWritten(t)
  PROVE  LET q == tx[t]
             g == q.group
             base == IF q.params # None THEN q.params ELSE groups[g].params
         IN  /\ q \in GroupTx /\ q.op = "update_group" /\ g \in GroupIds /\ live' = live
             /\ \A h \in GroupIds : h # g => groups'[h] = groups[h]
             /\ groups'[g].algo = groups[g].algo /\ groups'[g].sig = groups[g].sig
             /\ groups'[g].params = base
             /\ \A r \in RuleIds \cap live :
                  /\ rules[r].group = g =>
                       /\ r \in DOMAIN q.members
                       /\ rules'[r] = Updated(rules[r], q.members[r],
                                              NewMember(q.members[r], base, q.priority))
                       /\ rules'[r].priority = groups'[g].priority
                  /\ rules[r].group \notin {g, None} => rules'[r] = rules[r]
             /\ base \in Params /\ q.priority \in Maybe(Priorities)
             /\ \A r \in DOMAIN q.members : q.members[r] \in RuleRows
  <1> DEFINE q == tx[t]
             g == q.group
             members == q.members
             base == IF q.params # None THEN q.params ELSE groups[g].params
             prio == IF q.priority # None THEN q.priority ELSE groups[g].priority
             New(r) == NewMember(members[r], base, q.priority)
             grow == [groups[g] EXCEPT !.params = base, !.priority = prio]
  <1>1. /\ q \in GroupTx /\ q.op = "update_group" /\ g \in GroupIds \cap live
        /\ DOMAIN members \subseteq RuleIds
        /\ \A r \in DOMAIN members : members[r] \in RuleRows
        /\ groups' = [groups EXCEPT ![g] = grow]
        /\ \A r \in RuleIds : rules'[r] = IF r \in DOMAIN members \cap live
                                          THEN Updated(rules[r], members[r], New(r))
                                          ELSE rules[r]
        /\ base \in Params /\ prio \in Priorities /\ live' = live
    BY DEF GroupWritten
  <1>2. q.priority \in Maybe(Priorities)
    BY <1>1 DEF GroupTx
  <1>3. groups[g] \in GroupRows /\ groups \in [GroupIds -> GroupRows \cup {NoGroup}]
    BY <1>1 DEF Typed
  <1>4. prio = IF q.priority # None THEN q.priority ELSE groups[g].priority
    OBVIOUS
  <1>5. TxShaped(t) /\ GroupTxSound(t)
    BY <1>1 DEF Shaped, Sound, TxSound
  <1> HIDE DEF base, prio, g, New
  <1>6. /\ grow.algo = groups[g].algo /\ grow.sig = groups[g].sig
        /\ grow.params = base /\ grow.priority = prio
    BY <1>3 DEF GroupRows
  <1> HIDE DEF grow
  <1>7. groups'[g] = grow /\ \A h \in GroupIds : h # g => groups'[h] = groups[h]
    BY <1>1, <1>3
  <1>8. ASSUME NEW r \in RuleIds \cap live, rules[r].group = g
        PROVE  r \in DOMAIN members /\ rules'[r].priority = prio
    <2>1. r \in DOMAIN members
      BY <1>5, <1>8 DEF GroupTxSound, Members, g
    <2>2. members[r].priority = groups[g].priority
      BY <1>1, <1>5, <2>1 DEF TxShaped, g
    <2>3. rules[r].priority = groups[g].priority
      <3>1. g # None
        BY <1>1, RuleStoreAssumption
      <3> QED
        BY <1>8, <3>1 DEF Shaped, MemberShapeFollowsGroup, Grouped
    <2>4. members[r] \in RuleRows /\ rules[r] \in RuleRows
      BY <1>1, <2>1 DEF Typed
    <2>5. /\ New(r) \in RuleRows
          /\ New(r).priority = IF q.priority # None THEN q.priority ELSE members[r].priority
      BY <1>1, <1>2, <2>4, NewMemberIs DEF New
    <2>6. rules'[r].priority = IF New(r).priority = members[r].priority
                               THEN rules[r].priority ELSE New(r).priority
      BY <1>1, <2>1, <2>4, <2>5, UpdatedColumns
    <2> QED
      BY <1>4, <2>1, <2>2, <2>3, <2>5, <2>6
  <1>9. ASSUME NEW r \in RuleIds \cap live, rules[r].group \notin {g, None}
        PROVE  rules'[r] = rules[r]
    <2>1. r \notin DOMAIN members
      BY <1>1, <1>5, <1>9 DEF TxShaped, g
    <2> QED
      BY <1>1, <2>1
  <1>10. /\ \A r \in RuleIds \cap live : rules[r].group = g =>
              /\ r \in DOMAIN members /\ rules'[r].priority = prio
              /\ rules'[r] = Updated(rules[r], members[r], New(r))
    BY <1>1, <1>8
  <1> QED
    BY <1>1, <1>2, <1>6, <1>7, <1>9, <1>10 DEF g, base, New

LEMMA ShapesStep ==
  ASSUME Typed, Sound, GroupExistsForClient, Shaped, [Next]_vars
  PROVE  MemberShapeFollowsGroup'
  <1> DEFINE Like(row, grow) ==
               row.algo = grow.algo /\ row.sig = grow.sig /\ row.priority = grow.priority
  <1> SUFFICES ASSUME NEW r \in RuleIds \cap live', rules'[r].group # None
               PROVE  Like(rules'[r], groups'[rules'[r].group])
    BY DEF MemberShapeFollowsGroup, Grouped
  <1>0. ASSUME NEW s \in RuleIds \cap live, rules[s].group # None
        PROVE  /\ rules[s].group \in GroupIds \cap live
               /\ Like(rules[s], groups[rules[s].group])
    BY <1>0 DEF Typed, RuleRows, Maybe, Shaped, MemberShapeFollowsGroup, GroupExistsForClient,
                Grouped
  <1>1. CASE \E N : Inserts(N)
    <2>1. PICK N : Inserts(N)
      BY <1>1
    <2>2. CASE r \in N
      BY <2>1, <2>2 DEF Inserts, SameShape
    <2>3. CASE r \notin N
      <3>1. rules'[r] = rules[r] /\ r \in live
        BY <2>1, <2>3 DEF Inserts
      <3>2. rules[r].group \in GroupIds \cap used
        BY <1>0, <3>1 DEF Typed
      <3>3. groups'[rules[r].group] = groups[rules[r].group]
        BY <2>1, <3>2 DEF Inserts
      <3> QED
        BY <1>0, <3>1, <3>3
    <2> QED
      BY <2>2, <2>3
  <1>2. CASE \E d \in RuleIds : DeleteRule(d)
    <2>1. r \in live /\ rules'[r] = rules[r] /\ groups' = groups
      BY <1>2 DEF DeleteRule, Typed
    <2> QED
      BY <1>0, <2>1
  <1>3. ASSUME NEW t \in Txns, RuleWritten(t)
        PROVE  Like(rules'[r], groups'[rules'[r].group])
    <2>1. /\ r \in live /\ groups' = groups /\ rules'[r].group = rules[r].group
          /\ rules'[r].algo = rules[r].algo /\ rules'[r].sig = rules[r].sig
          /\ rules'[r].priority = rules[r].priority
      BY <1>3, WrittenShape
    <2> QED
      BY <1>0, <2>1
  <1>4. ASSUME NEW t \in Txns, GroupWritten(t)
        PROVE  Like(rules'[r], groups'[rules'[r].group])
    <2> DEFINE g == tx[t].group
    <2>1. /\ live' = live /\ \A h \in GroupIds : h # g => groups'[h] = groups[h]
          /\ groups'[g].algo = groups[g].algo /\ groups'[g].sig = groups[g].sig
      BY <1>4, GroupWrittenShape
    <2>2. /\ rules[r].group = g => rules'[r].priority = groups'[g].priority
          /\ rules[r].group \notin {g, None} => rules'[r] = rules[r]
      BY <1>4, <2>1, GroupWrittenShape
    <2>3. /\ rules'[r].group = rules[r].group /\ rules'[r].algo = rules[r].algo
          /\ rules'[r].sig = rules[r].sig
      BY <1>4, <2>1, GroupWrittenKeeps
    <2> HIDE DEF g
    <2> QED
      BY <1>0, <2>1, <2>2, <2>3
  <1>5. ASSUME NEW t \in Txns, GroupDropped(t)
        PROVE  Like(rules'[r], groups'[rules'[r].group])
    <2>1. /\ r \in live /\ rules'[r].group # tx[t].group
          /\ rules'[r].algo = rules[r].algo /\ rules'[r].sig = rules[r].sig
          /\ rules'[r].priority = rules[r].priority
          /\ rules'[r] = rules[r] \/ rules'[r].group \in {rules[r].group, None}
          /\ \A h \in GroupIds : h # tx[t].group => groups'[h] = groups[h]
      BY <1>5, GroupDroppedKeeps
    <2>2. rules'[r].group = rules[r].group
      BY <2>1
    <2> QED
      BY <1>0, <2>1, <2>2
  <1>6. CASE UNCHANGED <<rules, groups, live, used>>
    BY <1>0, <1>6
  <1> QED
    BY <1>1, <1>2, <1>3, <1>4, <1>5, <1>6, Steps

(* The step of one request leaves the others where they are. *)
LEMMA ShapedOthers ==
  ASSUME Typed, Sound, Shaped, Leaves, MemberShapeFollowsGroup', NEW t \in Txns,
         \A u \in Txns : u # t => tx'[u] = tx[u], TxShaped(t)'
  PROVE  Shaped'
  BY ShapedKept DEF Shaped

LEMMA IdleShaped ==
  ASSUME NEW t \in Txns, tx'[t] = Idle
  PROVE  TxShaped(t)' /\ TxCurrent(t)'
  <1>1. Idle \notin RuleTxs /\ Idle \notin GroupTx
    BY RequestKinds DEF Requests
  <1> QED
    BY <1>1 DEF TxShaped, TxCurrent, RuleTxs

LEMMA ShapedLockGroup ==
  ASSUME Typed, Sound, Shaped, NEW t \in Txns, NEW op \in {"update_group", "delete_group"},
         NEW g \in GroupIds, NEW params \in Maybe(Params), NEW priority \in Maybe(Priorities),
         NEW mode \in {None, "detach", "delete"}, LockGroup(t, op, g, params, priority, mode)
  PROVE  TxShaped(t)' /\ \A u \in Txns : u # t => tx'[u] = tx[u]
  <1> DEFINE members == [r \in Members(g) |-> rules[r]]
  <1>1. /\ tx'[t].group = g /\ tx'[t].members = members
        /\ tx'[t] \in GroupTx /\ Proceeds(t, tx'[t], g)
    BY LockGroupProceeds
  <1>2. tx'[t] \notin RuleTxs
    BY <1>1, RequestKinds DEF Requests, RuleTxs
  <1>3. UNCHANGED <<rules, groups, live>> /\ \A u \in Txns : u # t => tx'[u] = tx[u]
    BY <1>1 DEF Proceeds, Typed
  <1>4. g # None
    BY RuleStoreAssumption
  <1>5. \A r \in DOMAIN members :
          /\ members[r].group = g /\ members[r].priority = groups[g].priority
          /\ rules[r].group = g
    BY <1>4 DEF Members, Shaped, MemberShapeFollowsGroup, Grouped
  <1> HIDE DEF members
  <1> QED
    BY <1>1, <1>2, <1>3, <1>5 DEF TxShaped, RuleTxs

LEMMA ShapedPatchRule ==
  ASSUME Typed, Sound, Shaped, NEW t \in Txns, NEW r \in RuleIds, NEW p \in Patches,
         NEW patch \in Expecting(p), PatchRule(t, r, patch)
  PROVE  TxShaped(t)' /\ \A u \in Txns : u # t => tx'[u] = tx[u]
  <1> DEFINE q == [op |-> "update_rule", pc |-> "loaded", rule |-> r, old |-> rules[r],
                   new |-> rules[r], patch |-> patch]
  <1>1. patch \in PatchBodies
    BY PatchType
  <1>2. tx'[t] = q /\ tx'[t] \in UpdateTx /\ Proceeds(t, tx'[t], None)
    BY <1>1, PatchRuleProceeds
  <1>3. /\ tx'[t].rule = r /\ tx'[t].old = rules[r] /\ tx'[t].new = rules[r]
        /\ tx'[t].patch = patch
    BY <1>2
  <1>4. tx'[t] \notin GroupTx /\ tx'[t] \notin MoveTx /\ tx'[t] \notin DetachTx
    BY <1>2, RequestKinds DEF Requests, RuleTxs, UpdateTx, MoveTx, DetachTx
  <1> HIDE DEF q
  <1>5. UNCHANGED <<rules, groups, live>> /\ \A u \in Txns : u # t => tx'[u] = tx[u]
    BY <1>2 DEF Proceeds, Typed
  <1>6. rules[r].group # None => patch.algo = None /\ patch.priority = None
    BY DEF PatchRule
  <1> QED
    BY <1>3, <1>4, <1>5, <1>6 DEF TxShaped

LEMMA ShapedPlanPatch ==
  ASSUME Typed, Sound, Shaped, NEW t \in Txns, PlanPatch(t), ~Abort(t)
  PROVE  TxShaped(t)' /\ \A u \in Txns : u # t => tx'[u] = tx[u]
  <1> DEFINE old == tx[t].old
             patch == tx[t].patch
             new == Patched(old, patch)
  <1>1. /\ tx[t] \in UpdateTx
        /\ patch.overrides # None => old.group \in live
        /\ tx'[t] = [tx[t] EXCEPT !.pc = "commit", !.new = new]
        /\ tx'[t] \in UpdateTx /\ Proceeds(t, tx'[t], None)
    BY PlanPatchProceeds
  <1>2. old \in RuleRows /\ patch \in PatchBodies
    BY <1>1 DEF UpdateTx
  <1>3. /\ new.sig = old.sig /\ new.group = old.group
        /\ new.algo = IF patch.algo # None THEN patch.algo ELSE old.algo
        /\ new.priority = IF patch.priority # None THEN patch.priority ELSE old.priority
    BY <1>1, <1>2, PatchedIs
  <1> HIDE DEF new
  <1>4. /\ tx'[t].old = old /\ tx'[t].new = new /\ tx'[t].rule = tx[t].rule
        /\ tx'[t].patch = patch
    BY <1>1 DEF UpdateTx
  <1>5. tx'[t] \notin GroupTx /\ tx'[t] \notin MoveTx /\ tx'[t] \notin DetachTx
    BY <1>1, RequestKinds DEF Requests, RuleTxs, UpdateTx, MoveTx, DetachTx
  <1>6. UNCHANGED <<rules, groups, live>> /\ \A u \in Txns : u # t => tx'[u] = tx[u]
    BY <1>1 DEF Proceeds, Typed
  <1>7. TxShaped(t)
    BY DEF Shaped
  <1> QED
    BY <1>1, <1>3, <1>4, <1>5, <1>6, <1>7 DEF TxShaped

LEMMA ShapedDetach ==
  ASSUME Typed, Sound, NEW t \in Txns, NEW r \in RuleIds, NEW a \in Algorithms,
         NEW p \in Params, DetachRule(t, r, a, p)
  PROVE  /\ TxShaped(t)' /\ TxCurrent(t)'
         /\ \A u \in Txns : u # t => tx'[u] = tx[u]
  <1>1. /\ tx'[t] \in DetachTx /\ tx'[t].old = rules[r] /\ tx'[t].new.group = None
        /\ rules[r].group # None /\ Proceeds(t, tx'[t], None)
    BY DetachRuleProceeds
  <1>2. tx'[t] \notin GroupTx /\ tx'[t] \notin MoveTx /\ tx'[t] \notin UpdateTx
    BY <1>1, RequestKinds DEF Requests, RuleTxs, UpdateTx, MoveTx, DetachTx
  <1>3. \A u \in Txns : u # t => tx'[u] = tx[u]
    BY <1>1 DEF Proceeds, Typed
  <1> QED
    BY <1>1, <1>2, <1>3 DEF TxShaped, TxCurrent

LEMMA EndsIdle ==
  ASSUME Typed, Sound, NEW t \in Txns,
         CommitRule(t) \/ CommitGroup(t) \/ CommitDrop(t) \/ Abort(t)
  PROVE  tx'[t] = Idle /\ \A u \in Txns : u # t => tx'[u] = tx[u]
  <1>1. End(t)
    BY DEF CommitRule, CommitGroup, CommitDrop, Abort
  <1> QED
    BY <1>1, EndFacts

LEMMA ShapedStep ==
  ASSUME NoMoves, Typed, Sound, GroupExistsForClient, Shaped, [Next]_vars
  PROVE  Shaped'
  <1>0. Leaves /\ MemberShapeFollowsGroup'
    BY StepLeaves, ShapesStep
  <1>1. CASE UNCHANGED tx
    BY <1>0, <1>1, ShapedKept DEF Shaped
  <1>2. ASSUME NEW t \in Txns, NEW r \in RuleIds, NEW p \in Patches, NEW patch \in Expecting(p),
               PatchRule(t, r, patch)
        PROVE  Shaped'
    BY <1>0, <1>2, ShapedPatchRule, ShapedOthers
  <1>3. ASSUME NEW t \in Txns, PlanPatch(t), ~Abort(t)
        PROVE  Shaped'
    BY <1>0, <1>3, ShapedPlanPatch, ShapedOthers
  <1>4. ASSUME NEW t \in Txns, NEW r \in RuleIds, NEW a \in Algorithms, NEW p \in Params,
               DetachRule(t, r, a, p)
        PROVE  Shaped'
    BY <1>0, <1>4, ShapedDetach, ShapedOthers
  <1>5. ASSUME NEW t \in Txns, NEW r \in RuleIds, NEW g \in GroupIds, NEW ov \in Overrides
        PROVE  ~MoveRule(t, r, g, ov)
    BY DEF MoveRule, Begin, NoMoves
  <1>6. ASSUME NEW t \in Txns
        PROVE  ~LockTarget(t)
    <2>1. tx[t] \in Requests /\ tx[t] \notin MoveTx
      BY DEF Typed, Shaped, TxShaped
    <2> QED
      BY <2>1, RequestKinds DEF LockTarget
  <1>7. ASSUME NEW t \in Txns, NEW g \in GroupIds, NEW p \in Maybe(Params),
               NEW n \in Maybe(Priorities), PatchGroup(t, g, p, n)
        PROVE  Shaped'
    BY <1>0, <1>7, ShapedLockGroup, ShapedOthers DEF PatchGroup
  <1>8. ASSUME NEW t \in Txns, NEW g \in GroupIds, NEW mode \in {"detach", "delete"},
               DropGroup(t, g, mode)
        PROVE  Shaped'
    <2>1. None \in Maybe(Params) /\ None \in Maybe(Priorities)
      BY DEF Maybe
    <2> QED
      BY <1>0, <1>8, <2>1, ShapedLockGroup, ShapedOthers DEF DropGroup
  <1>9. ASSUME NEW t \in Txns, CommitRule(t) \/ CommitGroup(t) \/ CommitDrop(t) \/ Abort(t)
        PROVE  Shaped'
    BY <1>0, <1>9, EndsIdle, IdleShaped, ShapedOthers
  <1> QED
    BY <1>1, <1>2, <1>3, <1>4, <1>5, <1>6, <1>7, <1>8, <1>9
       DEF Next, vars, CreateRule, DeleteRule, CreateGroup, AddMembers

LEMMA AlwaysShaped ==
  ASSUME NoMoves
  PROVE  Spec => []Shaped
  <1>1. Init => Shaped
    <2>1. Idle \notin RuleTxs /\ Idle \notin GroupTx
      BY RequestKinds DEF Requests
    <2> QED
      BY <2>1 DEF Init, Shaped, TxShaped, RuleTxs, MemberShapeFollowsGroup, Grouped
  <1>2. Typed /\ Sound /\ GroupExistsForClient /\ Shaped /\ [Next]_vars => Shaped'
    BY ShapedStep
  <1> QED
    BY <1>1, <1>2, AlwaysSound, GroupsOfClients, PTL DEF Spec

(* MemberShapeFollowsGroup of README.md:468-469, with any overlap of requests
   but move_to_group: whatever else is stale, a member has the algorithm, the
   identifier types and the priority of its group. *)
THEOREM OverlapMemberShape ==
  ASSUME NoMoves
  PROVE  Spec => []MemberShapeFollowsGroup
  <1>1. Shaped => MemberShapeFollowsGroup
    BY DEF Shaped
  <1> QED
    BY <1>1, AlwaysShaped, PTL

(* Nobody but the holder of its lock writes the rules that stay in a group. *)
Alone ==
  \A u \in Txns : tx[u] \in GroupTx /\ tx'[u] = tx[u] =>
    \A r \in RuleIds \cap live \cap live' :
      rules'[r].group = tx[u].group => rules'[r] = rules[r]

LEMMA CurrentKept ==
  ASSUME Typed, Sound, Current, Leaves, Alone, NEW t \in Txns, tx'[t] = tx[t]
  PROVE  TxCurrent(t)'
  <1> DEFINE q == tx[t]
             base == IF q.params # None THEN q.params ELSE groups[q.group].params
  <1>1. TxCurrent(t) /\ TxSound(t)
    BY DEF Current, Sound
  <1>2. ASSUME q \in GroupTx, NEW r \in DOMAIN q.members
        PROVE  /\ r \in live' /\ rules'[r].group = q.group => rules'[r] = q.members[r]
               /\ q.op = "update_group" =>
                    Builds(groups[q.group].algo, Effective(base, q.members[r].overrides))
               /\ groups'[q.group] = groups[q.group]
    <2>1. r \in RuleIds \cap used
      BY <1>1, <1>2 DEF TxSound, GroupTxSound, GroupTx, Loaded
    <2>2. groups'[q.group] = groups[q.group]
      BY <1>2 DEF Leaves
    <2>3. /\ r \in live /\ rules[r].group = q.group => rules[r] = q.members[r]
          /\ q.op = "update_group" =>
               Builds(groups[q.group].algo, Effective(base, q.members[r].overrides))
      BY <1>1, <1>2 DEF TxCurrent
    <2>4. r \in live' => r \in live
      BY <2>1 DEF Leaves
    <2>5. r \in live' /\ rules'[r].group = q.group => rules'[r] = rules[r]
      BY <1>2, <2>1, <2>4 DEF Alone
    <2> HIDE DEF base
    <2> QED
      BY <2>2, <2>3, <2>4, <2>5
  <1> QED
    BY <1>1, <1>2 DEF TxCurrent

LEMMA StepAlone ==
  ASSUME Typed, Sound, Shaped, Current, [Next]_vars
  PROVE  Alone
  <1>0. ASSUME NEW u \in Txns, tx[u] \in GroupTx
        PROVE  tx[u].group \in GroupIds /\ tx[u].group # None
    BY <1>0, RuleStoreAssumption DEF GroupTx
  <1>1. CASE \E N : Inserts(N)
    <2>1. PICK N : Inserts(N)
      BY <1>1
    <2>2. live \subseteq used
      BY DEF Typed
    <2> QED
      BY <2>1, <2>2 DEF Inserts, Alone
  <1>2. CASE \E r \in RuleIds : DeleteRule(r)
    BY <1>2 DEF DeleteRule, Alone, Typed
  <1>3. ASSUME NEW t \in Txns, RuleWritten(t)
        PROVE  Alone
    <2>1. tx[t] \notin UpdateTx
      BY DEF Current, TxCurrent
    <2> QED
      BY <1>0, <1>3, <2>1, WrittenShape DEF Alone
  <1>4. ASSUME NEW t \in Txns, GroupWritten(t)
        PROVE  Alone
    <2>1. tx[t] \in GroupTx /\ End(t)
      BY <1>4 DEF GroupWritten
    <2>2. \A r \in RuleIds \cap live :
            /\ rules'[r].group = rules[r].group
            /\ rules[r].group \notin {tx[t].group, None} => rules'[r] = rules[r]
      BY <1>4, GroupWrittenKeeps, GroupWrittenShape
    <2> QED
      BY <1>0, <2>1, <2>2, OtherGroup DEF Alone
  <1>5. ASSUME NEW t \in Txns, GroupDropped(t)
        PROVE  Alone
    <2>1. tx[t] \in GroupTx /\ End(t)
      BY <1>5 DEF GroupDropped
    <2>2. \A r \in RuleIds \cap live \cap live' :
            /\ rules'[r] = rules[r] \/ rules'[r].group \in {rules[r].group, None}
            /\ r \notin DOMAIN tx[t].members => rules'[r] = rules[r]
      BY <1>5, GroupDroppedKeeps
    <2>3. \A r \in DOMAIN tx[t].members : r \in live => rules[r].group \in {tx[t].group, None}
      BY <2>1 DEF Shaped, TxShaped
    <2> QED
      BY <1>0, <2>1, <2>2, <2>3, OtherGroup DEF Alone
  <1>6. CASE UNCHANGED <<rules, groups, live, used>>
    BY <1>6 DEF Alone
  <1> QED
    BY <1>1, <1>2, <1>3, <1>4, <1>5, <1>6, Steps

LEMMA ParamsStep ==
  ASSUME Typed, Sound, GroupExistsForClient, Shaped, Current, [Next]_vars
  PROVE  MemberParamsFollowGroup' /\ MembersBuild'
  <1> DEFINE Good(row, grow) ==
               row.params = Effective(grow.params, row.overrides) /\ Builds(row.algo, row.params)
  <1> SUFFICES ASSUME NEW r \in RuleIds \cap live', rules'[r].group # None
               PROVE  Good(rules'[r], groups'[rules'[r].group])
    BY DEF MemberParamsFollowGroup, MembersBuild, Grouped
  <1>0. ASSUME NEW s \in RuleIds \cap live, rules[s].group # None
        PROVE  /\ rules[s].group \in GroupIds \cap live
               /\ Good(rules[s], groups[rules[s].group])
    BY <1>0 DEF Typed, RuleRows, Maybe, Current, MemberParamsFollowGroup, MembersBuild,
                GroupExistsForClient, Grouped
  <1>1. CASE \E N : Inserts(N)
    <2>1. PICK N : Inserts(N)
      BY <1>1
    <2>2. CASE r \in N
      BY <2>1, <2>2 DEF Inserts, SameShape
    <2>3. CASE r \notin N
      <3>1. rules'[r] = rules[r] /\ r \in live
        BY <2>1, <2>3 DEF Inserts
      <3>2. rules[r].group \in GroupIds \cap used
        BY <1>0, <3>1 DEF Typed
      <3>3. groups'[rules[r].group] = groups[rules[r].group]
        BY <2>1, <3>2 DEF Inserts
      <3> QED
        BY <1>0, <3>1, <3>3
    <2> QED
      BY <2>2, <2>3
  <1>2. CASE \E d \in RuleIds : DeleteRule(d)
    <2>1. r \in live /\ rules'[r] = rules[r] /\ groups' = groups
      BY <1>2 DEF DeleteRule, Typed
    <2> QED
      BY <1>0, <2>1
  <1>3. ASSUME NEW t \in Txns, RuleWritten(t)
        PROVE  Good(rules'[r], groups'[rules'[r].group])
    <2>1. tx[t] \notin UpdateTx
      BY DEF Current, TxCurrent
    <2>2. r \in live /\ groups' = groups /\ rules'[r] = rules[r]
      BY <1>3, <2>1, WrittenShape
    <2> QED
      BY <1>0, <2>2
  <1>4. ASSUME NEW t \in Txns, GroupWritten(t)
        PROVE  Good(rules'[r], groups'[rules'[r].group])
    <2> DEFINE q == tx[t]
               g == q.group
               base == IF q.params # None THEN q.params ELSE groups[g].params
               m == q.members[r]
               new == NewMember(m, base, q.priority)
    <2>1. /\ q \in GroupTx /\ q.op = "update_group" /\ live' = live
          /\ \A h \in GroupIds : h # g => groups'[h] = groups[h]
          /\ groups'[g].params = base /\ base \in Params
          /\ q.priority \in Maybe(Priorities) /\ g \in GroupIds
          /\ \A s \in DOMAIN q.members : q.members[s] \in RuleRows
      BY <1>4, GroupWrittenShape
    <2>2. /\ rules[r].group = g => r \in DOMAIN q.members /\ rules'[r] = Updated(rules[r], m, new)
          /\ rules[r].group \notin {g, None} => rules'[r] = rules[r]
      BY <1>4, <2>1, GroupWrittenShape
    <2>3. rules'[r].group = rules[r].group
      BY <1>4, <2>1, GroupWrittenKeeps
    <2>4. CASE rules[r].group = g
      <3>1. r \in DOMAIN q.members /\ m \in RuleRows
        BY <2>1, <2>2, <2>4
      <3>2. rules[r] = m /\ Builds(groups[g].algo, Effective(base, m.overrides))
        BY <2>1, <2>4, <3>1 DEF Current, TxCurrent
      <3>3. /\ new \in RuleRows /\ new.algo = m.algo /\ new.overrides = m.overrides
            /\ new.params = Effective(base, m.overrides)
        BY <2>1, <3>1, NewMemberIs
      <3> HIDE DEF new, base, m
      <3>4. rules'[r] = new
        BY <2>2, <2>4, <3>1, <3>2, <3>3, UpdatedCurrent
      <3>5. rules[r].algo = groups[g].algo
        BY <2>1, <2>3, <2>4 DEF Shaped, MemberShapeFollowsGroup, Grouped
      <3> QED
        BY <2>1, <2>3, <2>4, <3>2, <3>3, <3>4, <3>5
    <2>5. CASE rules[r].group # g
      <3>1. rules'[r] = rules[r]
        BY <2>2, <2>3, <2>5
      <3> HIDE DEF g
      <3> QED
        BY <1>0, <2>1, <2>5, <3>1
    <2> QED
      BY <2>4, <2>5
  <1>5. ASSUME NEW t \in Txns, GroupDropped(t)
        PROVE  Good(rules'[r], groups'[rules'[r].group])
    <2>0. tx[t] \in GroupTx
      BY <1>5 DEF GroupDropped
    <2>1. /\ r \in live /\ rules'[r].group # tx[t].group
          /\ rules'[r] = rules[r] \/ rules'[r].group \in {rules[r].group, None}
          /\ r \notin DOMAIN tx[t].members => rules'[r] = rules[r]
          /\ \A h \in GroupIds : h # tx[t].group => groups'[h] = groups[h]
      BY <1>5, GroupDroppedKeeps
    <2>2. r \in DOMAIN tx[t].members => rules[r].group \in {tx[t].group, None}
      BY <2>0, <2>1 DEF Shaped, TxShaped
    <2>3. rules'[r] = rules[r]
      BY <2>1, <2>2
    <2> QED
      BY <1>0, <2>1, <2>3
  <1>6. CASE UNCHANGED <<rules, groups, live, used>>
    BY <1>0, <1>6
  <1> QED
    BY <1>1, <1>2, <1>3, <1>4, <1>5, <1>6, Steps

LEMMA CurrentOthers ==
  ASSUME Typed, Sound, Current, Leaves, Alone, MemberParamsFollowGroup', MembersBuild',
         NEW t \in Txns, \A u \in Txns : u # t => tx'[u] = tx[u], TxCurrent(t)'
  PROVE  Current'
  BY CurrentKept DEF Current

LEMMA CurrentLockGroup ==
  ASSUME Typed, Sound, NEW t \in Txns, NEW op \in {"update_group", "delete_group"},
         NEW g \in GroupIds, NEW params \in Maybe(Params), NEW priority \in Maybe(Priorities),
         NEW mode \in {None, "detach", "delete"}, LockGroup(t, op, g, params, priority, mode),
         op = "update_group" => \A r \in Members(g) :
           Builds(groups[g].algo,
                  Effective(IF params # None THEN params ELSE groups[g].params,
                            rules[r].overrides))
  PROVE  TxCurrent(t)' /\ \A u \in Txns : u # t => tx'[u] = tx[u]
  <1> DEFINE members == [r \in Members(g) |-> rules[r]]
  <1>1. /\ tx'[t].op = op /\ tx'[t].group = g /\ tx'[t].members = members
        /\ tx'[t].params = params /\ tx'[t] \in GroupTx /\ Proceeds(t, tx'[t], g)
    BY LockGroupProceeds
  <1>2. tx'[t] \notin UpdateTx
    BY <1>1, RequestKinds DEF Requests, RuleTxs
  <1>3. UNCHANGED <<rules, groups, live>> /\ \A u \in Txns : u # t => tx'[u] = tx[u]
    BY <1>1 DEF Proceeds, Typed
  <1>4. DOMAIN members = Members(g) /\ \A r \in DOMAIN members : members[r] = rules[r]
    OBVIOUS
  <1> HIDE DEF members
  <1>5. ASSUME op = "update_group", NEW r \in DOMAIN members
        PROVE  Builds(groups[g].algo,
                      Effective(IF params # None THEN params ELSE groups[g].params,
                                members[r].overrides))
    BY <1>4, <1>5
  <1> QED
    BY <1>1, <1>2, <1>3, <1>4, <1>5 DEF TxCurrent

LEMMA CurrentStep ==
  ASSUME NoMoves, NoPatches, Typed, Sound, GroupExistsForClient, Shaped, Current, [Next]_vars
  PROVE  Current'
  <1>0. Leaves /\ Alone /\ MemberParamsFollowGroup' /\ MembersBuild'
    BY StepLeaves, StepAlone, ParamsStep
  <1>1. CASE UNCHANGED tx
    BY <1>0, <1>1, CurrentKept DEF Current
  <1>2. ASSUME NEW t \in Txns, NEW r \in RuleIds, NEW patch
        PROVE  ~PatchRule(t, r, patch)
    BY DEF PatchRule, Begin, NoPatches
  <1>3. ASSUME NEW t \in Txns
        PROVE  ~PlanPatch(t)
    <2>1. tx[t] \in Requests /\ tx[t] \notin UpdateTx
      BY DEF Typed, Current, TxCurrent
    <2> QED
      BY <2>1, RequestKinds DEF PlanPatch
  <1>4. ASSUME NEW t \in Txns, NEW r \in RuleIds, NEW a \in Algorithms, NEW p \in Params,
               DetachRule(t, r, a, p)
        PROVE  Current'
    BY <1>0, <1>4, ShapedDetach, CurrentOthers
  <1>5. ASSUME NEW t \in Txns, NEW r \in RuleIds, NEW g \in GroupIds, NEW ov \in Overrides
        PROVE  ~MoveRule(t, r, g, ov)
    BY DEF MoveRule, Begin, NoMoves
  <1>6. ASSUME NEW t \in Txns
        PROVE  ~LockTarget(t)
    <2>1. tx[t] \in Requests /\ tx[t] \notin MoveTx
      BY DEF Typed, Shaped, TxShaped
    <2> QED
      BY <2>1, RequestKinds DEF LockTarget
  <1>7. ASSUME NEW t \in Txns, NEW g \in GroupIds, NEW p \in Maybe(Params),
               NEW n \in Maybe(Priorities), PatchGroup(t, g, p, n)
        PROVE  Current'
    <2>1. TxCurrent(t)' /\ \A u \in Txns : u # t => tx'[u] = tx[u]
      BY <1>7, CurrentLockGroup DEF PatchGroup
    <2> QED
      BY <1>0, <2>1, CurrentOthers
  <1>8. ASSUME NEW t \in Txns, NEW g \in GroupIds, NEW mode \in {"detach", "delete"},
               DropGroup(t, g, mode)
        PROVE  Current'
    <2>1. None \in Maybe(Params) /\ None \in Maybe(Priorities)
      BY DEF Maybe
    <2>2. TxCurrent(t)' /\ \A u \in Txns : u # t => tx'[u] = tx[u]
      BY <1>8, <2>1, CurrentLockGroup DEF DropGroup
    <2> QED
      BY <1>0, <2>2, CurrentOthers
  <1>9. ASSUME NEW t \in Txns, CommitRule(t) \/ CommitGroup(t) \/ CommitDrop(t) \/ Abort(t)
        PROVE  Current'
    BY <1>0, <1>9, EndsIdle, IdleShaped, CurrentOthers
  <1> QED
    BY <1>1, <1>2, <1>3, <1>4, <1>5, <1>6, <1>7, <1>8, <1>9
       DEF Next, vars, CreateRule, DeleteRule, CreateGroup, AddMembers

(* MemberParamsFollowGroup of README.md:468, and that members build, with any
   overlap of base edits, deletions, detachments and new members: the row lock
   of the group is enough for all of them.  What breaks it is update_rule and
   move_to_group, which load the rule before they look at the group. *)
THEOREM OverlapMemberParams ==
  ASSUME NoMoves, NoPatches
  PROVE  Spec => [](MemberParamsFollowGroup /\ MembersBuild)
  <1>1. Init => Current
    <2>1. Idle \notin RuleTxs /\ Idle \notin GroupTx
      BY RequestKinds DEF Requests
    <2> QED
      BY <2>1 DEF Init, Current, TxCurrent, RuleTxs, MemberParamsFollowGroup, MembersBuild, Grouped
  <1>2. /\ Typed /\ Sound /\ GroupExistsForClient /\ Shaped /\ Current /\ [Next]_vars
        => Current'
    BY CurrentStep
  <1>3. Current => MemberParamsFollowGroup /\ MembersBuild
    BY DEF Current
  <1> QED
    BY <1>1, <1>2, <1>3, AlwaysSound, AlwaysShaped, GroupsOfClients, PTL DEF Spec

=============================================================================
