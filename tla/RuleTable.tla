----------------------------- MODULE RuleTable -----------------------------
(***************************************************************************)
(* What the table of rules promises to whoever reads it, a commit at a     *)
(* time.  RuleStore, with its overlapping requests, implements it; the     *)
(* processes that poll the table (RulesPoller) rely on nothing else.       *)
(***************************************************************************)
CONSTANT Rules    \* the rows there can be: an id, a client, an endpoint, ...

VARIABLES
  table,    \* the committed rows
  used      \* ids that were ever given to a row

-----------------------------------------------------------------------------

Ids(rows) == {r.id : r \in rows}

(* The primary key, and ux_rules_active_scope: one active rule per client,
   endpoint and signature. *)
Unique(rows) ==
  \A r, s \in rows :
    (\/ r.id = s.id
     \/ /\ r.status = "active" /\ s.status = "active"
        /\ r.client = s.client /\ r.endpoint = s.endpoint /\ r.sig = s.sig) => r = s

Init == table = {} /\ used = {}

(* create_rule, create_group with its members, add_members: no id returns. *)
Insert ==
  /\ table \subseteq table'
  /\ Ids(table' \ table) \cap used = {}
  /\ used' = used \cup Ids(table' \ table)

(* update_rule, detach_rule, move_to_group, update_group and the delete_group
   that detaches: one rule or many, and none changes hands. *)
Update ==
  /\ Ids(table') = Ids(table)
  /\ \A r \in table, s \in table' :
       r.id = s.id => r.client = s.client /\ r.endpoint = s.endpoint
  /\ UNCHANGED used

(* delete_rule, and the delete_group that deletes its members. *)
Delete == table' \subseteq table /\ UNCHANGED used

Next ==
  /\ table' \subseteq Rules
  /\ Unique(table')
  /\ Insert \/ Update \/ Delete

Spec == Init /\ [][Next]_<<table, used>>

=============================================================================
