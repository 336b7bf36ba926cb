---------------------------- MODULE RulesPoller ----------------------------
(***************************************************************************)
(* services/rules_loader.py, services/rules_cache.py and the rules poll of *)
(* core/scheduler.py: the table of rules in PostgreSQL, and the copy of it *)
(* that one process works with.                                            *)
(*                                                                         *)
(* The table changes by whole commits, as RuleTable says; RuleStore models *)
(* the requests behind them, and implements RuleTable.                     *)
(***************************************************************************)
EXTENDS RuleIndex

CONSTANTS
  Rows,       \* what can be stored as a rule: members of RuleContent
  Polls,      \* polls that could be under way at the same time
  MaxEdits    \* bound on the number of commits

(* What a create or an update request can store, all but the id. *)
RuleContent ==
  [client : Clients, endpoint : Endpoints, sig : SUBSET IdTypes, priority : Priorities,
   algo : Algorithms, builds : BOOLEAN, status : {"active", "inactive"}]

ASSUME RulesPollerAssumption ==
  /\ MaxEdits \in Nat
  /\ Rows \subseteq RuleContent
  /\ None \notin Rule

VARIABLES
  db,         \* the committed rules: a set of members of Rule
  used,       \* ids that were ever given to a rule
  edits,      \* how many commits there were: the version of the table
  poll,       \* the polls under way, with what they fetched
  cache       \* RulesCache: the index; history: the table, its version

pollerVars == <<db, used, edits, poll, cache>>

IdlePoll == [pc |-> "idle", table |-> {}, version |-> 0]

EmptyCache == [ready |-> FALSE, index |-> EmptyIndex, table |-> {}, version |-> 0]

-----------------------------------------------------------------------------

PollerInit ==
  /\ db = {}
  /\ used = {}
  /\ edits = 0
  /\ poll = [p \in Polls |-> IdlePoll]
  /\ cache = EmptyCache

Stored(id, row) ==
  [id |-> id, client |-> row.client, endpoint |-> row.endpoint, sig |-> row.sig,
   priority |-> row.priority, algo |-> row.algo, builds |-> row.builds, status |-> row.status]

(* The tables there can be, as far as ids go. *)
Tables ==
  UNION {{{Stored(id, row[id]) : id \in ids} : row \in [ids -> Rows]} : ids \in SUBSET RuleIds}

Table == INSTANCE RuleTable WITH Rules <- Rule, table <- db

(* A request commits: what RuleService and RuleGroupService may do to the
   table is what RuleTable allows. *)
Commit(table) ==
  /\ edits < MaxEdits
  /\ edits' = edits + 1
  /\ db' = table
  /\ Table!Next
  /\ UNCHANGED <<poll, cache>>

(* A slip: a poll starts although the last one is still running. *)
FetchOverlapping(p) ==
  /\ poll[p] = IdlePoll
  /\ poll' = [poll EXCEPT ![p] = [pc |-> "fetched", table |-> db, version |-> edits]]
  /\ UNCHANGED <<db, used, edits, cache>>

(* fetch_all_rules_from_db: one SELECT, then the session is closed.  At most
   one poll runs at a time (max_instances=1). *)
Fetch(p) ==
  /\ \A q \in Polls : poll[q] = IdlePoll
  /\ poll' = [poll EXCEPT ![p] = [pc |-> "fetched", table |-> db, version |-> edits]]
  /\ UNCHANGED <<db, used, edits, cache>>

(* A slip: the finished job is never taken off the list of running ones. *)
LoadWithoutEnd(p) ==
  /\ poll[p].pc = "fetched"
  /\ \E index \in LoadAll(poll[p].table) :
       cache' = [ready |-> TRUE, index |-> index, table |-> poll[p].table,
                 version |-> poll[p].version]
  /\ UNCHANGED <<db, used, edits, poll>>

(* load_rules_into_cache: the whole cache is replaced. *)
Load(p) ==
  /\ poll[p].pc = "fetched"
  /\ \E index \in LoadAll(poll[p].table) :
       cache' = [ready |-> TRUE, index |-> index, table |-> poll[p].table,
                 version |-> poll[p].version]
  /\ poll' = [poll EXCEPT ![p] = IdlePoll]
  /\ UNCHANGED <<db, used, edits>>

(* _run_scheduled_rules_poll: a poll that fails is logged, the cache stays. *)
PollFails(p) ==
  /\ poll[p].pc = "fetched"
  /\ poll' = [poll EXCEPT ![p] = IdlePoll]
  /\ UNCHANGED <<db, used, edits, cache>>

(* The process ends: its cache and its polls are gone. *)
PollerCrash ==
  /\ poll' = [p \in Polls |-> IdlePoll]
  /\ cache' = EmptyCache
  /\ UNCHANGED <<db, used, edits>>

=============================================================================
