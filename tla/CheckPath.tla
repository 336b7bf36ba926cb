----------------------------- MODULE CheckPath -----------------------------
(***************************************************************************)
(* One process of the service: it boots (main.py), polls the rules         *)
(* (RulesPoller), reloads scripts on demand (ScriptLoader), and answers    *)
(* checks (services/rate_limiter_service.py), which resolve a rule, find   *)
(* its script and await Redis.  It may crash at any time.                  *)
(*                                                                         *)
(* What the scripts count is the subject of the bucket and window modules; *)
(* here a check that reaches its script is "decided".                      *)
(***************************************************************************)
EXTENDS RulesPoller, ScriptLoader, IdentifierValues

CONSTANTS
  Checks,         \* checks under way at the same time
  Validator,      \* the validator of each identifier type
  DefaultAlgo,    \* algorithm of the static default
  MaxBoots        \* bound on the number of boots

ASSUME CheckPathAssumption ==
  /\ MaxBoots \in Nat
  /\ Algorithms = AllScripts
  /\ Validator \in [IdTypes -> DOMAIN Kept]
  /\ DefaultAlgo \in Algorithms
  /\ \A client \in Clients : <<client, "__default__">> \notin RuleIds

VARIABLES
  phase,    \* "down", "scripts", "rules" (booting), "up" (serving)
  boots,    \* how often the process was started
  check     \* the checks under way, and the last answers

vars == <<pollerVars, loaderVars, phase, boots, check>>

(* The identifiers of a request: values of one or more types. *)
Requests == UNION {[types -> Values] : types \in SUBSET IdTypes \ {{}}}

(* The loop over raw_pairs of check_rate_limit; a value that is not valid ends
   the request with a 422, whether or not a rule would use it. *)
Normalized(ids, x) == Normalize(Validator[x], ids[x])

ValidRequests == {ids \in Requests : \A x \in DOMAIN ids : Normalized(ids, x) # Invalid}

Answered(answer) == [pc |-> "idle", answer |-> answer]

-----------------------------------------------------------------------------

Init ==
  /\ PollerInit
  /\ LoaderInit
  /\ phase = "down"
  /\ boots = 0
  /\ check = [t \in Checks |-> Answered("none")]

(* The lifespan of main.py up to register_all_scripts: PING must succeed. *)
Boot ==
  /\ phase = "down"
  /\ boots < MaxBoots
  /\ redis_up
  /\ phase' = "scripts"
  /\ boots' = boots + 1
  /\ loader' = [loader EXCEPT !["boot"].pc = "load"]
  /\ UNCHANGED <<pollerVars, redis_up, redis_scripts, outages, script_cache, filler, check>>

(* The scripts are registered before the rules are loaded. *)
BootScripts ==
  /\ SendScript("boot") \/ StoreScript("boot")
  /\ phase' = IF loader'["boot"] = IdleLoader THEN "rules" ELSE phase
  /\ UNCHANGED <<pollerVars, boots, check>>

(* The first load of the rules, and every scheduled poll. *)
PollFetch(p) ==
  /\ phase \in {"rules", "up"}
  /\ Fetch(p)
  /\ UNCHANGED <<loaderVars, phase, boots, check>>

(* After the first load the process serves requests. *)
PollLoad(p) ==
  /\ Load(p)
  /\ phase' = "up"
  /\ UNCHANGED <<loaderVars, boots, check>>

(* A scheduled poll fails; at boot that ends the process (Crash). *)
PollFailure(p) ==
  /\ phase = "up"
  /\ PollFails(p)
  /\ UNCHANGED <<loaderVars, phase, boots, check>>

(* The process ends: killed, or because its boot failed. *)
Crash ==
  /\ phase # "down"
  /\ phase' = "down"
  /\ LoaderCrash
  /\ PollerCrash
  /\ check' = [t \in Checks |-> Answered("none")]
  /\ UNCHANGED boots

(* POST /scripts/reload, step by step. *)
Reload(x) ==
  /\ phase = "up"
  /\ Flush(x) \/ Clear(x) \/ SendScript(x) \/ StoreScript(x) \/ RegisterFails(x)
  /\ UNCHANGED <<pollerVars, phase, boots, check>>

-----------------------------------------------------------------------------

(* The rule that decides a request: None stands for the static default, also
   when the matched rule does not build (_build_limiter_for_rule). *)
Decider(client, endpoint, ids) ==
  LET rule == ResolveRule(cache.index, client, endpoint, DOMAIN ids)
  IN  IF rule # None THEN IF rule.builds THEN rule ELSE None ELSE None

(* A slip: one static default bucket for all clients. *)
DefaultScopeShared(client) == "__default__"

(* _build_default_limiter: one bucket per client for all its endpoints. *)
DefaultScope(client) == <<client, "__default__">>

(* build_client_identifier: the types and a digest of the values, which is
   taken to be free of collisions. *)
ClientIdentifier(ids) == [signature |-> DOMAIN ids, digest |-> ids]

(* The types the key holds: those of the matched rule; all that the request
   carries for a global rule and the static default. *)
CountedTypes(rule, ids) ==
  IF rule # None THEN IF IsGlobal(rule) THEN DOMAIN ids ELSE rule.sig ELSE DOMAIN ids

(* The Redis key: rl:{algorithm}:{scope}:{identifier}. *)
KeyFor(client, endpoint, ids) ==
  LET rule == Decider(client, endpoint, ids)
      projected == [x \in CountedTypes(rule, ids) |-> Normalized(ids, x)]
  IN  [algo |-> IF rule = None THEN DefaultAlgo ELSE rule.algo,
       scope |-> IF rule = None THEN DefaultScope(client) ELSE rule.id,
       identifier |-> ClientIdentifier(projected)]

(* check_rate_limit up to the await of limiter.check.  The limiter asks for
   its script when it is built; a script that is not registered is a
   RuntimeError. *)
Arrive(t, client, endpoint, ids) ==
  LET key == KeyFor(client, endpoint, ids)
  IN  /\ phase = "up"
      /\ check[t].pc = "idle"
      /\ check' = [check EXCEPT ![t] =
                     IF key.algo \in script_cache
                     THEN [pc |-> "evalsha", client |-> client, key |-> key]
                     ELSE Answered("error")]
      /\ UNCHANGED <<pollerVars, loaderVars, phase, boots>>

(* EVALSHA: the script runs, or Redis does not know it. *)
EvalSha(t) ==
  /\ check[t].pc = "evalsha"
  /\ redis_up
  /\ check' = [check EXCEPT ![t] = IF check[t].key.algo \in redis_scripts
                                   THEN Answered("decided")
                                   ELSE [@ EXCEPT !.pc = "load"]]
  /\ UNCHANGED <<pollerVars, loaderVars, phase, boots>>

(* NOSCRIPT: redis-py loads the script ... *)
LoadScript(t) ==
  /\ check[t].pc = "load"
  /\ LoadRemote(check[t].key.algo)
  /\ check' = [check EXCEPT ![t].pc = "again"]
  /\ UNCHANGED <<pollerVars, phase, boots>>

(* A slip: every NOSCRIPT is followed by another attempt. *)
EvalShaAndAgain(t) ==
  /\ check[t].pc = "again"
  /\ redis_up
  /\ check' = [check EXCEPT ![t] = IF check[t].key.algo \in redis_scripts
                                   THEN Answered("decided") ELSE [@ EXCEPT !.pc = "load"]]
  /\ UNCHANGED <<pollerVars, loaderVars, phase, boots>>

(* ... and calls EVALSHA once more; a second NOSCRIPT is a ResponseError. *)
EvalShaAgain(t) ==
  /\ check[t].pc = "again"
  /\ redis_up
  /\ check' = [check EXCEPT ![t] = Answered(IF check[t].key.algo \in redis_scripts
                                            THEN "decided" ELSE "error")]
  /\ UNCHANGED <<pollerVars, loaderVars, phase, boots>>

(* A slip: a failure of Redis is not caught. *)
NotFailOpen(t) ==
  /\ check[t].pc # "idle"
  /\ check' = [check EXCEPT ![t] = Answered("error")]
  /\ UNCHANGED <<pollerVars, loaderVars, phase, boots>>

(* Redis cannot be reached or does not answer in time (even if the script
   ran): the check is allowed, marked degraded. *)
FailOpen(t) ==
  /\ check[t].pc # "idle"
  /\ check' = [check EXCEPT ![t] = Answered("degraded")]
  /\ UNCHANGED <<pollerVars, loaderVars, phase, boots>>

CheckStep(t) == EvalSha(t) \/ LoadScript(t) \/ EvalShaAgain(t) \/ FailOpen(t)

-----------------------------------------------------------------------------

EditRules ==
  /\ \E table \in Tables : Commit(table)
  /\ UNCHANGED <<loaderVars, phase, boots, check>>

RedisChanges ==
  /\ RedisFails \/ RedisReturns
  /\ UNCHANGED <<pollerVars, phase, boots, check>>

Next ==
  \/ EditRules
  \/ RedisChanges
  \/ Boot \/ BootScripts \/ Crash
  \/ \E p \in Polls : PollFetch(p) \/ PollLoad(p) \/ PollFailure(p)
  \/ \E x \in Reloads : Reload(x)
  \/ \E t \in Checks, c \in Clients, e \in Endpoints, ids \in ValidRequests : Arrive(t, c, e, ids)
  \/ \E t \in Checks : EvalSha(t) \/ LoadScript(t) \/ EvalShaAgain(t) \/ FailOpen(t)

Spec == Init /\ [][Next]_vars

(* The scheduler starts the poll at every interval, outages of the database
   end, and every call to Redis returns or times out. *)
FairSpec ==
  /\ Spec
  /\ \A p \in Polls : WF_vars(PollFetch(p)) /\ SF_vars(PollLoad(p))
  /\ \A t \in Checks : WF_vars(CheckStep(t))

-----------------------------------------------------------------------------

(* README.md "Resolution order", for every request that could arrive now,
   whatever order the database returned the rows in and however many edits
   and polls came before: the rule comes from one committed table, and is the
   most specific one of it. *)
ResolvesMostSpecific ==
  phase = "up" =>
    \A c \in Clients, e \in Endpoints, s \in SUBSET IdTypes \ {{}} :
      Decides(ResolveRule(cache.index, c, e, s), cache.table, c, e, s)

(* A check never works with rules older than those an earlier check of the
   same process worked with: max_instances=1 keeps polls in order. *)
CacheNeverGoesBack ==
  [][phase = "up" /\ phase' = "up" => cache'.version >= cache.version]_vars

(* rate_limiter_service.py:34: no two clients ever share Redis state - not
   even a check that was resolved under earlier rules and one that arrives
   now. *)
ClientsShareNoKey ==
  phase = "up" =>
    \A t \in Checks : check[t].pc # "idle" =>
      \A c \in Clients \ {check[t].client}, e \in Endpoints, ids \in ValidRequests :
        KeyFor(c, e, ids) # check[t].key

(* What a check that a rule decides counts: the rule, and whom the identifiers
   of its types name. *)
Counted(client, endpoint, ids) ==
  LET rule == Decider(client, endpoint, ids)
      all == rule = None \/ rule \in {r \in cache.table : IsGlobal(r)}
      types == {x \in DOMAIN ids : all \/ x \in rule.sig}
  IN  [rule |-> rule, callers |-> [x \in types |-> Meaning(Validator[x], ids[x])]]

(* rate_limiter_service.py:178: key contents follow the matched rule.  Two
   requests that rules decide share a counter if and only if it is the same
   rule and they name the same callers to it - however the values are written,
   and whatever else the requests carry.  Of the static default the repository
   says both that it is one bucket and that it is keyed like a global rule, as
   KeyFor does; nothing is claimed of it here. *)
CountersFollowCallers ==
  phase = "up" =>
    \A c \in Clients, e \in Endpoints :
      LET ruled == {ids \in ValidRequests : Decider(c, e, ids) # None}
          seen == {<<KeyFor(c, e, ids), Counted(c, e, ids)>> : ids \in ruled}
      IN  \A x, y \in seen : x[1] = y[1] <=> x[2] = y[2]

(* script_loader.py: every limiter finds its script, once the boot is over
   and while no reload is under way, after any number of overlapping reloads
   and crashes - also of reloads that failed half way, if another one cleared
   the cache after them. *)
ScriptsComplete ==
  phase = "up" /\ ~Reloading /\ ~partial => script_cache = AllScripts

(* README.md "Fail-open": an outage of Redis alone makes no check fail, at
   whichever await of the check it begins or ends.  An error needs a reload
   that is under way or failed half way, or a live Redis that says NOSCRIPT
   twice - which it does if it loses its scripts twice around the one retry
   of redis-py, be it by a SCRIPT FLUSH or by two restarts. *)
OutagesFailOpen ==
  [][\A t \in Checks :
       check'[t] # check[t] /\ check'[t] = Answered("error") =>
         \/ Reloading \/ partial
         \/ check[t].pc = "again" /\ redis_up /\ check[t].key.algo \notin redis_scripts]_vars

(* README.md "How rules reach /check": a committed edit is eventually what
   checks of a running process work with. *)
RulesReachChecks ==
  \A v \in 1 .. MaxEdits :
    (phase = "up" /\ edits >= v) ~> (phase # "up" \/ cache.version >= v)

(* Every check is answered, whatever Redis does. *)
EveryCheckEnds == \A t \in Checks : check[t].pc # "idle" ~> check[t].pc = "idle"

(* README.md:620-621: a rule whose params do not fit its algorithm is skipped
   as if it did not exist, and resolution falls through to the next step. *)
UnusableRuleIsSkipped ==
  phase = "up" =>
    \A c \in Clients, e \in Endpoints, ids \in ValidRequests :
      Decides(Decider(c, e, ids), {r \in cache.table : r.builds}, c, e, DOMAIN ids)

=============================================================================
