---------------------------- MODULE ScriptLoader ----------------------------
(***************************************************************************)
(* services/rate_limiter/script_loader.py: the scripts of one process and  *)
(* of the Redis instance it uses, registered at boot and flushed and       *)
(* registered again by POST /scripts/reload while checks are running.      *)
(*                                                                         *)
(* A loader is a coroutine inside register_all_scripts: the boot, or one   *)
(* of the reload requests that can be under way at the same time.          *)
(***************************************************************************)
EXTENDS Integers, Sequences

CONSTANTS
  Scripts,      \* the .lua files in the order of their names: a sequence
  Reloads,      \* reload requests under way at the same time
  MaxOutages    \* bound on the number of Redis outages

ASSUME ScriptLoaderAssumption ==
  /\ MaxOutages \in Nat
  /\ Scripts \in Seq(STRING) /\ Len(Scripts) > 0
  /\ {"boot", "nobody"} \cap Reloads = {}

VARIABLES
  redis_up,       \* Redis can be reached
  redis_scripts,  \* its script cache
  outages,        \* how many outages there were
  script_cache,   \* _script_cache of this process
  loader,         \* where each loader is: its pc and the next script
  filler          \* history: the loader that cleared the local cache last,
                  \* or "nobody" once that one has failed half way

loaderVars == <<redis_up, redis_scripts, outages, script_cache, loader, filler>>

Loaders == Reloads \cup {"boot"}

AllScripts == {Scripts[i] : i \in DOMAIN Scripts}

IdleLoader == [pc |-> "idle", next |-> 1]

partial == filler = "nobody"

Reloading == \E x \in Reloads : loader[x].pc # "idle"

-----------------------------------------------------------------------------

LoaderInit ==
  /\ redis_up = TRUE
  /\ redis_scripts = {}
  /\ outages = 0
  /\ script_cache = {}
  /\ loader = [x \in Loaders |-> IdleLoader]
  /\ filler = "boot"

(* Redis, or the way to it, fails ... *)
RedisFails ==
  /\ redis_up
  /\ outages < MaxOutages
  /\ redis_up' = FALSE
  /\ outages' = outages + 1
  /\ UNCHANGED <<redis_scripts, script_cache, loader, filler>>

(* ... and comes back; a restarted Redis has no scripts. *)
RedisReturns ==
  /\ ~redis_up
  /\ redis_up' = TRUE
  /\ redis_scripts' \in {redis_scripts, {}}
  /\ UNCHANGED <<outages, script_cache, loader, filler>>

(* One turn of the loop of register_all_scripts: SCRIPT LOAD ... *)
SendScript(x) ==
  /\ loader[x].pc = "load"
  /\ redis_up
  /\ redis_scripts' = redis_scripts \cup {Scripts[loader[x].next]}
  /\ loader' = [loader EXCEPT ![x].pc = "store"]
  /\ UNCHANGED <<redis_up, outages, script_cache, filler>>

(* ... and, when its answer is there, the entry of the local cache. *)
StoreScript(x) ==
  /\ loader[x].pc = "store"
  /\ script_cache' = script_cache \cup {Scripts[loader[x].next]}
  /\ loader' = [loader EXCEPT ![x] = IF @.next = Len(Scripts) THEN IdleLoader
                                     ELSE [pc |-> "load", next |-> @.next + 1]]
  /\ UNCHANGED <<redis_up, redis_scripts, outages, filler>>

(* ScriptRegistrationError in a reload, because SCRIPT LOAD or its answer was
   lost: what is registered so far remains. *)
RegisterFails(x) ==
  /\ x \in Reloads
  /\ loader[x].pc \in {"load", "store"}
  /\ loader' = [loader EXCEPT ![x] = IdleLoader]
  /\ filler' = IF filler = x THEN "nobody" ELSE filler
  /\ UNCHANGED <<redis_up, redis_scripts, outages, script_cache>>

(* A slip: the local cache is cleared first, also when the flush then fails. *)
FlushAfterClear(x) ==
  /\ loader[x].pc = "idle"
  /\ script_cache' = {}
  /\ \/ redis_up /\ redis_scripts' = {} /\ loader' = [loader EXCEPT ![x].pc = "clear"]
     \/ UNCHANGED <<redis_scripts, loader>>
  /\ UNCHANGED <<redis_up, outages, filler>>

(* flush_and_reregister_scripts: SCRIPT FLUSH.  If Redis cannot be reached
   nothing else is done; if only its answer is lost, Redis has no scripts and
   the local cache is as before. *)
Flush(x) ==
  /\ loader[x].pc = "idle"
  /\ redis_up
  /\ redis_scripts' = {}
  /\ \/ loader' = [loader EXCEPT ![x].pc = "clear"]
     \/ UNCHANGED loader
  /\ UNCHANGED <<redis_up, outages, script_cache, filler>>

(* The coroutine resumes: the local cache is cleared, registration begins. *)
Clear(x) ==
  /\ loader[x].pc = "clear"
  /\ script_cache' = {}
  /\ loader' = [loader EXCEPT ![x].pc = "load"]
  /\ filler' = x
  /\ UNCHANGED <<redis_up, redis_scripts, outages>>

(* A call of SCRIPT LOAD by redis-py, after EVALSHA answered NOSCRIPT. *)
LoadRemote(s) ==
  /\ redis_up
  /\ redis_scripts' = redis_scripts \cup {s}
  /\ UNCHANGED <<redis_up, outages, script_cache, loader, filler>>

(* The process ends: its cache and its coroutines are gone. *)
LoaderCrash ==
  /\ script_cache' = {}
  /\ loader' = [x \in Loaders |-> IdleLoader]
  /\ filler' = "boot"
  /\ UNCHANGED <<redis_up, redis_scripts, outages>>

=============================================================================
