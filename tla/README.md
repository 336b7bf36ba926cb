# TLA+ project for the distributed rate limiter

The repository is a FastAPI service that answers `POST /check` with "allowed" or
"denied" for a key, and that manages the rules those answers follow. Counting is
done in Redis by five Lua scripts, rules, groups and clients live in PostgreSQL,
and every instance of the service polls the rules and the clients into memory.

This directory holds TLA+ modules that model the service, TLC configurations that
check them on small instances, and TLAPS proofs of what can be proved for every
value of the parameters. `PROJECT.json` records which lines of the source each
definition stands for, which run checks which property, and, for every property,
a plausible slip in the code (a definition kept just above the one it replaces)
that TLC finds with it.

## 1. The system

| Component | State it keeps | Operations | Interacts with |
|---|---|---|---|
| Bucket scripts `token_bucket.lua`, `leaky_bucket.lua` | one Redis hash per key: amount, time of the last update, TTL | one check (refill or drain, admit or deny, `PEXPIRE`) | Redis clock and expiry; called by the check path with the rule's params |
| Window scripts `fixed_window.lua`, `sliding_window_log.lua`, `sliding_window_counter.lua` | one hash or sorted set per key, TTL | one check | as above |
| Rules (`RuleService`, `RuleRepository`) | table `rules` | create, PATCH, delete | groups (overrides), unique index on the active scope |
| Groups (`RuleGroupService`, `group_params`) | table `rule_groups`, the member columns of `rules` | create with members, edit the base, add members, move a rule in, detach, delete | row lock on the group (`FOR UPDATE`), rules |
| Algorithm params (`rule_algorithm_mapper`, `rate_limiter_config`, `factory`) | none | translate and validate params, build a limiter | used at write time by the services and at check time |
| Rules cache and polling (`RulesCache`, `RulesLoader`, scheduler) | immutable indexes of the active rules | replace all, look up candidates | reads PostgreSQL, read by checks |
| Check path (`RateLimiterService`, `Identifier`, `key_hasher`) | none of its own | resolve a rule, project the key, run the limiter, fail open | rules cache, scripts, Redis |
| Script loader | SHA cache of the scripts | register, execute, flush, reload | Redis script cache, every check |
| Identifier values (`identifier_validation`) | none | accept, normalise or refuse a value | check path, rules |
| Clients, secrets (`ClientService`, `scripts/create_client.py`) | tables `clients`, `client_secrets` | create, PATCH (status, scopes), add and revoke a secret | PostgreSQL |
| Tokens (`AuthService`, `TokenService`, `require_scope`, `ClientsCache`) | none in the database; polled clients cache | issue, verify, authorise, poll | clients, keyring, every request |
| Boot, scheduler, shutdown | "loaded" flags, background jobs | first load, periodic polls, stop | all of the above |
| Rule history, settings, logging, HTTP layer, migrations | audit rows, configuration | - | - |

What is hard about it:

* *time*: expiry of a key and the meaning of what it holds are two clocks; off by
  one at a boundary millisecond; several checks in one millisecond; rounding;
* *interleaving*: a request reads rows, awaits, and writes what it computed from
  them; SQLAlchemy writes only the columns that changed, so overlapping requests
  mix; only some rows are locked;
* *partial failure*: constraint violations at commit, rows deleted meanwhile,
  Redis failing half way through a reload of scripts;
* *staleness*: checks and authentication work on what was polled last.

The list of hazards with their lines is in `PROJECT.json`; each names the
properties that would catch it going wrong, or says why none does yet.

## 2. Modules

```
LuaScript            arithmetic and reply tuple of the scripts
 +- BucketParams     capacity and rate in integer units, rounding of doubles
 |   +- Bucket       ABSTRACT: an amount that grows with time
 |   +- BucketKey    + the slack of the TTL
 |       +- TokenBucket   token_bucket.lua     (implements Bucket)
 |       +- LeakyBucket   leaky_bucket.lua     (implements TokenBucket)
 |           +- MCBuckets     either script, for TLC
 +- WindowParams     window size and limit
     +- FixedWindow           fixed_window.lua
     +- SlidingWindow         ABSTRACT: a log of all admissions
     +- SlidingWindowLog      sliding_window_log.lua (implements SlidingWindow)
     +- SlidingWindowCounter  sliding_window_counter.lua
         +- MCWindows         one of the three scripts, for TLC
RuleTable            ABSTRACT: the rules, as who polls them sees them
RuleStore            rules and groups in PostgreSQL (implements RuleTable)
 +- MCRuleStore      symmetry for TLC
RuleIndex            the indexes of the rules cache, and resolution
 +- RulesPoller      the table of rules (a RuleTable), the polls, the cache
ScriptLoader         scripts of a process and of Redis, boot and reload
IdentifierValues     validation and normalisation of identifier values
CheckPath            extends all three: one process, its boot, crashes and checks
 +- MCCheckPath      the rows TLC stores
ClientStore          clients and secrets in PostgreSQL
Tokens               issue and verify, keyring, clocks and leeway
 +- ClientAuth       extends both: token requests, clients poll, require_scope
TokenBucketProofs    theorems on TokenBucket and Bucket
 +- LeakyBucketProofs    theorems on LeakyBucket, from those on TokenBucket
FixedWindowProofs, SlidingWindowLogProofs (with SlidingWindow),
SlidingWindowCounterProofs, RuleStoreProofs,
CheckPathProofs (with RuleIndex, RulesPoller, ScriptLoader),
ClientAuthProofs (with ClientStore, Tokens)      theorems
```

### The scripts

Redis runs a script atomically, so a check is one action, `Admit` or `Deny`; the
two are the branches of the script, each with its `HSET`/`ZADD` and `PEXPIRE`. The
variables are the fields of the key, its deadline, the clock and the last reply.

* *Time.* `Tick` advances the Redis clock by one millisecond. Any number of checks
  can happen in one millisecond. The clock does not go back (see section 7).
* *Expiry* is external to the repository and modelled from how Redis is used: at
  its deadline a key may still be found or may be gone (`Expire`); one millisecond
  later it is gone (`Tick`). This allows at least what Redis does.
* *Numbers.* Tokens and levels are IEEE doubles in Lua. Here they are integers: `U`
  units make a token, `R` units are gained per millisecond, and a unit may be as small as
  one likes, so that every double is a whole number of them. No result of a script is
  taken as exact: each line that computes an amount, or rounds one up to milliseconds,
  yields *any* result within `Eps` units of the exact one (`Rounded`, `Near`, `Waits`,
  `Floors`, `Drained`). For doubles `Eps` is about `Capacity * U * 2^-50`. What the code
  then does with the rounded amount (cap at the capacity, comparison with 1, `ceil`) is
  exact. A missing key is a full bucket without rounding, and a second check in the same
  millisecond reads what was stored, since Redis prints Lua numbers with 17 digits. So a
  bucket of 1 with 100 tokens per second that is asked every millisecond may, as in the
  real script, hold 0.9999999999999999 after ten refills of 0.1 and deny a caller who was
  told 10 ms; may answer 10 where 9 suffice; and the two scripts may answer 7 and 8 to the
  same checks. The model allows a little more than doubles do (`tokens - 1` rounds here
  and is exact there); that is sound for every property below. The weighted estimate of
  the sliding counter, times the window size, is an integer, and its rounding is far less
  than one unit of that: it decides only where the exact estimate equals the limit, and
  there either way (`Estimates`). The other two window scripts compute with whole numbers.
* *PATCH under a live key.* The key is named after the rule, so editing its params
  leaves the key: `FixedWindow!Patch` changes size and limit for later checks, which
  read a count, a start and a deadline written under the old ones. The other scripts
  keep their params.
* *Observers.* `from` and `taken` (with the action `Observe`) count admissions over
  an interval that starts anywhere; `admitted` is the history of admissions. They
  are not part of the code and never constrain it.

`Bucket` says what a caller may rely on: an amount `avail` that grows by `R` per
millisecond up to the capacity, rounded by the first check of each millisecond (`Sees`),
with `retry_after_ms` and `reset_at_ms` right up to rounding. `TokenBucket` maps `avail`
to what the key holds, refilled until now and not yet rounded (`Refilled`); `Brim`, the
capacity and `Eps`, is where rounding can no longer make a bucket less than full.
`LeakyBucket` maps to `TokenBucket` by `tokens <- capacity - level`
(`LeakyIsTokenBucket`): whatever the leaky script rounds, the token script might have
rounded so. That the two give *equal* answers is not claimed: it is false of doubles.

### The store

`RuleStore` has the rows of `rules` and `rule_groups`, the group row locks and the
requests under way. A request that only inserts or deletes is one action
(`CreateRule`, `DeleteRule`, `CreateGroup`, `AddMembers`); one that writes what it
computed from an earlier read is split where it awaits:

| Request | Actions |
|---|---|
| `RuleService.update_rule` | `PatchRule` (load, check version and guards), `PlanPatch` (read the group without a lock, validate, check the scope), `CommitRule` |
| `RuleGroupService.detach_rule` | `DetachRule`, `CommitRule` |
| `move_to_group` | `MoveRule` (load the rule), `LockTarget` (lock the group, validate), `CommitRule` |
| `update_group` | `PatchGroup` (lock, load members, validate all), `CommitGroup` |
| `delete_group` | `DropGroup` (lock, load members), `CommitDrop` |

`Updated(row, old, new)` is SQLAlchemy's unit of work: the columns that differ from
the loaded object are written, the others keep what the row meanwhile holds.
`RowAccepted` is the unique index of the active scope and the CHECK constraint;
`ON DELETE RESTRICT` is in `CommitDrop`. A refused commit, or an object whose row is
gone, is `Abort`; whether a base edit or a deletion of a group notices that one of its
members is gone depends on how its UPDATEs are batched, so `CommitGroup` and `CommitDrop`
may abort or pass it over. Params are a pair (the algorithm whose vocabulary they use, a
value); an override set replaces the value or nothing; `Builds` is
`build_algorithm_config`. The tables start empty: the sample rows of the migrations
can be created by the same operations.

`RuleTable` is what all this promises to whoever polls the table: rows come, change or
go by whole commits, one or several at a time, ids never return, a rule keeps its client
and its endpoint, and the unique index holds. `Served` is the refinement mapping, the row
as `_serialize_rule` hands it to the cache (`ImplementsTable`).

### The check path

`CheckPath` is one process between PostgreSQL and Redis. `RulesPoller` has the table
(`Commit` is any step of `RuleTable`, so that what is shown of checks holds above
`RuleStore`), the polls under way and the cache; `ScriptLoader` has Redis with its script cache, the `_script_cache` of
the process and the coroutines that register scripts. `CheckPath` adds the phase of
the process and the checks under way.

| Code | Actions |
|---|---|
| lifespan of `main.py` | `Boot` (PING), `BootScripts` (one `SCRIPT LOAD` each), `PollFetch`, `PollLoad`; a failure on the way is `Crash` |
| scheduled poll | `PollFetch` (the SELECT), then `PollLoad` (`RulesCache.load_all`, the whole index at once) or `PollFailure` |
| `POST /scripts/reload` | `Flush` (its answer may be lost), `Clear`, then `SendScript` and `StoreScript` for each script, or `RegisterFails` (request or answer lost) |
| `check_rate_limit` | `Arrive` (everything up to the first await: resolution, key, `get_script`), `EvalSha`, `LoadScript` and `EvalShaAgain` (what redis-py does after NOSCRIPT), `FailOpen` |

A step ends where the coroutine awaits: everything between two awaits of the event
loop is atomic. Resolution is a pure operator over the index
(`ResolveRule` in `RuleIndex`). The query has no `ORDER BY` and `list.sort` is stable, so
`LoadAll` is the set of all indexes a poll of the table may lead to: any global rule of a
scope, its other rules in any order that agrees with `_sort_key`. A signature is a set of types, `{}` for `global`; every current type has
an engine type, so rules excluded for an unmapped type do not occur. A key is a record
of what the key string is made of. Redis fails and comes back with or without its
scripts; a check may time out at any await. What the scripts count is the subject of
the other modules. Clients are authenticated beforehand (`ClientAuth`).

`IdentifierValues` has the validators. A value is whom it names and how it is written
(canonical, other case, IPv4 as IPv6, with host bits, ...), not its characters;
`Kept` and `Folded` say which notations each validator returns as they are and which
it makes canonical, the rest is `InvalidIdentifierValue`. `Meaning` is the reference:
what a value stands for. Whether two requests share a counter is then a question about
notation, the matched rule and whatever else the requests carry
(`CountersFollowCallers`, for requests that a rule decides; the repository says two
things of the static default, see section 6).

`filler` of `ScriptLoader` is history: the loader that cleared the local cache last, or
`"nobody"` once that one failed half way (`partial`). The next reload that clears the
cache takes over, so `ScriptsComplete` speaks again from there on.

### Clients and tokens

`ClientStore` cuts the admin requests where they await the database; nothing is locked.

| Code | Actions |
|---|---|
| `create_client`, `scripts/create_client.py` | `Create` (the id is free), `CommitClient` (unique index and CHECK on scopes), `CommitFirstSecret` |
| `update_client` | `Update` (load), `CommitUpdate` (the columns that differ from what was loaded) |
| `add_secret` | `AddSecret` (load, count), `CommitSecret` |
| `revoke_secret` | `Revoke` (load the client), `CheckRevoke` (ownership, last active secret), `CommitRevoke` |
| a process or a connection that is lost | `Die`, at every await |

The initial states are the tables a deployment can have: clients with and without
secrets, active and disabled (migration 0012 seeds one without a secret). `excused` and
the field `sole` of a revocation are history: they record the events that may leave a
client without a secret and never constrain a step.

`ClientAuth` adds `POST /auth/token` (`Login` loads the client and resolves the scopes,
`IssueToken` loads the active secrets and compares), the life of a token, and one
instance with its poll of the clients (`PollFetch`, `PollLoad`, `PollFails`, `Crash`).
`Authorised` is `require_scope`: the scope must be in the token and in the cached
record, which must be active. No step of it looks at the database. How long a token
verifies depends on two clocks and is in `Tokens`, with time in fractions of a second,
since `iat` and `exp` are cut to whole seconds and compared with a fractional clock.

## 3. What is checked (TLC)

| Run | Instance | What it shows |
|---|---|---|
| `buckets` | capacity 2, 8/5 tokens per "second" of 2 ticks, rounding by a fifth of a token, 6 ticks; one of the two scripts on its key | `token_bucket.lua` is the ideal bucket: at most `capacity + rate*d` admissions in every interval of length `d` (`RateBound`) and times that are right (`AnswersKept`), both up to rounding; the key never expires while the bucket is not full. Every step of `leaky_bucket.lua` is one that the token bucket may take on the room left |
| `token_bucket_slow` | 1/3 token per "second" | *violation* of `ExpiryIsUnobservable`, see section 6 |
| `windows` | one of the three scripts on its key; limit 2. Fixed window: size 4 or patched to 1, 2, 4, limit patched to 1, 2, 3 PATCHes, 10 ticks. Log: window 4, 10 ticks. Counter: window 4, 17 ticks | *Fixed window*, also with PATCHes under the live key: a key never outlives its window, waiting `retry_after_ms` is enough, and less than the shortest window length in force admits at most `3*limit - 1`. *Log*: trimming and expiry are never noticed, the set never exceeds the limit, every window is bounded, retry times are exact. *Counter*: the two counts are the true numbers of admissions whatever the gaps; no aligned window exceeds the limit, and the weighted sum is at most `limit + 1`, which rounding reaches; the reset time is at worst one millisecond short |
| `store_serial` | 1 rule, 2 groups, 2 values of every column, requests one after another | The group invariant (members follow base and shape), rules build |
| `store_concurrent` | 2 rules, 2 groups, 2 clients, one value of every other column, 2 requests overlapping, all operations | What polls see is a `RuleTable`: one active rule per scope, no id returns, no rule changes hands; a rule's group exists and belongs to its client, nobody joins a group that is being edited or deleted; the holder of a lock is never waiting, so nobody waits in a circle |
| `store_member_params` | 1 rule, 1 group, 2 requests | *violation* of the README's group invariant, see section 6 |
| `store_lost_update` | 1 rule, 2 PATCHes | *violation* of `ExpectedVersionHolds`, see section 6 |
| `check_rules` | 2 clients, 2 rule ids, 6 rows, 2 commits of one or both rules, 2 possible polls, 1 check, 2 types of identifier with 2 callers in 2 notations, fair | For every request that could arrive, the rule is the most specific of one committed table; the cache never goes back to older rules; a check under way never shares a key with any request of another client, whatever was edited meanwhile; every commit reaches the checks of a running process; two requests that rules decide share a counter if and only if it is the same rule and they name the same callers to it |
| `check_scripts` | 2 scripts, 2 reloads at once, 2 outages, 2 boots, 1 commit, fair | Scripts are complete whenever no reload runs and the last one to clear them did not fail; every check is answered; a check fails only while a reload runs, after one that was cut short, or when a live Redis answers NOSCRIPT twice, for which two restarts around the one retry of redis-py are enough |
| `clients` | 1 client, 2 overlapping admin requests of 3, 1 token request, 2 scopes and an unknown one, fair | The only ways to a client without a secret are the four listed; instances come to authorise exactly what the table grants; a disabled client is left without a token |
| `secret_cap` | 1 client, 2 admin requests | *violation* of `SecretCapHolds`, see section 6 |
| `unusable_rule` | as `check_rules`, 2 commits | *violation* of the README's rule for params that do not fit, see section 6 |

*Bounds.* `MaxTime` lets a key be filled, expire and be recreated, at
all offsets between checks and deadlines; a capacity or limit of 2 distinguishes the
first from the last admission; rates are chosen so that fractions of a token occur
(`U = 5`, `R = 4`), and rounding (`Eps = 1`) so coarse that it decides between admitting
and denying, and moves answered times, within a few ticks. In the store, two requests of more than one step suffice for every
pairwise overlap, with any number of one-step requests around them; ids are never
reused, and `MaxRequests` bounds the number of multi-step requests. The last tick is
no deadlock: checks remain possible. The store runs stop when all ids and requests
are used up, hence `CHECK_DEADLOCK FALSE` there.

On the check path two commits, each of any number of rules, give every table of two rules
and every edit of it between two polls; two reloads and two outages give every overlap of flush, clear,
registration and failure with the steps of a check, and two losses of scripts around its retry; a second boot finds what the
first left in Redis. The process may crash for good, hence `CHECK_DEADLOCK FALSE`.

In `clients` one client is enough, since no operation touches two; three admin requests
of which two overlap give two additions, two revocations, or a creation and an update
with a third request before or after, on up to two initial secrets. In `windows`
three PATCHes shorten, lengthen and shorten again. `CHECK_DEADLOCK FALSE`: the admin
requests are used up. In `check_rules` both notations of an address
name the caller, and one of them is refused for the other type. `MCBuckets` and
`MCWindows` put scripts that share nothing into one run, of which one is active in each
behaviour.

*Symmetry.* `MCRuleStore` permutes each set of model values; the module only compares
them. No run with a liveness property uses it.

*Fairness.* `RuleStore` states none: that every request ends follows from
`HoldersNeverWait`, a row lock that is granted in turn and an event loop that resumes
what can be resumed.
`CheckPath!FairSpec` assumes that the scheduler starts a poll when none runs (interval
trigger, weak fairness of `PollFetch`), that polls do not all fail (strong fairness of
`PollLoad`: a database that never answers again breaks every promise about it), and
that a check that awaits Redis gets an answer or a timeout (`socket_timeout`; weak
fairness of its next step, not of success). Edits, reloads, crashes and the return of
Redis are not fair.
`ClientAuth!FairSpec` assumes the same of the poll of the clients, that token requests
are answered, and that time passes, so that a token stops verifying at last (`TokensLive`
says when). Admin requests, logins and crashes are not fair.

## 4. What is proved (TLAPS)

Every safety property that a passing run checks is also a theorem, for every value of
the constants that the named assumptions allow, with one exception (`HoldersNeverWait`, of which everything but the word
`ENABLED` is proved, below). A theorem that needs
more than the named assumptions says so in an `ASSUME`.

**Token bucket** (`TokenBucketProofs`), for every capacity, rate, slack, clock bound and
bound `Eps` on rounding below one token:

* `TokenBucketTypes`, `TokenBucketKey` - at any rate. `KeyLosesLittle` is inductive with
  the types: the stored tokens and what is gained until the deadline fill the bucket, but
  for what the slack does not pay of the one token that the TTL leaves out and of three
  roundings (of the refill, of the TTL and of the token taken).
* `TokenBucketExpiry`, `TokenBucketImplementsBucket` - under `FastRefill`, where the slack
  pays all of it: more than one token per second, by a hair for rounding. Exactly one per
  second is left out, since a TTL that is rounded down could then be short by less than
  `Eps`; below it the run `token_bucket_slow` shows the opposite of both.
* `TokenBucketAnyRate`, `TokenBucketRate` - the limit on admissions. At any rate an
  interval of length `d` admits at most `capacity + 1` and what the larger of the configured
  rate and one token per slack refills in `d`, and what rounding adds: `Eps` per millisecond
  and per admission. The inductive `LossPaid` charges a loss to the slack in which the key
  was idle (`Idle`): each loss is paid for before it occurs. Under `FastRefill` nothing is
  lost, and this is `RateBound`.
* `TokenBucketNeverLate`, `TokenBucketAnswers` - the times answered. Neither is inductive:
  each compares the clock with an instant announced earlier. The strengthenings `OnTime`
  and `OnTimeOnly` say how far the present contents are from the announced goal
  (`NotLate`, `NotEarly`) with `Eps` for each millisecond in which a check may have rounded
  (`Drift`); a tick moves both sides by `R`, a denial by one rounding. After `n`
  milliseconds an answer is right to the millisecond after, or before, as long as
  `(n + 2) * Eps <= R`, which for doubles is very long. That expiry only adds tokens is why
  nobody is late at any rate; that nobody is early needs `FastRefill`.

**Leaky bucket** (`LeakyBucketProofs`): `LeakyBucketTypes`, `LeakyBucketIsTokenBucket` -
every step of the leaky script is one that the token script may take on the room left, TTL
and reply included, at any rate: the set of results that rounding allows is the same on
both sides of the mapping. `LeakyBucketPromises` carries rate bound and answered times over,
under `FastRefill`, and `LeakyBucketAnyRate` what holds at any rate.

**Fixed window** (`FixedWindowProofs`), also for any sequence of PATCHes:
`FixedWindowEnds` (inductive with the types), `FixedWindowRetry` (a denied caller was told
an instant that the window of the key does not outlast, `DenialsKept`), and
`FixedWindowBurst`. The bound `3*limit - 1` needs `Accounted`, three cases of how the
admissions since the observer began relate to the count of the key: the key counted
before; its window began later; its deadline was set later too, and then lies too far
away for another loss. Each loss of the count moves one case further.

**Sliding log** (`SlidingWindowLogProofs`):

* `SlidingWindowBound` - every window of the ideal log, wherever it ends. The
  strengthening adds that admissions are finite, past and have distinct ids.
* `LogCompleteness`, `LogImplementsSlidingWindow`, `LogWindowBound` - the script. The
  invariant says that what Redis dropped has left the window and that the deadline
  lies at least a window after the newest entry.
* `LogBounded`, `LogRetryExact` - the set has at most `max_requests` members, and the
  promised instant is when the oldest member leaves. `DenialStands`: after a denial the
  full set stays as it is until that instant or the next admission; a key that is gone
  was dropped no earlier.

**Sliding counter** (`SlidingWindowCounterProofs`): `CounterCounts`, `CounterWeighted`,
`CounterRetry`. The two counts are compared with windows that move on by themselves, so
the invariant `KeyHolds` speaks of the window the key was written in: it holds the counts
of that one, nothing was admitted later, and the deadline is the end of the next window
or later. A key that is gone was two windows old. Quotient and remainder of the clock by
the window size are handled by a few lemmas on multiples.

**Store** (`RuleStoreProofs`), for any number of rules, groups, clients and requests.

* In any interleaving: `StoreTypes`, `LockedGroups`, `OneActive`, `GroupsOfClients`.
  `Sound` says what a request that awaits may rely on: the rule it loaded may have been
  changed or deleted but keeps its client (ids are not reused); a group it has locked
  stays, with its client, and its members are among those loaded. `LockedGroups` is part
  of it; `GroupsOfClients` follows since a rule enters a group only under its lock and a
  group goes only with all its members detached or deleted in the same commit.
  `OneActive` rests on the index alone; the pre-checks of the services are not used.
  Versions need `VersionsCounted`: what a request writes is at most one above what it
  loaded.
* `StoreImplementsTable` - the composition with the check path: every step of the store is
  a step of `RuleTable` or leaves what polls see alone. `CommitKinds` sorts the steps into
  insertions, updates and deletions; the index gives `Unique`.
* `LockHoldersReady` - the holder of a group's row lock is at the commit of a request on
  that group and holds no other lock; one that waits for a lock holds none. Hence no circle
  of waiting requests, however many there are.
* With overlapping requests, except some: `OverlapMemberShape` (without `move_to_group`) and
  `OverlapMemberParams` (without `update_rule` besides). The row lock is enough for base
  edits, deletions, detachments and new members in any interleaving. Without moves rules
  only leave groups (`Leaves`), so what was loaded under the lock still is true of the
  members that are left: of the columns a PATCH of a member cannot touch (`Shaped`), or of
  all columns if there are no PATCHes (`Current`, `Alone`). Neither hypothesis can be
  dropped: TLC finds two moves that break the first, and two PATCHes of overrides that break
  the second.
* For requests that do not overlap (`OneAtATime`, as in the run `store_serial`):
  `SerialRulesBuild`, `SerialMemberParams`, `SerialMemberShape`. The invariant `Serial`
  says that rows still are what the request loaded and that what it is about to write
  fits. With requests of all kinds overlapping these three are false (section 6), so the
  hypothesis cannot be dropped. Versions are not among them: without overlap they only
  restate a guard, and with it `store_lost_update` shows that the guard does not hold.

**Check path** (`CheckPathProofs`), for any rules, requests, scripts and number of checks,
polls, reloads, outages and restarts.

* `EveryCommitCovered` - the model's commits are all steps of `RuleTable`, if `Rows` are all
  contents a rule can have. With `StoreImplementsTable` this puts the theorems below on top
  of any interleaving of requests to the REST API.
* `CacheForward` - from `PollsInOrder`: at most one poll is under way, and it fetched a
  version between that of the cache and that of the table.
* `MostSpecific` - `RulesSound`: every table (of the database, a poll, the cache) has the
  uniqueness of the primary key and of `ux_rules_active_scope`, and the index is one that
  `load_all` builds from the cached table. That the first candidate that fits beats all
  others is a lemma on sorted lists (`FirstFitBest`); the tie-break by signature is total
  because active rules of a scope differ in it.
* `NoSharedKeys` - `ChecksOwn`: the scope of a key is the default one of its client or
  the id of a rule that never was another client's, in any table still around. Needs
  that ids are not reused.
* `KeysFollowCallers` - with `RulesSound`, by cases on how the two requests are decided.
  `NormalizeFollowsMeaning`: two accepted values of a type normalise alike exactly if they
  mean the same.
* `NoScriptLost` - `LoadersSound`: a script missing from the local cache is still to be
  registered by a loader under way, unless the loader that cleared the cache last failed;
  as long as it did not, it is the one that still registers them (`FillerFills`).
* `OnlyReloadsFail` - from the same invariant: a check finds no script only then.

**Clients** (`ClientAuthProofs`):

* `TokensLive` - a token verifies for its whole TTL on every instance that has its key,
  and on none after TTL, leeway and skew, if clocks differ by at most a second less than
  the leeway: the second is what `int(time.time())` cuts off.
* `SecretlessClients` - `SecretlessIsExplained` for any number of clients, secrets and
  overlapping requests. It is not inductive: a revocation that has passed its check may
  commit at any later time. `SoleLeavesOne` carries it: as long as no other revocation
  of the client has committed since the check, an active secret besides the one to be
  revoked remains; insertions only add to that. That a client is explained is kept by
  every step (`Explained`), which also covers an update that overlaps.
* `SecretsCapped` - the cap itself is violated (`secret_cap`); `SecretsBounded` is what is
  left of it, for every cap and number of overlapping requests: one more secret for every
  request beyond the first.
  The bound counts the insertions to come, so an insertion moves one from there to the
  active secrets. `RowsKept` is needed besides: a secret, and a request that is about
  to insert one, belongs to a client that exists, so a creation starts from none.

*Assumptions*, named in the modules that declare the constants and evaluated by TLC on
every run: parameters of the scripts are positive integers (the DTOs and
`AlgorithmConfig` enforce `> 0`), and a PATCH of a fixed window stays within the largest
size and limit considered; ids of rules and groups are distinct (UUIDs), and no rule id is
the scope `__default__` of a client; there is at least one script, and rows have the
columns of the table; types are finitely many and ordered; the bound on the skew above, a
positive cap on secrets; `None` is none of the values it stands in for.

*Only model-checked*: liveness (`RulesReachChecks`, `EveryCheckEnds`,
`AccessFollowsTable`, `TokensOfDisabledEnd`), which is beyond this prover; and
`HoldersNeverWait`, which speaks of `ENABLED`, for which the prover has no rules.
`LockHoldersReady` is the same with the guards of the commits written out: `CommitGroup`,
`CommitDrop` and `CommitRule` have no other condition, each ends in a write or in `Abort`.

## 5. How to run

`tlc -config Buckets.cfg MCBuckets` and likewise for the others (the modules are in
`PROJECT.json`); `tlapm TokenBucketProofs.tla` and likewise for the other proof
modules.

## 6. What the models say about the code

* **Token bucket below one token per second.** The TTL is computed before the check
  takes its token, so it is one token short; the second of slack makes up for it only
  if more than a token is refilled per second. Below that the key expires early and the next
  check finds a full bucket, against the comment at `token_bucket.lua:27`. By
  `LeakyBucketIsTokenBucket` the same is true of `leaky_bucket.lua:29`. How far off this
  is: one token at most at each expiry and one expiry a second at most, so a bucket that
  should refill slower than one token per second refills no faster than that
  (`TokenBucketAnyRate`).
* **Answered times.** In doubles `retry_after_ms` and `reset_at_ms` are not exact: a caller
  who waits as told may be denied once more, and told to wait a millisecond longer than
  needed. `AnswersKept` is what holds: the error is that of the roundings since the answer
  and stays below a millisecond for as long as they do.
* **Group invariant.** `update_rule` and `update_group` each merge the rows as they loaded
  them and write only the columns that differ from those. Take a member without overrides
  and with the params `v1` of its base: a PATCH that sets the overrides to `v1` finds
  params unchanged and writes the overrides alone, and a base edit to `v2` that overlaps
  it merges without overrides and writes `v2` into params. The row ends with overrides
  `v1` and params `v2`, the new base with the override lost, against `README.md:468`. The
  stale rule (`rule_service.py:147`) is the cause; a lock on the group that `update_rule`
  reads would not help a base edit that has loaded its members already. The same pattern
  lets two overlapping moves leave a rule in one group with the columns of the other
  (`README.md:469`). These two requests are the only way: without them the invariant holds
  in any overlap (`OverlapMemberShape`, `OverlapMemberParams`).
* **`expected_version`** is compared with the loaded object only (`rule_service.py:99`).
  Two overlapping PATCHes with the same expectation are both written, with the same new
  version, and the second overwrites the first (`store_lost_update`), against the
  optimistic concurrency of `README.md:456`. For the same reason a PATCH of the algorithm
  and an overlapping PATCH of the params can leave a pair that does not build.
* **Static default.** `README.md:77-78` and `model/identifier.py:28-30` say that the static
  default is one shared bucket rather than one per caller; `README.md:617` and the
  docstring at `rate_limiter_service.py:181-182` say that it is keyed by every identifier
  of the request, and so does the code (`rate_limiter_service.py:220`), which gives every
  caller a counter of its own. `CountersFollowCallers` takes no side: it is about requests
  that a rule decides.
* **Rules that do not build.** When the matched rule does not build, the request goes
  to the static default at once, past less specific rules and the global one, against
  `README.md:620` ("skipped as if it didn't exist (falls through to the next step)").
* **Reloading scripts.** Between `_script_cache.clear()` and the end of the
  registration, checks whose script is not yet back end in a `RuntimeError` (500), as
  the docstring of `get_script` implies; if Redis fails half way, they do so until the
  next reload or restart, and do not fail open. A Redis that loses its scripts twice
  around the one retry of redis-py, by a flush or by two restarts, is the other way to an
  error: NOSCRIPT is no failure of the connection, so the check does not fail open.
  `OutagesFailOpen` and `ScriptsComplete` say that there is no third.
* **Fixed window.** A window opened in the millisecond in which the previous key is due
  keeps the previous deadline, since `PEXPIRE NX` finds a TTL: it is lost one
  millisecond later. That is why `BurstBound` is `3*limit - 1` and not `2*limit`.
* **Sliding counter.** Where the exact estimate equals the limit, doubles may round it
  below and admit one request more: with a window of 1000 ms and a limit of 50, after 50
  admissions in the window before and 17 in this one, the estimate at 340 ms is
  49.99999999999999. So the weighted count can reach `limit + 1`, and no more
  (`WeightedBound`). `retry_after_ms` is one millisecond short in the worst case: at
  the reset time itself a spent window still weighs in full.
* **Empty groups.** `update_group` validates a new base through the members only; the
  base of an empty group is not validated. `add_members` refuses members later, so
  stored rules still build.
* **Secrets of a client.** `add_secret` counts and inserts without a lock, so requests
  that overlap leave more than the "at most two" of `model/client_secret.py:1`: three
  with two requests (`secret_cap`), and in general one more per extra request
  (`SecretsCapped`).
  Overlapping revocations of two secrets leave none, against the guard on the last one;
  so does re-enabling a client whose last secret was revoked while it was disabled.
  A crash between the two commits of `create_client` leaves a client without a secret
  whose id is taken; `add_secret` repairs it (`SecretlessIsExplained`).
* **Scopes.** A scope the CHECK constraint does not know is reported by `create_client`
  as a conflict of client ids; in `update_client` the `IntegrityError` is not caught.
* **Disabled clients.** A client that is disabled after a token request has read its
  status still gets a token. Instances refuse it after their next poll, and no such
  token outlives its TTL (`TokensOfDisabledEnd`, `AccessFollowsTable`).
* **One caller, one counter.** `ip_address` folds the IPv6 form of an IPv4 address, so a
  caller cannot be counted twice; `ip_range` keeps mapped networks apart from IPv4 ones,
  which the model takes as different ranges.
* **PATCH under a live fixed window.** A shorter window ends the running one at once, a
  lower limit applies to the count so far; the deadline of the key stays the old one
  but no window outlasts the longest size the rule had (`KeyEndsWithWindow`).

## 7. Not modelled, and the plan

Not modelled because there is nothing to check: settings other than what is accepted as
signing keys, logging, formatting of errors and responses, the rule-history trigger
(written, never read), list and search endpoints, migrations other than the constraints
they leave. Group names and their unique index, names and descriptions of clients and
audit columns are left out of the stores. Of clients and tokens: `expires_at`, which no
code sets; the text of secrets and tokens, whose hash and signature are taken to be
exact; a rotation of keys, except that an instance may or may not have the key of a
token. Of identifiers: characters, hence what the regular expressions accept at the
margin (`$` before a final newline). Of Redis: a clock that steps back.

Open, in this order:

1. With overlapping PATCHes and moves in the store: for how long the group invariant can
   be off (until the next base edit of the group), which is about the future.
2. A clock that steps back, and a PATCH of params under the keys of the other scripts.
3. Group names and their unique index.
