---------------------------- MODULE ClientAuth -----------------------------
(***************************************************************************)
(* How a client gets a token (services/auth_service.py) and what an        *)
(* instance of the service makes of it (core/security/auth_dependency.py), *)
(* which looks at the clients it polled last and never at the database.    *)
(*                                                                         *)
(* A token is what its claims say; how long it verifies is the subject of  *)
(* module Tokens.  Here it verifies as long as it is in `tokens'.          *)
(***************************************************************************)
EXTENDS ClientStore, Tokens

CONSTANT Logins    \* token requests that can be under way at the same time

VARIABLES
  tokens,    \* the tokens that verify: [client, scopes]
  login,     \* the token requests under way
  cache,     \* ClientsCache of one instance; None while it is down
  poll       \* the clients a load under way has fetched, or None

vars == <<storeVars, tokens, login, cache, poll>>

-----------------------------------------------------------------------------

Init ==
  /\ StoreInit
  /\ tokens = {}
  /\ login = [l \in Logins |-> Idle]
  /\ cache = None
  /\ poll = None

ChangeStore ==
  /\ StoreNext
  /\ UNCHANGED <<tokens, login, cache, poll>>

(* A slip: whether the client is disabled is left to the instances. *)
MayLoginAlways(c) == clients[c] # None

(* issue_token refuses an unknown and a disabled client. *)
MayLogin(c) == clients[c] # None /\ clients[c].status = "active"

(* _resolve_scopes: all registered ones, or those that were asked for. *)
Resolve(registered, requested) == IF requested = None THEN registered ELSE requested

(* The scope field of POST /auth/token; without one, or with an empty one, no
   scopes are asked for. *)
RequestedScopes == (ScopeSets \ {{}}) \cup {None}

(* verify_secret, for the active secrets of the client; that two secrets have
   one hash is left out. *)
VerifySecret(c, n) == n \in Active(c)

(* issue_token: the client is loaded; no scope it lacks is granted ... *)
Login(l, c, n, requested) ==
  /\ login[l] = Idle
  /\ MayLogin(c)
  /\ LET granted == Resolve(clients[c].scopes, requested)
     IN  /\ granted \subseteq clients[c].scopes
         /\ login' = [login EXCEPT ![l] =
                        [pc |-> "secrets", client |-> c, secret |-> n, scopes |-> granted]]
  /\ UNCHANGED <<storeVars, tokens, cache, poll>>

(* ... then its active secrets, of which one must be the given one. *)
IssueToken(l) ==
  /\ login[l] # Idle
  /\ tokens' = IF VerifySecret(login[l].client, login[l].secret)
               THEN tokens \cup {[client |-> login[l].client, scopes |-> login[l].scopes]}
               ELSE tokens
  /\ login' = [login EXCEPT ![l] = Idle]
  /\ UNCHANGED <<storeVars, cache, poll>>

(* The last moment at which the token verifies passes. *)
ExpireToken(token) ==
  /\ tokens' = tokens \ {token}
  /\ UNCHANGED <<storeVars, login, cache, poll>>

-----------------------------------------------------------------------------

(* load_clients_into_cache at boot (main.py) and by the scheduled clients
   poll: the rows are fetched ... *)
PollFetch ==
  /\ poll = None
  /\ poll' = clients
  /\ UNCHANGED <<storeVars, tokens, login, cache>>

(* A slip: the last known good record of a client is kept. *)
PollLoadKeepsGood ==
  /\ poll # None
  /\ cache' = [c \in ClientIds |->
                 IF cache # None /\ poll[c] # None
                 THEN IF poll[c].status = "active" THEN poll[c] ELSE cache[c]
                 ELSE poll[c]]
  /\ poll' = None
  /\ UNCHANGED <<storeVars, tokens, login>>

(* ... and replace the cache as a whole. *)
PollLoad ==
  /\ poll # None
  /\ cache' = poll
  /\ poll' = None
  /\ UNCHANGED <<storeVars, tokens, login>>

(* A failed poll leaves the cache as it is. *)
PollFails ==
  /\ poll # None
  /\ poll' = None
  /\ UNCHANGED <<storeVars, tokens, login, cache>>

(* The instance stops; it serves again after the first load. *)
Crash ==
  /\ cache' = None
  /\ poll' = None
  /\ UNCHANGED <<storeVars, tokens, login>>

(* require_scope for a token that verifies: the cached record must be active,
   and the scope one of the token and of the record. *)
InGoodStanding(table, c, scope) ==
  table[c] # None /\ table[c].status = "active" /\ scope \in table[c].scopes

Authorised(token, scope) ==
  /\ cache # None
  /\ scope \in token.scopes
  /\ InGoodStanding(cache, token.client, scope)

Next ==
  \/ ChangeStore
  \/ \E l \in Logins, c \in ClientIds, n \in DOMAIN secrets, s \in RequestedScopes :
       Login(l, c, n, s)
  \/ \E l \in Logins : IssueToken(l)
  \/ \E token \in tokens : ExpireToken(token)
  \/ PollFetch \/ PollLoad \/ PollFails \/ Crash

Spec == Init /\ [][Next]_vars

(* The scheduler polls at every interval and outages of the database end;
   token requests are answered; time passes. *)
FairSpec ==
  /\ Spec
  /\ WF_vars(PollFetch) /\ SF_vars(PollLoad)
  /\ \A l \in Logins : WF_vars(IssueToken(l))
  /\ \A c \in ClientIds, s \in SUBSET Scopes :
       LET token == [client |-> c, scopes |-> s]
       IN  WF_vars(token \in tokens /\ ExpireToken(token))

-----------------------------------------------------------------------------

(* clients_cache.py:3-6: once the edits have ceased, every instance that is up
   comes to authorise exactly what the table grants, for every token that
   verifies and every scope: a disabled client and a withdrawn scope are
   refused, a new client is served, whatever polls failed or overlapped with
   the edits and however often the instance was restarted. *)
AccessFollowsTable ==
  <>[](cache # None =>
         \A c \in ClientIds, scope \in Scopes :
           Authorised([client |-> c, scopes |-> Scopes], scope)
             <=> InGoodStanding(clients, c, scope))

Disabled(c) == clients[c] # None /\ clients[c].status = "disabled"

(* The same without the polls: a disabled client is left with no token that
   verifies, although a request that had loaded the client before may still
   be granted one. *)
TokensOfDisabledEnd ==
  \A c \in ClientIds :
    Disabled(c) ~>
      \/ ~Disabled(c)
      \/ /\ \A token \in tokens : token.client # c
         /\ \A l \in Logins : login[l] # Idle => login[l].client # c

=============================================================================
