---------------------------- MODULE ClientStore ----------------------------
(***************************************************************************)
(* Clients and their secrets in PostgreSQL, as services/client_service.py  *)
(* and scripts/create_client.py change them.                               *)
(*                                                                         *)
(* Every request has its own session: it reads committed rows, awaits, and *)
(* writes at commit; no row is locked.  Reads that no other step can tell  *)
(* apart are one step.  A request that is refused before it holds anything *)
(* is not a step.  Rows of clients and secrets are never deleted, and no   *)
(* code sets expires_at, so a secret is active until it is revoked.        *)
(***************************************************************************)
EXTENDS Integers, Sequences, FiniteSets

CONSTANTS
  ClientIds,       \* public client_ids
  Scopes,          \* what ck_clients_scopes_subset allows
  ScopeSets,       \* the scope lists requests may carry
  Admins,          \* admin requests that can be under way at the same time
  MaxActive,       \* _MAX_ACTIVE_SECRETS_PER_CLIENT
  None,
  MaxRequests      \* bound on the number of admin requests

Statuses == {"active", "disabled"}

(* Rows of clients: the columns that matter, with scopes of a request or of the
   seeded client. *)
ClientRows == [status : Statuses, scopes : ScopeSets \cup {{"check"}}]

ASSUME ClientStoreAssumption ==
  /\ Admins # {} /\ IsFiniteSet(Admins)
  /\ MaxActive \in Nat \ {0}
  /\ MaxRequests \in Nat
  /\ None \notin ScopeSets /\ None \notin Statuses /\ None \notin ClientRows

VARIABLES
  clients,    \* table clients, by client_id: None or [status, scopes]
  secrets,    \* table client_secrets, in the order of creation
  admin,      \* the admin requests under way
  started,    \* how many have been started
  excused     \* history: clients that may be without an active secret

storeVars == <<clients, secrets, admin, started, excused>>

(* ck_clients_scopes_subset *)
ScopesAccepted(scopes) == scopes \subseteq Scopes

(* count_active_secrets and list_active_secrets *)
Active(c) == {n \in DOMAIN secrets : secrets[n].client = c /\ ~secrets[n].revoked}

WithSecret == {c \in ClientIds : Active(c) # {}}

Idle == [pc |-> "idle"]

Begin(a, request) ==
  /\ admin[a] = Idle
  /\ started < MaxRequests
  /\ started' = started + 1
  /\ admin' = [admin EXCEPT ![a] = request]

End(a) ==
  /\ admin' = [admin EXCEPT ![a] = Idle]
  /\ UNCHANGED started

(* INSERT of a new secret, the last step of its request. *)
InsertSecret(a, c) ==
  /\ secrets' = Append(secrets, [client |-> c, revoked |-> FALSE])
  /\ excused' = excused \ {c}
  /\ End(a)
  /\ UNCHANGED clients

-----------------------------------------------------------------------------

(* Some clients may be there already: migration 0012 seeds one, active and
   without a secret, and earlier requests may have given it some and may
   have disabled it. *)
StoreInit ==
  /\ clients \in [ClientIds -> {None} \cup [status : Statuses, scopes : {{"check"}}]]
  /\ \E k \in 0 .. MaxActive :
       secrets \in [1 .. k -> [client : {c \in ClientIds : clients[c] # None}, revoked : {FALSE}]]
  /\ admin = [a \in Admins |-> Idle]
  /\ started = 0
  /\ excused = {c \in ClientIds : clients[c] # None} \ WithSecret

(* create_client: the client_id is free. *)
Create(a, c, scopes) ==
  /\ clients[c] = None
  /\ Begin(a, [pc |-> "client", client |-> c, scopes |-> scopes])
  /\ UNCHANGED <<clients, secrets, excused>>

(* The commit of the client.  The unique index and the CHECK on scopes may
   refuse it: both are reported as a conflict. *)
CommitClient(a) ==
  LET c == admin[a].client
  IN  /\ admin[a].pc = "client"
      /\ IF clients[c] = None /\ ScopesAccepted(admin[a].scopes)
         THEN /\ clients' = [clients EXCEPT ![c] =
                               [status |-> "active", scopes |-> admin[a].scopes]]
              /\ admin' = [admin EXCEPT ![a].pc = "secret"]
              /\ UNCHANGED started
         ELSE End(a) /\ UNCHANGED clients
      /\ UNCHANGED <<secrets, excused>>

(* The second commit: the first secret of the new client. *)
CommitFirstSecret(a) == admin[a].pc = "secret" /\ InsertSecret(a, admin[a].client)

(* update_client: the row is loaded ... *)
Update(a, c, patch) ==
  /\ clients[c] # None
  /\ Begin(a, [pc |-> "update", client |-> c, patch |-> patch, loaded |-> clients[c]])
  /\ UNCHANGED <<clients, secrets, excused>>

(* ... and the columns that differ from what was loaded are written. *)
CommitUpdate(a) ==
  LET c == admin[a].client
      assigned(col) == admin[a].patch[col] \notin {None, admin[a].loaded[col]}
      value(col) == IF assigned(col) THEN admin[a].patch[col] ELSE clients[c][col]
      row == [status |-> value("status"), scopes |-> value("scopes")]
  IN  /\ admin[a].pc = "update"
      /\ clients' = IF ScopesAccepted(row.scopes) THEN [clients EXCEPT ![c] = row] ELSE clients
      /\ End(a)
      /\ UNCHANGED <<secrets, excused>>

(* add_secret up to the count, which must leave room for one more. *)
AddSecret(a, c) ==
  /\ clients[c] # None
  /\ Cardinality(Active(c)) < MaxActive
  /\ Begin(a, [pc |-> "insert", client |-> c])
  /\ UNCHANGED <<clients, secrets, excused>>

CommitSecret(a) == admin[a].pc = "insert" /\ InsertSecret(a, admin[a].client)

(* revoke_secret: the client is loaded ... *)
Revoke(a, c, n) ==
  /\ clients[c] # None
  /\ n \in DOMAIN secrets
  /\ Begin(a, [pc |-> "check", client |-> c, secret |-> n, status |-> clients[c].status])
  /\ UNCHANGED <<clients, secrets, excused>>

(* A slip: the secret to be revoked counts as one that remains. *)
MayRevokeAny(a) == admin[a].secret \in Active(admin[a].client)

(* ... the secret must be one of its own and not revoked yet, and not the
   only active one of a client that was active when loaded. *)
MayRevoke(a) ==
  /\ admin[a].secret \in Active(admin[a].client)
  /\ admin[a].status = "active" => Cardinality(Active(admin[a].client)) > 1

CheckRevoke(a) ==
  /\ admin[a].pc = "check"
  /\ IF MayRevoke(a)
     THEN /\ admin' = [admin EXCEPT ![a] =
                         [pc |-> "revoke", client |-> @.client, secret |-> @.secret,
                          sole |-> @.status = "active"]]
          /\ UNCHANGED started
     ELSE End(a)
  /\ UNCHANGED <<clients, secrets, excused>>

(* revoked_at is committed.  For the history: other revocations of the client
   that have passed their check are no longer the only ones (not `sole'), and
   neither is one that was checked while the client was disabled. *)
CommitRevoke(a) ==
  LET c == admin[a].client
  IN  /\ admin[a].pc = "revoke"
      /\ secrets' = [secrets EXCEPT ![admin[a].secret].revoked = TRUE]
      /\ admin' = [b \in Admins |->
                     IF b = a THEN Idle
                     ELSE IF admin[b].pc = "revoke" THEN
                       IF admin[b].client = c THEN [admin[b] EXCEPT !.sole = FALSE] ELSE admin[b]
                     ELSE admin[b]]
      /\ excused' = IF ~admin[a].sole /\ Active(c) \subseteq {admin[a].secret}
                    THEN excused \cup {c} ELSE excused
      /\ UNCHANGED <<clients, started>>

(* The process dies, or its database connection: what is committed stays. *)
Die(a) ==
  /\ admin[a] # Idle
  /\ excused' = IF admin[a].pc = "secret" THEN excused \cup ({admin[a].client} \ WithSecret)
                ELSE excused
  /\ End(a)
  /\ UNCHANGED <<clients, secrets>>

Patches == [status : Statuses \cup {None}, scopes : ScopeSets \cup {None}]

AdminStep(a) ==
  \/ CommitClient(a) \/ CommitFirstSecret(a) \/ CommitUpdate(a)
  \/ CommitSecret(a) \/ CheckRevoke(a) \/ CommitRevoke(a)

StoreNext ==
  \E a \in Admins :
    \/ \E c \in ClientIds :
         \/ \E scopes \in ScopeSets : Create(a, c, scopes)
         \/ \E patch \in Patches : Update(a, c, patch)
         \/ AddSecret(a, c)
         \/ \E n \in DOMAIN secrets : Revoke(a, c, n)
    \/ AdminStep(a)
    \/ Die(a)

-----------------------------------------------------------------------------

(* model/client_secret.py:1: at most two active secrets per client at a time.
   add_secret counts (client_service.py:86) and inserts in separate steps, with
   nothing locked in between. *)
SecretCapHolds == \A c \in ClientIds : Cardinality(Active(c)) <= MaxActive

(* client_service.py:3-4, the guard on the last secret: a client has an active
   secret, except one that was seeded without, whose creation is between its
   two commits or was cut there, whose last secret was revoked by a request
   that found it disabled, or of which two revocations overlapped. *)
SecretlessIsExplained ==
  \A c \in ClientIds :
    clients[c] # None /\ Active(c) = {} =>
      \/ c \in excused
      \/ \E a \in Admins : admin[a].pc = "secret" /\ admin[a].client = c

=============================================================================
