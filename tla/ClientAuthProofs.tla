-------------------------- MODULE ClientAuthProofs --------------------------
(***************************************************************************)
(* SecretlessIsExplained and SecretsBounded for every number of clients,   *)
(* secrets, overlapping requests and instances, and every cap.             *)
(*                                                                         *)
(* The first is not inductive: a revocation that has passed its check      *)
(* may commit at any later time.  What carries it is SoleLeavesOne: as     *)
(* long as no other revocation of the client commits in between (the       *)
(* request is still `sole'), an active secret other than the one to be     *)
(* revoked remains.                                                        *)
(*                                                                         *)
(* TokensLive, at the end, is arithmetic: for how long a token verifies.   *)
(***************************************************************************)
EXTENDS ClientAuth, FiniteSetTheorems, SequenceTheorems, TLAPS

Secret == [client : ClientIds, revoked : BOOLEAN]

(* What requests carry, as far as it matters here. *)
Carries(request) ==
  /\ request.pc = "client" =>
       request \in [pc : {"client"}, client : ClientIds, scopes : ScopeSets]
  /\ request.pc \in {"secret", "insert", "check", "update"} => request.client \in ClientIds
  /\ request.pc = "revoke" =>
       request \in [pc : {"revoke"}, client : ClientIds, secret : DOMAIN secrets,
                    sole : BOOLEAN]

StoreTypes ==
  /\ DOMAIN clients = ClientIds
  /\ secrets \in Seq(Secret)
  /\ DOMAIN admin = Admins
  /\ \A a \in Admins : Carries(admin[a])

(* Why the client may be, or is not, without an active secret. *)
Explained(c) ==
  \/ Active(c) # {}
  \/ c \in excused
  \/ \E a \in Admins : admin[a].pc = "secret" /\ admin[a].client = c

(* Whatever update_client loaded exists, and so do all clients. *)
ClientsExplained ==
  /\ \A c \in ClientIds : clients[c] # None => Explained(c)
  /\ \A a \in Admins : admin[a].pc = "update" => Explained(admin[a].client)

(* A request that is about to revoke a secret revokes one of its client, and
   leaves another if it is still the only one. *)
LeavesOne(request) ==
  request.pc = "revoke" =>
    /\ secrets[request.secret].client = request.client
    /\ request.sole = TRUE => \E n \in Active(request.client) : n # request.secret

SoleLeavesOne == \A a \in Admins : LeavesOne(admin[a])

IInv == StoreTypes /\ SoleLeavesOne /\ ClientsExplained

-----------------------------------------------------------------------------

(* Two of a set are not both the one: what the count in revoke_secret shows. *)
LEMMA MoreThanOne ==
  ASSUME NEW S, NEW n, Cardinality(S) > 1, IsFiniteSet(S)
  PROVE  \E m \in S : m # n
<1> SUFFICES ASSUME \A m \in S : m = n PROVE FALSE
  OBVIOUS
<1>1. S \subseteq {n}
  OBVIOUS
<1>2. Cardinality(S) <= Cardinality({n})
  BY <1>1, FS_Subset, FS_Singleton
<1>3. Cardinality({n}) = 1 /\ Cardinality(S) \in Nat
  BY FS_Singleton, FS_CardinalityType
<1> QED BY <1>2, <1>3

LEMMA ActiveFinite ==
  ASSUME StoreTypes, NEW c
  PROVE  IsFiniteSet(Active(c))
<1>1. Active(c) \subseteq 1 .. Len(secrets) /\ Len(secrets) \in Nat
  BY DEF Active, StoreTypes
<1>2. IsFiniteSet(1 .. Len(secrets))
  BY <1>1, FS_Interval
<1> QED BY <1>1, <1>2, FS_Subset

(* The tables a deployment starts with. *)
LEMMA InitIInv == StoreInit => IInv
<1> SUFFICES ASSUME StoreInit PROVE IInv
  OBVIOUS
<1>1. PICK k \in 0 .. MaxActive :
        secrets \in [1 .. k -> [client : {c \in ClientIds : clients[c] # None}, revoked : {FALSE}]]
  BY DEF StoreInit
<1>2. k \in Nat
  BY <1>1, ClientStoreAssumption
<1>3. \A n \in 1 .. k : secrets[n] \in Secret
  BY <1>1 DEF Secret
<1>4. secrets \in Seq(Secret)
  BY <1>1, <1>2, <1>3
<1>5. DOMAIN clients = ClientIds
  BY DEF StoreInit
<1>6. \A a \in Admins : admin[a].pc = "idle"
  BY DEF StoreInit, Idle
<1>7. StoreTypes /\ SoleLeavesOne
  BY <1>4, <1>5, <1>6 DEF StoreTypes, SoleLeavesOne, LeavesOne, Carries, StoreInit
<1>8. ClientsExplained
  BY <1>6 DEF StoreInit, ClientsExplained, Explained, WithSecret
<1> QED BY <1>7, <1>8 DEF IInv

(* A step that leaves the secrets alone and turns the request of a into q. *)
LEMMA NoSecretWritten ==
  ASSUME IInv, NEW a \in Admins, NEW q,
         Carries(q), LeavesOne(q), q.pc = "update" => Explained(q.client),
         admin[a].pc # "secret",
         admin' = [admin EXCEPT ![a] = q],
         UNCHANGED <<secrets, excused>>,
         DOMAIN clients' = ClientIds,
         \A c \in ClientIds : clients'[c] # None =>
            clients[c] # None \/ Explained(c) \/ (q.pc = "secret" /\ q.client = c)
  PROVE  IInv'
<1>1. \A b \in Admins : admin'[b] = IF b = a THEN q ELSE admin[b]
  BY DEF IInv, StoreTypes
<1>2. \A c : Active(c)' = Active(c)
  BY DEF Active
<1>3. StoreTypes'
  BY <1>1 DEF IInv, StoreTypes, Carries
<1>4. SoleLeavesOne'
  BY <1>1, <1>2 DEF IInv, SoleLeavesOne, LeavesOne
<1>5. \A c : Explained(c) => Explained(c)'
  BY <1>1, <1>2 DEF Explained
<1>6. \A c : q.pc = "secret" /\ q.client = c => Explained(c)'
  BY <1>1 DEF Explained
<1>7. ClientsExplained'
  <2>1. ASSUME NEW c \in ClientIds, clients'[c] # None PROVE Explained(c)'
    BY <2>1, <1>5, <1>6 DEF IInv, ClientsExplained
  <2>2. ASSUME NEW b \in Admins, admin'[b].pc = "update" PROVE Explained(admin[b].client)'
    BY <2>2, <1>1, <1>5 DEF IInv, ClientsExplained
  <2> QED BY <2>1, <2>2 DEF ClientsExplained
<1> QED BY <1>3, <1>4, <1>7 DEF IInv

(* INSERT of a secret: the client has one now. *)
LEMMA InsertStep ==
  ASSUME IInv, NEW a \in Admins, admin[a].client \in ClientIds,
         admin[a].pc \in {"secret", "insert"}, InsertSecret(a, admin[a].client)
  PROVE  IInv'
<1>c. PICK c \in ClientIds : c = admin[a].client
  OBVIOUS
<1> DEFINE new == [client |-> c, revoked |-> FALSE]
<1>0. secrets' = Append(secrets, new) /\ excused' = excused \ {c}
      /\ admin' = [admin EXCEPT ![a] = Idle] /\ clients' = clients
  BY <1>c DEF InsertSecret, End
<1>1. \A b \in Admins : admin'[b] = IF b = a THEN Idle ELSE admin[b]
  BY <1>0 DEF IInv, StoreTypes
<1>2. new \in Secret /\ secrets \in Seq(Secret)
  BY DEF Secret, IInv, StoreTypes
<1> HIDE DEF new
<1>3. /\ secrets' \in Seq(Secret)
      /\ DOMAIN secrets' = DOMAIN secrets \cup {Len(secrets) + 1}
      /\ \A n \in DOMAIN secrets : secrets'[n] = secrets[n]
      /\ secrets'[Len(secrets) + 1] = new
  BY <1>0, <1>2
<1>4. \A d : Active(d) \subseteq Active(d)'
  BY <1>3 DEF Active
<1>5. Active(c)' # {}
  BY <1>3 DEF Active, new
<1>6. StoreTypes'
  BY <1>0, <1>1, <1>3 DEF IInv, StoreTypes, Carries, Idle
<1>7. SoleLeavesOne'
  <2> SUFFICES ASSUME NEW b \in Admins, admin'[b].pc = "revoke" PROVE LeavesOne(admin[b])'
    BY DEF SoleLeavesOne, LeavesOne
  <2>1. admin'[b] = admin[b] /\ admin[b].pc = "revoke"
    BY <1>1 DEF Idle
  <2>2. LeavesOne(admin[b]) /\ admin[b].secret \in DOMAIN secrets
    BY <2>1 DEF IInv, SoleLeavesOne, StoreTypes, Carries
  <2> QED BY <2>1, <2>2, <1>3, <1>4 DEF LeavesOne
<1>8. \A d : Explained(d) => Explained(d)'
  <2> SUFFICES ASSUME NEW d, Explained(d), d # c PROVE Explained(d)'
    BY <1>5 DEF Explained
  <2> QED BY <1>c, <1>0, <1>1, <1>4 DEF Explained
<1>9. ClientsExplained'
  BY <1>0, <1>1, <1>8 DEF IInv, ClientsExplained, Idle
<1> QED BY <1>6, <1>7, <1>9 DEF IInv

(* The process dies between the two commits of create_client. *)
LEMMA DieStep ==
  ASSUME IInv, NEW a \in Admins, Die(a)
  PROVE  IInv'
<1>0. admin' = [admin EXCEPT ![a] = Idle] /\ UNCHANGED <<clients, secrets>>
  BY DEF Die, End
<1>1. CASE admin[a].pc # "secret"
  <2>1. UNCHANGED <<secrets, excused>>
    BY <1>0, <1>1 DEF Die
  <2>2. Idle.pc = "idle"
    BY DEF Idle
  <2>3. Carries(Idle) /\ LeavesOne(Idle)
    BY <2>2 DEF Carries, LeavesOne
  <2> QED BY <1>0, <1>1, <2>1, <2>2, <2>3, NoSecretWritten DEF IInv, StoreTypes
<1>2. CASE admin[a].pc = "secret"
  <2>c. PICK c \in ClientIds : c = admin[a].client
    BY <1>2 DEF IInv, StoreTypes, Carries
  <2>1. excused' = excused \cup ({c} \ WithSecret)
    BY <1>2, <2>c DEF Die
  <2>2. \A b \in Admins : admin'[b] = IF b = a THEN Idle ELSE admin[b]
    BY <1>0 DEF IInv, StoreTypes
  <2>3. \A d : Active(d)' = Active(d)
    BY <1>0 DEF Active
  <2>4. StoreTypes'
    BY <1>0, <2>2 DEF IInv, StoreTypes, Carries, Idle
  <2>5. SoleLeavesOne'
    BY <1>0, <2>2, <2>3 DEF IInv, SoleLeavesOne, LeavesOne, Idle
  <2>6. Explained(c)'
    BY <2>1, <2>3 DEF Explained, WithSecret
  <2>7. \A d : Explained(d) => Explained(d)'
    <3> SUFFICES ASSUME NEW d, Explained(d), d # c PROVE Explained(d)'
      BY <2>6
    <3> QED BY <2>c, <2>1, <2>2, <2>3 DEF Explained
  <2>8. ClientsExplained'
    BY <1>0, <2>2, <2>7 DEF IInv, ClientsExplained, Idle
  <2> QED BY <2>4, <2>5, <2>8 DEF IInv
<1> QED BY <1>1, <1>2

(* A revocation commits: either its client keeps a secret, or it is excused. *)
LEMMA CommitRevokeStep ==
  ASSUME IInv, NEW a \in Admins, CommitRevoke(a)
  PROVE  IInv'
<1>r. admin[a].pc = "revoke" /\ Carries(admin[a]) /\ LeavesOne(admin[a])
  BY DEF IInv, StoreTypes, SoleLeavesOne, CommitRevoke
<1>c. PICK c \in ClientIds : c = admin[a].client
  BY <1>r DEF Carries
<1>k. PICK k \in DOMAIN secrets : k = admin[a].secret
  BY <1>r DEF Carries
<1>0. /\ secrets[k].client = c
      /\ admin[a].sole \in BOOLEAN
      /\ secrets \in Seq(Secret)
  BY <1>r, <1>c, <1>k DEF IInv, StoreTypes, Carries, LeavesOne
<1>1. /\ secrets' = [secrets EXCEPT ![k].revoked = TRUE]
      /\ UNCHANGED clients
  BY <1>k DEF CommitRevoke
<1>2. /\ secrets' \in Seq(Secret)
      /\ DOMAIN secrets' = DOMAIN secrets
      /\ \A n \in DOMAIN secrets : n # k => secrets'[n] = secrets[n]
      /\ secrets'[k].client = c /\ secrets'[k].revoked = TRUE
  <2> DEFINE revoked == [secrets[k] EXCEPT !.revoked = TRUE]
  <2>1. secrets[k] \in Secret
    BY <1>0
  <2>2. revoked \in Secret /\ revoked.client = c /\ revoked.revoked = TRUE
    BY <1>0, <2>1 DEF Secret
  <2>3. secrets' = [secrets EXCEPT ![k] = revoked]
    BY <1>1
  <2> HIDE DEF revoked
  <2>4. secrets' \in Seq(Secret)
    BY <1>0, <2>2, <2>3, ExceptSeq
  <2> QED BY <1>0, <2>2, <2>3, <2>4
<1>3. \A d : d # c => Active(d)' = Active(d)
  BY <1>0, <1>2 DEF Active
<1>4. Active(c)' = Active(c) \ {k}
  BY <1>0, <1>2 DEF Active
<1>i. admin'[a].pc = "idle"
  BY DEF CommitRevoke, Idle
<1>5. \A b \in Admins :
        \/ b = a
        \/ b # a /\ admin'[b] = admin[b] /\ (admin[b].pc = "revoke" => admin[b].client # c)
        \/ /\ b # a /\ admin[b].pc = "revoke" /\ admin[b].client = c
           /\ admin'[b] = [admin[b] EXCEPT !.sole = FALSE]
  BY <1>c DEF CommitRevoke
<1>6. StoreTypes'
  <2>1. DOMAIN admin' = Admins
    BY DEF CommitRevoke
  <2>2. ASSUME NEW b \in Admins PROVE Carries(admin[b])'
    <3>1. Carries(admin[b])
      BY DEF IInv, StoreTypes
    <3>2. CASE b = a
      BY <1>i, <3>2 DEF Carries
    <3>3. CASE admin'[b] = admin[b]
      BY <1>2, <3>1, <3>3 DEF Carries
    <3>4. CASE admin[b].pc = "revoke" /\ admin'[b] = [admin[b] EXCEPT !.sole = FALSE]
      BY <1>2, <3>1, <3>4 DEF Carries
    <3> QED BY <1>5, <3>2, <3>3, <3>4
  <2> QED BY <1>1, <1>2, <2>1, <2>2 DEF IInv, StoreTypes
<1>7. SoleLeavesOne'
  <2> SUFFICES ASSUME NEW b \in Admins, admin'[b].pc = "revoke" PROVE LeavesOne(admin[b])'
    BY DEF SoleLeavesOne, LeavesOne
  <2>0. b # a
    BY <1>i
  <2>1. CASE admin'[b] = admin[b] /\ admin[b].client # c
    <3>1. LeavesOne(admin[b]) /\ admin[b].secret \in DOMAIN secrets
      BY <2>1 DEF IInv, SoleLeavesOne, StoreTypes, Carries
    <3> QED BY <1>0, <1>2, <1>3, <2>1, <3>1 DEF LeavesOne
  <2>2. CASE admin[b].pc = "revoke" /\ admin[b].client = c
             /\ admin'[b] = [admin[b] EXCEPT !.sole = FALSE]
    <3>1. /\ admin[b] \in [pc : {"revoke"}, client : ClientIds, secret : DOMAIN secrets,
                          sole : BOOLEAN]
          /\ secrets[admin[b].secret].client = c
      BY <2>2 DEF IInv, SoleLeavesOne, LeavesOne, StoreTypes, Carries
    <3>2. admin'[b].client = c /\ admin'[b].secret = admin[b].secret /\ admin'[b].sole = FALSE
      BY <2>2, <3>1
    <3> QED BY <1>0, <1>2, <3>1, <3>2 DEF LeavesOne
  <2> QED BY <1>5, <2>0, <2>1, <2>2
<1>8. Explained(c)'
  <2>1. CASE admin[a].sole = TRUE
    <3>1. \E n \in Active(c) : n # k
      BY <1>r, <1>c, <1>k, <2>1 DEF LeavesOne
    <3> QED BY <3>1, <1>4 DEF Explained
  <2>2. CASE admin[a].sole = FALSE
    <3>1. CASE Active(c) \subseteq {k}
      BY <1>c, <1>k, <2>2, <3>1 DEF CommitRevoke, Explained
    <3>2. CASE ~ (Active(c) \subseteq {k})
      BY <3>2, <1>4 DEF Explained
    <3> QED BY <3>1, <3>2
  <2> QED BY <1>0, <2>1, <2>2
<1>9. \A d : Explained(d) => Explained(d)'
  <2> SUFFICES ASSUME NEW d, Explained(d), d # c PROVE Explained(d)'
    BY <1>8
  <2>1. excused \subseteq excused'
    BY DEF CommitRevoke
  <2>2. \A b \in Admins : admin[b].pc = "secret" => admin'[b] = admin[b]
    BY <1>5 DEF CommitRevoke
  <2> QED BY <1>3, <2>1, <2>2 DEF Explained
<1>10. ClientsExplained'
  <2>1. ASSUME NEW b \in Admins, admin'[b].pc = "update" PROVE admin'[b] = admin[b]
    <3>1. CASE admin[b].pc = "revoke" /\ admin'[b] = [admin[b] EXCEPT !.sole = FALSE]
      BY <2>1, <3>1 DEF IInv, StoreTypes, Carries
    <3> QED BY <1>i, <1>5, <2>1, <3>1
  <2> QED BY <1>1, <1>9, <2>1 DEF IInv, ClientsExplained
<1> QED BY <1>6, <1>7, <1>10 DEF IInv

(* A request that starts: nothing is written yet. *)
LEMMA BeginStep ==
  ASSUME IInv, NEW a \in Admins, NEW q, Begin(a, q),
         Carries(q), LeavesOne(q), q.pc = "update" => Explained(q.client),
         UNCHANGED <<clients, secrets, excused>>
  PROVE  IInv'
<1>1. admin[a].pc # "secret" /\ admin' = [admin EXCEPT ![a] = q]
  BY DEF Begin, Idle
<1> QED BY <1>1, NoSecretWritten DEF IInv, StoreTypes

(* One that ends without a secret written. *)
LEMMA EndStep ==
  ASSUME IInv, NEW a \in Admins, End(a), admin[a].pc # "secret",
         UNCHANGED <<secrets, excused>>,
         DOMAIN clients' = ClientIds,
         \A c \in ClientIds : clients'[c] # None => clients[c] # None \/ Explained(c)
  PROVE  IInv'
<1>1. Idle.pc = "idle"
  BY DEF Idle
<1>2. Carries(Idle) /\ LeavesOne(Idle)
  BY <1>1 DEF Carries, LeavesOne
<1> QED BY <1>1, <1>2, NoSecretWritten DEF End

LEMMA StoreStep == IInv /\ StoreNext => IInv'
<1> SUFFICES ASSUME IInv, StoreNext PROVE IInv'
  OBVIOUS
<1>0. PICK a \in Admins :
        \/ \E c \in ClientIds :
             \/ \E scopes \in ScopeSets : Create(a, c, scopes)
             \/ \E patch \in Patches : Update(a, c, patch)
             \/ AddSecret(a, c)
             \/ \E n \in DOMAIN secrets : Revoke(a, c, n)
        \/ AdminStep(a)
        \/ Die(a)
  BY DEF StoreNext
<1>1. ASSUME NEW c \in ClientIds, NEW scopes \in ScopeSets, Create(a, c, scopes) PROVE IInv'
  <2> DEFINE q == [pc |-> "client", client |-> c, scopes |-> scopes]
  <2>1. Carries(q) /\ LeavesOne(q) /\ q.pc # "update"
    BY DEF Carries, LeavesOne
  <2> QED BY <1>1, <2>1, BeginStep DEF Create
<1>2. ASSUME NEW c \in ClientIds, NEW patch \in Patches, Update(a, c, patch) PROVE IInv'
  <2> DEFINE q == [pc |-> "update", client |-> c, patch |-> patch, loaded |-> clients[c]]
  <2>1. Carries(q) /\ LeavesOne(q) /\ q.client = c
    BY DEF Carries, LeavesOne
  <2>2. Explained(c)
    BY <1>2 DEF Update, IInv, ClientsExplained
  <2> QED BY <1>2, <2>1, <2>2, BeginStep DEF Update
<1>3. ASSUME NEW c \in ClientIds, AddSecret(a, c) PROVE IInv'
  <2> DEFINE q == [pc |-> "insert", client |-> c]
  <2>1. Carries(q) /\ LeavesOne(q) /\ q.pc # "update"
    BY DEF Carries, LeavesOne
  <2> QED BY <1>3, <2>1, BeginStep DEF AddSecret
<1>4. ASSUME NEW c \in ClientIds, NEW n \in DOMAIN secrets, Revoke(a, c, n) PROVE IInv'
  <2> DEFINE q == [pc |-> "check", client |-> c, secret |-> n, status |-> clients[c].status]
  <2>1. Carries(q) /\ LeavesOne(q) /\ q.pc # "update"
    BY DEF Carries, LeavesOne
  <2> QED BY <1>4, <2>1, BeginStep DEF Revoke
<1>5. CASE CommitClient(a)
  <2>1. admin[a] \in [pc : {"client"}, client : ClientIds, scopes : ScopeSets]
    BY <1>5 DEF CommitClient, IInv, StoreTypes, Carries
  <2>2. DOMAIN clients = ClientIds /\ UNCHANGED <<secrets, excused>>
    BY <1>5 DEF CommitClient, IInv, StoreTypes
  <2>3. CASE End(a) /\ UNCHANGED clients
    BY <2>1, <2>2, <2>3, EndStep
  <2>4. CASE /\ clients' = [clients EXCEPT ![admin[a].client] =
                             [status |-> "active", scopes |-> admin[a].scopes]]
             /\ admin' = [admin EXCEPT ![a].pc = "secret"]
    <3> DEFINE q == [admin[a] EXCEPT !.pc = "secret"]
    <3>1. q.pc = "secret" /\ q.client = admin[a].client
      BY <2>1
    <3>2. Carries(q) /\ LeavesOne(q)
      BY <2>1, <3>1 DEF Carries, LeavesOne
    <3>3. DOMAIN clients' = ClientIds
          /\ \A d \in ClientIds : d # admin[a].client => clients'[d] = clients[d]
      BY <2>2, <2>4
    <3>4. admin' = [admin EXCEPT ![a] = q]
      BY <2>4
    <3> HIDE DEF q
    <3> QED BY <2>1, <2>2, <3>1, <3>2, <3>3, <3>4, NoSecretWritten
  <2> QED BY <1>5, <2>3, <2>4 DEF CommitClient
<1>6. CASE CommitFirstSecret(a)
  BY <1>6, InsertStep DEF CommitFirstSecret, IInv, StoreTypes, Carries
<1>7. CASE CommitUpdate(a)
  <2>1. Explained(admin[a].client) /\ admin[a].pc = "update" /\ DOMAIN clients = ClientIds
    BY <1>7 DEF CommitUpdate, IInv, ClientsExplained, StoreTypes
  <2>2. DOMAIN clients' = ClientIds
        /\ \A d \in ClientIds : d # admin[a].client => clients'[d] = clients[d]
    BY <1>7, <2>1 DEF CommitUpdate
  <2> QED BY <1>7, <2>1, <2>2, EndStep DEF CommitUpdate
<1>8. CASE CommitSecret(a)
  BY <1>8, InsertStep DEF CommitSecret, IInv, StoreTypes, Carries
<1>9. CASE CheckRevoke(a)
  <2>1. UNCHANGED <<clients, secrets, excused>> /\ admin[a].pc = "check"
        /\ DOMAIN clients = ClientIds /\ admin[a].client \in ClientIds
    BY <1>9 DEF CheckRevoke, IInv, StoreTypes, Carries
  <2>2. CASE ~ MayRevoke(a)
    BY <1>9, <2>1, <2>2, EndStep DEF CheckRevoke
  <2>3. CASE MayRevoke(a)
    <3> DEFINE q == [pc |-> "revoke", client |-> admin[a].client, secret |-> admin[a].secret,
                     sole |-> admin[a].status = "active"]
    <3>1. admin' = [admin EXCEPT ![a] = q]
      BY <1>9, <2>3 DEF CheckRevoke
    <3>2. q.pc = "revoke" /\ q.client = admin[a].client /\ q.secret = admin[a].secret
          /\ q.sole \in BOOLEAN /\ (q.sole = TRUE => admin[a].status = "active")
      OBVIOUS
    <3>3. admin[a].secret \in Active(admin[a].client)
      BY <2>3 DEF MayRevoke
    <3>4. admin[a].secret \in DOMAIN secrets
          /\ secrets[admin[a].secret].client = admin[a].client
      BY <3>3 DEF Active
    <3>5. Carries(q)
      BY <2>1, <3>4 DEF Carries
    <3>6. ASSUME admin[a].status = "active"
          PROVE  \E n \in Active(admin[a].client) : n # admin[a].secret
      BY <2>3, <3>6, MoreThanOne, ActiveFinite DEF MayRevoke, IInv
    <3>7. LeavesOne(q)
      BY <3>2, <3>4, <3>6 DEF LeavesOne
    <3> HIDE DEF q
    <3> QED BY <2>1, <3>1, <3>2, <3>5, <3>7, NoSecretWritten
  <2> QED BY <2>2, <2>3
<1>10. CASE CommitRevoke(a)
  BY <1>10, CommitRevokeStep
<1>11. CASE Die(a)
  BY <1>11, DieStep
<1> QED BY <1>0, <1>1, <1>2, <1>3, <1>4, <1>5, <1>6, <1>7, <1>8, <1>9, <1>10, <1>11 DEF AdminStep

LEMMA NextKeepsIInv == IInv /\ [Next]_vars => IInv'
<1> SUFFICES ASSUME IInv, [Next]_vars PROVE IInv'
  OBVIOUS
<1>1. StoreNext \/ UNCHANGED storeVars
  BY DEF Next, vars, ChangeStore, Login, IssueToken, ExpireToken, PollFetch, PollLoad,
         PollFails, Crash
<1>2. CASE UNCHANGED storeVars
  <2>1. \A c : Active(c)' = Active(c)
    BY <1>2 DEF storeVars, Active
  <2>2. \A c : Explained(c)' <=> Explained(c)
    BY <1>2, <2>1 DEF storeVars, Explained
  <2>3. StoreTypes'
    BY <1>2 DEF storeVars, IInv, StoreTypes, Carries
  <2>4. SoleLeavesOne'
    BY <1>2, <2>1 DEF storeVars, IInv, SoleLeavesOne, LeavesOne
  <2>5. ClientsExplained'
    BY <1>2, <2>2 DEF storeVars, IInv, ClientsExplained
  <2> QED BY <2>3, <2>4, <2>5 DEF IInv
<1> QED BY <1>1, <1>2, StoreStep

(* client_service.py:3-4: a client is without an active secret only for one of
   the reasons SecretlessIsExplained lists, whatever requests overlap, die or
   are repeated. *)
THEOREM SecretlessClients == Spec => []SecretlessIsExplained
<1>1. Init => IInv
  BY InitIInv DEF Init
<1>2. IInv => SecretlessIsExplained
  BY DEF IInv, ClientsExplained, Explained, SecretlessIsExplained
<1> QED BY <1>1, <1>2, NextKeepsIInv, PTL DEF Spec

-----------------------------------------------------------------------------

(* The second invariant.  The count and the insert of add_secret are two steps,
   so the bound speaks of the secrets still to be inserted as well; and a
   secret belongs to a client that exists, so a client that is being created
   starts from none. *)
RowsKept ==
  /\ \A c \in ClientIds : clients[c] \in ClientRows \cup {None}
  /\ \A c \in ClientIds : clients[c] = None => Active(c) = {}
  /\ \A a \in Admins :
       /\ admin[a].pc \in {"secret", "insert", "update"} => clients[admin[a].client] # None
       /\ admin[a].pc = "update" => admin[a].patch \in Patches

(* Requests that will insert a secret of the client and have passed all their
   checks. *)
Inserting(c) ==
  {a \in Admins : admin[a].pc \in {"secret", "insert"} /\ admin[a].client = c}

(* By how much the cap can be exceeded: by one for every request beyond the
   first that can be under way. *)
SecretsBounded ==
  \A c \in ClientIds :
    Cardinality(Active(c)) + Cardinality(Inserting(c))
      <= MaxActive + Cardinality(Admins) - 1

BInv == IInv /\ RowsKept /\ SecretsBounded

Bound == MaxActive + Cardinality(Admins) - 1

(* Sets whose cardinalities the bound adds up. *)
LEMMA Counted ==
  ASSUME StoreTypes, NEW c
  PROVE  /\ IsFiniteSet(Active(c)) /\ IsFiniteSet(Inserting(c))
         /\ Cardinality(Active(c)) \in Nat
         /\ Cardinality(Inserting(c)) \in Nat
         /\ Cardinality(Inserting(c)) <= Cardinality(Admins)
         /\ Cardinality(Admins) \in Nat \ {0}
         /\ Bound \in Nat
<1>1. IsFiniteSet(Admins) /\ Admins # {} /\ Inserting(c) \subseteq Admins
  BY ClientStoreAssumption DEF Inserting
<1>2. IsFiniteSet(Inserting(c)) /\ Cardinality(Inserting(c)) <= Cardinality(Admins)
  BY <1>1, FS_Subset
<1>3. IsFiniteSet(Active(c))
  BY ActiveFinite
<1>4. Cardinality(Admins) \in Nat /\ Cardinality(Admins) # 0
  BY <1>1, FS_CardinalityType, FS_EmptySet
<1>5. Cardinality(Active(c)) \in Nat /\ Cardinality(Inserting(c)) \in Nat
  BY <1>2, <1>3, FS_CardinalityType
<1>6. Bound \in Nat
  BY <1>4, ClientStoreAssumption DEF Bound
<1> QED BY <1>2, <1>3, <1>4, <1>5, <1>6

(* Fewer active secrets and fewer insertions to come: the bound stays. *)
LEMMA Fewer ==
  ASSUME StoreTypes, SecretsBounded, NEW c \in ClientIds,
         NEW A, NEW I, A \subseteq Active(c), I \subseteq Inserting(c)
  PROVE  Cardinality(A) + Cardinality(I) <= Bound
<1>1. Cardinality(Active(c)) + Cardinality(Inserting(c)) <= Bound
  BY DEF SecretsBounded, Bound
<1>2. /\ Cardinality(A) <= Cardinality(Active(c)) /\ IsFiniteSet(A)
      /\ Cardinality(I) <= Cardinality(Inserting(c)) /\ IsFiniteSet(I)
  BY Counted, FS_Subset
<1>3. Cardinality(A) \in Nat /\ Cardinality(I) \in Nat
  BY <1>2, FS_CardinalityType
<1> QED BY <1>1, <1>2, <1>3, Counted

(* Room for one more: whoever else is about to insert, the bound holds. *)
LEMMA RoomForOne ==
  ASSUME StoreTypes, NEW c, Cardinality(Active(c)) < MaxActive, NEW I, I \subseteq Admins
  PROVE  Cardinality(Active(c)) + Cardinality(I) <= Bound
<1>1. IsFiniteSet(I) /\ Cardinality(I) <= Cardinality(Admins)
  BY ClientStoreAssumption, FS_Subset
<1>2. Cardinality(I) \in Nat
  BY <1>1, FS_CardinalityType
<1> QED BY <1>1, <1>2, Counted, ClientStoreAssumption DEF Bound

LEMMA InitBInv == StoreInit => BInv
<1> SUFFICES ASSUME StoreInit PROVE BInv
  OBVIOUS
<1>1. IInv
  BY InitIInv
<1>2. PICK k \in 0 .. MaxActive :
        secrets \in [1 .. k -> [client : {c \in ClientIds : clients[c] # None}, revoked : {FALSE}]]
  BY DEF StoreInit
<1>3. \A a \in Admins : admin[a].pc = "idle"
  BY DEF StoreInit, Idle
<1>4. \A c \in ClientIds : clients[c] \in ClientRows \cup {None}
  BY DEF StoreInit, ClientRows
<1>5. \A c : Active(c) \subseteq 1 .. k /\ (clients[c] = None => Active(c) = {})
  BY <1>2 DEF Active
<1>6. RowsKept
  BY <1>3, <1>4, <1>5 DEF RowsKept
<1>7. ASSUME NEW c \in ClientIds
      PROVE  Cardinality(Active(c)) + Cardinality(Inserting(c)) <= Bound
  <2>1. Inserting(c) = {}
    BY <1>3 DEF Inserting
  <2>2. k \in Nat /\ MaxActive \in Nat /\ k <= MaxActive
    BY <1>2, ClientStoreAssumption
  <2>3. IsFiniteSet(1 .. k) /\ Cardinality(1 .. k) = k
    BY <2>2, FS_Interval
  <2>4. Cardinality(Active(c)) <= k
    BY <1>5, <2>3, FS_Subset
  <2>5. Cardinality(Inserting(c)) = 0
    BY <2>1, FS_EmptySet
  <2> QED BY <1>1, <2>2, <2>4, <2>5, Counted DEF IInv, Bound
<1> QED BY <1>1, <1>6, <1>7 DEF BInv, SecretsBounded, Bound

(* A step after which no client has more secrets, or more to come. *)
LEMMA FewerStep ==
  ASSUME BInv, IInv',
         \A c \in ClientIds : Active(c)' \subseteq Active(c) /\ Inserting(c)' \subseteq Inserting(c)
  PROVE  SecretsBounded'
<1>1. \A c \in ClientIds : Cardinality(Active(c)') + Cardinality(Inserting(c)') <= Bound
  BY Fewer DEF BInv, IInv
<1> QED BY <1>1 DEF SecretsBounded, Bound

(* The request of a turns into q; no secret is written.  Where q is about to
   insert one, there was room for it. *)
LEMMA BoundKept ==
  ASSUME BInv, IInv', NEW a \in Admins, NEW q,
         admin' = [admin EXCEPT ![a] = q],
         UNCHANGED secrets,
         q.pc \in {"secret", "insert"} => Cardinality(Active(q.client)) < MaxActive
  PROVE  SecretsBounded'
<1>1. \A b \in Admins : admin'[b] = IF b = a THEN q ELSE admin[b]
  BY DEF BInv, IInv, StoreTypes
<1>2. \A c : Active(c)' = Active(c)
  BY DEF Active
<1>3. ASSUME NEW c \in ClientIds
      PROVE  Cardinality(Active(c)') + Cardinality(Inserting(c)') <= Bound
  <2>1. CASE q.pc \in {"secret", "insert"} /\ q.client = c
    <3>1. Inserting(c)' \subseteq Admins
      BY DEF Inserting
    <3> QED BY <1>2, <2>1, <3>1, RoomForOne DEF BInv, IInv
  <2>2. CASE ~ (q.pc \in {"secret", "insert"} /\ q.client = c)
    <3>1. Inserting(c)' \subseteq Inserting(c)
      BY <1>1, <2>2 DEF Inserting
    <3> QED BY <1>2, <3>1, Fewer DEF BInv, IInv
  <2> QED BY <2>1, <2>2
<1> QED BY <1>3 DEF SecretsBounded, Bound

(* A request that starts, ends or goes on, with the rows left alone. *)
LEMMA RowsKeptStep ==
  ASSUME BInv, NEW a \in Admins, NEW q,
         admin' = [admin EXCEPT ![a] = q],
         UNCHANGED secrets,
         \A c \in ClientIds : clients'[c] \in ClientRows \cup {None},
         \A c \in ClientIds : clients'[c] = None => clients[c] = None,
         q.pc \in {"secret", "insert", "update"} =>
           q.client \in ClientIds /\ clients'[q.client] # None,
         q.pc = "update" => q.patch \in Patches
  PROVE  RowsKept'
<1>1. \A b \in Admins : admin'[b] = IF b = a THEN q ELSE admin[b]
  BY DEF BInv, IInv, StoreTypes
<1>2. \A c : Active(c)' = Active(c)
  BY DEF Active
<1>3. \A b \in Admins : admin[b].pc \in {"secret", "insert", "update"} =>
        admin[b].client \in ClientIds /\ clients[admin[b].client] # None
  BY DEF BInv, IInv, StoreTypes, Carries, RowsKept
<1>4. ASSUME NEW b \in Admins
      PROVE  /\ admin'[b].pc \in {"secret", "insert", "update"} => clients'[admin'[b].client] # None
             /\ admin'[b].pc = "update" => admin'[b].patch \in Patches
  BY <1>1, <1>3 DEF BInv, RowsKept
<1>5. \A c \in ClientIds : clients'[c] = None => Active(c)' = {}
  BY <1>2 DEF BInv, RowsKept
<1> QED BY <1>4, <1>5 DEF RowsKept

(* A secret is inserted: what was to come has come. *)
LEMMA InsertKeepsBound ==
  ASSUME BInv, IInv', NEW a \in Admins, admin[a].client \in ClientIds,
         admin[a].pc \in {"secret", "insert"}, InsertSecret(a, admin[a].client)
  PROVE  BInv'
<1>c. PICK c \in ClientIds : c = admin[a].client
  OBVIOUS
<1> DEFINE new == Len(secrets) + 1
<1>0. /\ secrets' = Append(secrets, [client |-> c, revoked |-> FALSE])
      /\ admin' = [admin EXCEPT ![a] = Idle] /\ clients' = clients
  BY <1>c DEF InsertSecret, End
<1>1. \A b \in Admins : admin'[b] = IF b = a THEN Idle ELSE admin[b]
  BY <1>0 DEF BInv, IInv, StoreTypes
<1>2. secrets \in Seq(Secret) /\ [client |-> c, revoked |-> FALSE] \in Secret
  BY DEF Secret, BInv, IInv, StoreTypes
<1>3. /\ DOMAIN secrets' = DOMAIN secrets \cup {new}
      /\ new \notin DOMAIN secrets
      /\ \A n \in DOMAIN secrets : secrets'[n] = secrets[n]
      /\ secrets'[new] = [client |-> c, revoked |-> FALSE]
  BY <1>0, <1>2
<1> HIDE DEF new
<1>4. Active(c)' = Active(c) \cup {new} /\ new \notin Active(c)
  BY <1>3 DEF Active
<1>5. \A d : d # c => Active(d)' = Active(d)
  BY <1>3 DEF Active
<1>6. Inserting(c)' = Inserting(c) \ {a} /\ a \in Inserting(c)
  BY <1>c, <1>1 DEF Inserting, Idle
<1>7. \A d : d # c => Inserting(d)' = Inserting(d)
  BY <1>c, <1>1 DEF Inserting, Idle
<1>8. ASSUME NEW d \in ClientIds
      PROVE  Cardinality(Active(d)') + Cardinality(Inserting(d)') <= Bound
  <2>1. CASE d = c
    <3>1. Cardinality(Active(c)') = Cardinality(Active(c)) + 1
      BY <1>4, Counted, FS_AddElement DEF BInv, IInv
    <3>2. Cardinality(Inserting(c)') = Cardinality(Inserting(c)) - 1
      BY <1>6, Counted, FS_RemoveElement DEF BInv, IInv
    <3>3. Cardinality(Active(c)) + Cardinality(Inserting(c)) <= Bound
      BY DEF BInv, SecretsBounded, Bound
    <3> QED BY <2>1, <3>1, <3>2, <3>3, Counted DEF BInv, IInv
  <2>2. CASE d # c
    BY <1>5, <1>7, <2>2, Fewer DEF BInv, IInv
  <2> QED BY <2>1, <2>2
<1>9. RowsKept'
  <2>1. clients[c] # None
    BY <1>c DEF BInv, RowsKept
  <2>2. \A d \in ClientIds : clients'[d] = None => Active(d)' = {}
    BY <1>0, <1>5, <2>1 DEF BInv, RowsKept
  <2> QED BY <1>0, <1>1, <2>2 DEF BInv, RowsKept, Idle
<1> QED BY <1>8, <1>9 DEF BInv, SecretsBounded, Bound

LEMMA RevokeKeepsBound ==
  ASSUME BInv, IInv', NEW a \in Admins, CommitRevoke(a)
  PROVE  BInv'
<1>r. admin[a] \in [pc : {"revoke"}, client : ClientIds, secret : DOMAIN secrets,
                    sole : BOOLEAN]
  BY DEF BInv, IInv, StoreTypes, Carries, CommitRevoke
<1>k. PICK k \in DOMAIN secrets : k = admin[a].secret
  BY <1>r
<1>1. /\ secrets' = [secrets EXCEPT ![k].revoked = TRUE]
      /\ secrets \in Seq(Secret)
      /\ UNCHANGED clients
  BY <1>k DEF CommitRevoke, BInv, IInv, StoreTypes
<1>2. /\ DOMAIN secrets' = DOMAIN secrets
      /\ \A n \in DOMAIN secrets : n # k => secrets'[n] = secrets[n]
      /\ secrets'[k].revoked = TRUE
  <2> DEFINE revoked == [secrets[k] EXCEPT !.revoked = TRUE]
  <2>1. secrets[k] \in Secret
    BY <1>1
  <2>2. revoked.revoked = TRUE
    BY <2>1 DEF Secret
  <2>3. secrets' = [secrets EXCEPT ![k] = revoked]
    BY <1>1
  <2> HIDE DEF revoked
  <2> QED BY <1>1, <2>2, <2>3
<1>3. \A c : Active(c)' \subseteq Active(c)
  BY <1>2 DEF Active
<1>4. ASSUME NEW b \in Admins, admin'[b].pc \in {"secret", "insert", "update"}
      PROVE  admin'[b] = admin[b]
  <2>1. CASE b = a
    BY <1>4, <2>1 DEF CommitRevoke, Idle
  <2>2. CASE admin[b].pc = "revoke" /\ admin'[b] = [admin[b] EXCEPT !.sole = FALSE]
    BY <1>4, <2>2 DEF BInv, IInv, StoreTypes, Carries
  <2> QED BY <2>1, <2>2 DEF CommitRevoke
<1>5. \A c : Inserting(c)' \subseteq Inserting(c)
  BY <1>4 DEF Inserting
<1>6. RowsKept'
  BY <1>1, <1>3, <1>4 DEF BInv, RowsKept
<1> QED BY <1>3, <1>5, <1>6, FewerStep DEF BInv

(* The request of a goes on as q, or ends; no secret is written. *)
LEMMA RequestStep ==
  ASSUME BInv, IInv', NEW a \in Admins, NEW q,
         admin' = [admin EXCEPT ![a] = q],
         UNCHANGED secrets,
         \A c \in ClientIds : clients'[c] \in ClientRows \cup {None},
         \A c \in ClientIds : clients'[c] = None => clients[c] = None,
         q.pc \in {"secret", "insert"} => Cardinality(Active(q.client)) < MaxActive,
         q.pc \in {"secret", "insert", "update"} =>
           q.client \in ClientIds /\ clients'[q.client] # None,
         q.pc = "update" => q.patch \in Patches
  PROVE  BInv'
BY BoundKept, RowsKeptStep DEF BInv

(* One that ends. *)
LEMMA EndKeepsBound ==
  ASSUME BInv, IInv', NEW a \in Admins, End(a), UNCHANGED secrets,
         \A c \in ClientIds : clients'[c] \in ClientRows \cup {None},
         \A c \in ClientIds : clients'[c] = None => clients[c] = None
  PROVE  BInv'
<1>1. Idle.pc = "idle"
  BY DEF Idle
<1> QED BY <1>1, RequestStep DEF End

LEMMA StoreKeepsBound == BInv /\ StoreNext => BInv'
<1> SUFFICES ASSUME BInv, StoreNext PROVE BInv'
  OBVIOUS
<1>i. IInv'
  BY StoreStep DEF BInv
<1>0. PICK a \in Admins :
        \/ \E c \in ClientIds :
             \/ \E scopes \in ScopeSets : Create(a, c, scopes)
             \/ \E patch \in Patches : Update(a, c, patch)
             \/ AddSecret(a, c)
             \/ \E n \in DOMAIN secrets : Revoke(a, c, n)
        \/ AdminStep(a)
        \/ Die(a)
  BY DEF StoreNext
<1>r. \A c \in ClientIds : clients[c] \in ClientRows \cup {None}
  BY DEF BInv, RowsKept
<1>1. ASSUME NEW c \in ClientIds, NEW scopes \in ScopeSets, Create(a, c, scopes) PROVE BInv'
  <2> DEFINE q == [pc |-> "client", client |-> c, scopes |-> scopes]
  <2>1. admin' = [admin EXCEPT ![a] = q] /\ q.pc = "client"
    BY <1>1 DEF Create, Begin
  <2> QED BY <1>1, <1>i, <1>r, <2>1, RequestStep DEF Create
<1>2. ASSUME NEW c \in ClientIds, NEW patch \in Patches, Update(a, c, patch) PROVE BInv'
  <2> DEFINE q == [pc |-> "update", client |-> c, patch |-> patch, loaded |-> clients[c]]
  <2>1. admin' = [admin EXCEPT ![a] = q] /\ q.pc = "update" /\ q.client = c /\ q.patch = patch
    BY <1>2 DEF Update, Begin
  <2> HIDE DEF q
  <2> QED BY <1>2, <1>i, <1>r, <2>1, RequestStep DEF Update
<1>3. ASSUME NEW c \in ClientIds, AddSecret(a, c) PROVE BInv'
  <2> DEFINE q == [pc |-> "insert", client |-> c]
  <2>1. admin' = [admin EXCEPT ![a] = q] /\ q.pc = "insert" /\ q.client = c
    BY <1>3 DEF AddSecret, Begin
  <2> HIDE DEF q
  <2> QED BY <1>3, <1>i, <1>r, <2>1, RequestStep DEF AddSecret
<1>4. ASSUME NEW c \in ClientIds, NEW n \in DOMAIN secrets, Revoke(a, c, n) PROVE BInv'
  <2> DEFINE q == [pc |-> "check", client |-> c, secret |-> n, status |-> clients[c].status]
  <2>1. admin' = [admin EXCEPT ![a] = q] /\ q.pc = "check"
    BY <1>4 DEF Revoke, Begin
  <2> HIDE DEF q
  <2> QED BY <1>4, <1>i, <1>r, <2>1, RequestStep DEF Revoke
<1>5. CASE CommitClient(a)
  <2>1. admin[a] \in [pc : {"client"}, client : ClientIds, scopes : ScopeSets]
    BY <1>5 DEF CommitClient, BInv, IInv, StoreTypes, Carries
  <2>2. UNCHANGED secrets /\ DOMAIN clients = ClientIds
    BY <1>5 DEF CommitClient, BInv, IInv, StoreTypes
  <2>3. CASE End(a) /\ UNCHANGED clients
    BY <1>i, <1>r, <2>2, <2>3, EndKeepsBound
  <2>4. CASE /\ clients[admin[a].client] = None
             /\ clients' = [clients EXCEPT ![admin[a].client] =
                             [status |-> "active", scopes |-> admin[a].scopes]]
             /\ admin' = [admin EXCEPT ![a].pc = "secret"]
    <3> DEFINE q == [admin[a] EXCEPT !.pc = "secret"]
               row == [status |-> "active", scopes |-> admin[a].scopes]
    <3>1. q.pc = "secret" /\ q.client = admin[a].client /\ q.client \in ClientIds
      BY <2>1
    <3>2. admin' = [admin EXCEPT ![a] = q]
      BY <2>4
    <3>3. row \in ClientRows
      BY <2>1 DEF ClientRows, Statuses
    <3>4. row # None
      BY <3>3, ClientStoreAssumption
    <3>5. clients' = [clients EXCEPT ![q.client] = row]
      BY <2>4, <3>1
    <3>6. Active(q.client) = {}
      BY <2>4, <3>1 DEF BInv, RowsKept
    <3>7. Cardinality(Active(q.client)) < MaxActive
      BY <3>6, FS_EmptySet, ClientStoreAssumption
    <3> HIDE DEF q, row
    <3>8. \A d \in ClientIds : clients'[d] = IF d = q.client THEN row ELSE clients[d]
      BY <2>2, <3>5
    <3>9. clients'[q.client] # None
      BY <3>1, <3>4, <3>8
    <3> QED BY <1>i, <1>r, <2>2, <3>1, <3>2, <3>3, <3>4, <3>7, <3>8, <3>9, RequestStep
  <2> QED BY <1>5, <2>3, <2>4 DEF CommitClient
<1>6. CASE CommitFirstSecret(a)
  BY <1>6, <1>i, InsertKeepsBound DEF CommitFirstSecret, BInv, IInv, StoreTypes, Carries
<1>7. CASE CommitUpdate(a)
  <2> DEFINE c == admin[a].client
             value(col) == IF admin[a].patch[col] \notin {None, admin[a].loaded[col]}
                           THEN admin[a].patch[col] ELSE clients[c][col]
             row == [status |-> value("status"), scopes |-> value("scopes")]
  <2>1. /\ c \in ClientIds /\ clients[c] # None /\ admin[a].patch \in Patches
        /\ DOMAIN clients = ClientIds
    BY <1>7 DEF CommitUpdate, BInv, IInv, StoreTypes, Carries, RowsKept
  <2>2. clients[c] \in ClientRows
    BY <1>r, <2>1
  <2>3. value("status") \in Statuses /\ value("scopes") \in ScopeSets \cup {{"check"}}
    BY <2>1, <2>2 DEF Patches, ClientRows
  <2> HIDE DEF value
  <2>4. row \in ClientRows
    BY <2>3 DEF ClientRows
  <2>5. row # None
    BY <2>4, ClientStoreAssumption
  <2>6. clients' = [clients EXCEPT ![c] = row] \/ clients' = clients
    BY <1>7 DEF CommitUpdate, value
  <2> HIDE DEF row
  <2>7. \A d \in ClientIds : clients'[d] = clients[d] \/ (d = c /\ clients'[d] = row)
    BY <2>1, <2>6
  <2>8. End(a)
    BY <1>7 DEF CommitUpdate
  <2>9. UNCHANGED secrets
    BY <1>7 DEF CommitUpdate
  <2>10. \A d \in ClientIds : clients'[d] \in ClientRows \cup {None}
    BY ONLY <1>r, <2>4, <2>7
  <2>11. \A d \in ClientIds : clients'[d] = None => clients[d] = None
    BY ONLY <2>5, <2>7
  <2> QED BY <1>i, <2>8, <2>9, <2>10, <2>11, EndKeepsBound
<1>8. CASE CommitSecret(a)
  BY <1>8, <1>i, InsertKeepsBound DEF CommitSecret, BInv, IInv, StoreTypes, Carries
<1>9. CASE CheckRevoke(a)
  <2>1. CASE ~ MayRevoke(a)
    BY <1>9, <1>i, <1>r, <2>1, EndKeepsBound DEF CheckRevoke
  <2>2. CASE MayRevoke(a)
    <3> DEFINE q == [pc |-> "revoke", client |-> admin[a].client, secret |-> admin[a].secret,
                     sole |-> admin[a].status = "active"]
    <3>1. admin' = [admin EXCEPT ![a] = q] /\ q.pc = "revoke"
      BY <1>9, <2>2 DEF CheckRevoke
    <3> HIDE DEF q
    <3> QED BY <1>9, <1>i, <1>r, <3>1, RequestStep DEF CheckRevoke
  <2> QED BY <2>1, <2>2
<1>10. CASE CommitRevoke(a)
  BY <1>10, <1>i, RevokeKeepsBound
<1>11. CASE Die(a)
  BY <1>11, <1>i, <1>r, EndKeepsBound DEF Die
<1> QED BY <1>0, <1>1, <1>2, <1>3, <1>4, <1>5, <1>6, <1>7, <1>8, <1>9, <1>10, <1>11 DEF AdminStep

LEMMA NextKeepsBInv == BInv /\ [Next]_vars => BInv'
<1> SUFFICES ASSUME BInv, [Next]_vars PROVE BInv'
  OBVIOUS
<1>i. IInv'
  BY NextKeepsIInv DEF BInv
<1>1. StoreNext \/ UNCHANGED storeVars
  BY DEF Next, vars, ChangeStore, Login, IssueToken, ExpireToken, PollFetch, PollLoad,
         PollFails, Crash
<1>2. CASE UNCHANGED storeVars
  <2>1. \A c : Active(c)' = Active(c) /\ Inserting(c)' = Inserting(c)
    BY <1>2 DEF storeVars, Active, Inserting
  <2>2. SecretsBounded'
    BY <1>i, <2>1, FewerStep
  <2>3. RowsKept'
    BY <1>2, <2>1 DEF storeVars, BInv, RowsKept
  <2> QED BY <1>i, <2>2, <2>3 DEF BInv
<1> QED BY <1>1, <1>2, StoreKeepsBound

(* SecretCapHolds fails when calls of add_secret (client_service.py:84-98)
   overlap; this is by how much it can, for every cap and any number of
   requests at the same time: by one secret for every request beyond the
   first. *)
THEOREM SecretsCapped == Spec => []SecretsBounded
<1>1. Init => BInv
  BY InitBInv DEF Init
<1>2. BInv => SecretsBounded
  BY DEF BInv
<1> QED BY <1>1, <1>2, NextKeepsBInv, PTL DEF Spec

-----------------------------------------------------------------------------

(* The lifetime of a token, for every TTL, leeway and skew of the clocks that
   TokensAssumption admits.  What is lost to int(time.time()) is less than a
   second; the leeway must make up for it and for the skew. *)

(* int() drops less than a second. *)
LEMMA WholeSecondsBounds ==
  ASSUME NEW clock \in Nat
  PROVE  /\ WholeSeconds(clock) \in Nat
         /\ WholeSeconds(clock) <= clock
         /\ clock < WholeSeconds(clock) + Second
<1>1. Second \in Nat \ {0}
  BY TokensAssumption
<1> DEFINE q == clock \div Second
<1>2. q \in Nat /\ q * Second <= clock /\ clock < (q + 1) * Second
  BY <1>1
<1>3. (q + 1) * Second = q * Second + Second /\ q * Second \in Nat
  BY <1>1, <1>2
<1> QED BY <1>2, <1>3 DEF WholeSeconds

(* core/security/tokens.py, issue against verify: a token verifies for its
   whole TTL on every instance that has its key, and nowhere after the TTL,
   the leeway and the skew have passed. *)
THEOREM TokensLive == TokenLifetime
<1> SUFFICES ASSUME NEW issuer \in Config, NEW verifier \in Config,
                    NEW issued \in Nat, NEW age \in Nat,
                    NEW ahead \in 0 .. MaxSkew, NEW verifierAhead \in 0 .. MaxSkew
             PROVE  LET token == Issue(issued + ahead, issuer)
                        ok == Verifies(token, issued + age + verifierAhead, verifier)
                    IN  /\ age < TTL /\ issuer.active \in verifier.keys => ok
                        /\ age >= TTL + Leeway + MaxSkew => ~ok
  BY DEF TokenLifetime
<1> DEFINE whole == WholeSeconds(issued + ahead)
           clock == issued + age + verifierAhead
<1>1. MaxSkew \in Nat /\ TTL \in Nat /\ Leeway \in Nat /\ Second \in Nat
      /\ MaxSkew + Second <= Leeway
  BY TokensAssumption
<1>2. ahead \in Nat /\ ahead <= MaxSkew /\ verifierAhead \in Nat /\ verifierAhead <= MaxSkew
  BY <1>1
<1>3. whole \in Nat /\ whole <= issued + ahead /\ issued + ahead < whole + Second
  BY <1>2, WholeSecondsBounds
<1> HIDE DEF whole
<1>4. ASSUME age < TTL
      PROVE  whole + TTL > clock - Leeway /\ whole <= clock + Leeway
  BY <1>1, <1>2, <1>3, <1>4
<1>5. ASSUME age >= TTL + Leeway + MaxSkew
      PROVE  ~ (whole + TTL > clock - Leeway)
  BY <1>1, <1>2, <1>3, <1>5
<1>6. LET token == Issue(issued + ahead, issuer)
      IN  token.kid = issuer.active /\ token.iat = whole /\ token.exp = whole + TTL
  BY DEF Issue, whole
<1> QED BY <1>4, <1>5, <1>6 DEF Verifies

=============================================================================
