---------------------------- MODULE NbAccessToken ----------------------------
(***************************************************************************)
(* The NbAccessToken controller:                                           *)
(* internal/controller/nbaccesstoken/nbaccesstoken.go under the managed    *)
(* reconciler.  A personal access token belongs to a NetBird user, whom    *)
(* the resource names by spec.forProvider.userName; every handler looks    *)
(* the user up again, and not all in the same way.                         *)
(*                                                                         *)
(* All users of this model have the name the resources ask for, and each   *)
(* resource has a token name of its own.  A single user that never leaves  *)
(* is the case of spec.forProvider.userId.  As in NbSetupKey, NetBird      *)
(* answers atomically and a failed call has no effect that comes later.    *)
(***************************************************************************)
EXTENDS ManagedReconciler, Naturals

CONSTANTS
  User,      \* the users of that name
  Service,   \* those that are service users
  Permanent, \* bound: users that are never deleted
  Rank,      \* Rank[u]: the place of u in NetBird's list of users
  Imported,  \* identifiers of tokens that exist before the first reconcile
  Reserve    \* identifiers kept back from the environment (bounds rotation)

ASSUME UsersAssumption ==
  /\ Service \subseteq User /\ Permanent \subseteq User
  /\ Rank \in [User -> Nat]
  /\ \A u, v \in User : Rank[u] = Rank[v] => u = v

ASSUME BoundsAssumption ==
  /\ Imported \subseteq Id
  /\ Reserve \in Nat

VARIABLES
  users,     \* the users that exist now
  tokens,    \* tokens[k]: the token with identifier k
  subject,   \* subject[m][r]: the user whose tokens the reconcile lists next
  secret     \* secret[m]: the token whose plain text m's connection secret holds

netbird == <<users, tokens>>
vars == <<runtimeVars, users, tokens, subject, secret>>

\* "of" is the resource whose token name this is.
Token == [state : {"unborn", "valid", "dead", "deleted"}, user : User, of : MR]

TypeOK ==
  /\ RuntimeTypeOK
  /\ users \in SUBSET User
  /\ tokens \in [Id -> Token]
  /\ subject \in [MR -> [Replica -> User]]
  /\ secret \in [MR -> ExtName]

Valid(k)  == tokens[k].state = "valid"
Listed(k) == tokens[k].state \in {"valid", "dead"}

\* Tokens.Get, List and Delete only see the tokens of the user they are given.
Under(k, u) == k \in Id /\ Listed(k) /\ tokens[k].user = u

Init ==
  \E born \in SUBSET Imported, m \in MR, u \in User :
    /\ \A j, k \in born : j = k
    /\ RuntimeInit(born)
    /\ users = User
    /\ tokens = [k \in Id |->
                   [state |-> IF k \in born THEN "valid" ELSE "unborn",
                    user |-> u, of |-> m]]
    /\ subject = [l \in MR |-> [r \in Replica |-> u]]
    /\ secret = [l \in MR |-> NoId]

-----------------------------------------------------------------------------
(* Users *)

First(S) == CHOOSE u \in S : \A v \in S : Rank[u] <= Rank[v]
Last(S)  == CHOOSE u \in S : \A v \in S : Rank[u] >= Rank[v]

\* Observe takes the first service user of the name.
Observed == First(users \cap Service)

\* getUserID, which Update calls, takes the first user of the name.
Rotated == First(users)

\* The loops in Create and Delete have no break: they end with the last one.
Chosen == Last(users)

-----------------------------------------------------------------------------
(* Observe *)

\* Mutant: the status identifier always wins.
LookupStatusFirst(cr) == IF cr.sid # NoId THEN cr.sid ELSE cr.ext

\* resolveAccessTokenLookupID: status.atProvider.id wins over a missing external
\* name and over one that is only a name.
Lookup(cr) ==
  IF \/ cr.ext = NoId
     \/ cr.sid # NoId /\ cr.sid # cr.ext /\ cr.ext \in {ObjName, DispName}
  THEN cr.sid
  ELSE cr.ext

IsId(e) == e \notin Hints

\* No service user of the name: the token counts as missing.
ObserveNoUser(m, r) ==
  /\ work[m][r].pc = "observe"
  /\ users \cap Service = {}
  /\ Go(m, r, [work[m][r] EXCEPT !.pc = "act", !.obs = "missing"])
  /\ UNCHANGED <<netbird, subject, secret>>

\* Tokens.Get finds the token, and it is valid.
ObserveValid(m, r) ==
  LET w == work[m][r]
      k == Lookup(w.cr)
  IN
  /\ w.pc = "observe"
  /\ users \cap Service # {}
  /\ Under(k, Observed) /\ Valid(k)
  /\ Go(m, r, [w EXCEPT !.pc = "act", !.obs = "uptodate", !.cr.ext = k, !.cr.sid = k])
  /\ UNCHANGED <<netbird, subject, secret>>

\* Mutant: rotation is never asked for.
ObserveDeadAsCurrent(m, r) ==
  LET w == work[m][r]
      k == Lookup(w.cr)
  IN
  /\ w.pc = "observe"
  /\ users \cap Service # {}
  /\ Under(k, Observed) /\ ~Valid(k)
  /\ Go(m, r, [w EXCEPT !.pc = "act", !.obs = "uptodate", !.cr.ext = k])
  /\ UNCHANGED <<netbird, subject, secret>>

\* It finds the token, and it has expired: the observation asks for Update.
ObserveDead(m, r) ==
  LET w == work[m][r]
      k == Lookup(w.cr)
  IN
  /\ w.pc = "observe"
  /\ users \cap Service # {}
  /\ Under(k, Observed) /\ ~Valid(k)
  /\ Go(m, r, [w EXCEPT !.pc = "act", !.obs = "outdated", !.cr.ext = k])
  /\ UNCHANGED <<netbird, subject, secret>>

\* It answers "not found": the tokens of the same user are listed next, even if
\* the user is gone by then.
ObserveNotFound(m, r) ==
  LET w == work[m][r] IN
  /\ w.pc = "observe"
  /\ users \cap Service # {}
  /\ IsId(Lookup(w.cr)) /\ ~Under(Lookup(w.cr), Observed)
  /\ Go(m, r, [w EXCEPT !.pc = "list"])
  /\ subject' = [subject EXCEPT ![m][r] = Observed]
  /\ UNCHANGED <<netbird, secret>>

\* Tokens.List is called after a "not found", or at once when there is no
\* identifier to look up.
Listing(m, r) ==
  \/ work[m][r].pc = "list"
  \/ /\ work[m][r].pc = "observe" /\ ~IsId(Lookup(work[m][r].cr))
     /\ users \cap Service # {}

Lister(m, r) == IF work[m][r].pc = "list" THEN subject[m][r] ELSE Observed

\* Mutant: expired tokens are not adopted, as with setup keys.
AdoptableIfValid(k, m, r) ==
  Under(k, Lister(m, r)) /\ tokens[k].of = m /\ Valid(k)

\* Any token of the name is adopted, expired or not.
Adoptable(k, m, r) == Under(k, Lister(m, r)) /\ tokens[k].of = m

\* Mutants: adoption asks for Update; it records the name for the identifier.
AdoptedOutdated(w, k) == [w EXCEPT !.pc = "act", !.obs = "outdated",
                                   !.cr.ext = k, !.cr.sid = k]

AdoptedByName(w, k) == [w EXCEPT !.pc = "act", !.obs = "uptodate",
                                 !.cr.ext = DispName, !.cr.sid = DispName]

\* An adopted token is up to date, and its identifier is recorded.
Adopted(w, k) == [w EXCEPT !.pc = "act", !.obs = "uptodate",
                           !.cr.ext = k, !.cr.sid = k]

Adopt(m, r) ==
  /\ Listing(m, r)
  /\ \E k \in Id : Adoptable(k, m, r) /\ Go(m, r, Adopted(work[m][r], k))
  /\ UNCHANGED <<netbird, subject, secret>>

\* Mutant: a failing list passes for an empty one.
ObserveMissingUnlisted(m, r) ==
  /\ Listing(m, r)
  /\ Go(m, r, [work[m][r] EXCEPT !.pc = "act", !.obs = "missing"])
  /\ UNCHANGED <<netbird, subject, secret>>

\* The list of an existing user is empty: there is no token.
ObserveMissing(m, r) ==
  /\ Listing(m, r)
  /\ Lister(m, r) \in users
  /\ \A k \in Id : ~Adoptable(k, m, r)
  /\ Go(m, r, [work[m][r] EXCEPT !.pc = "act", !.obs = "missing"])
  /\ UNCHANGED <<netbird, subject, secret>>

-----------------------------------------------------------------------------
(* Create, Update, Delete *)

\* Tokens.Create mints a token for the last user of the name, if there is any;
\* "heard" is false when the reply is lost.
Create(m, r, heard) ==
  LET w == work[m][r] IN
  /\ w.pc = "create"
  /\ users # {}
  /\ \E k \in Id :
       /\ tokens[k].state = "unborn"
       /\ tokens' = [tokens EXCEPT ![k] = [state |-> "valid", user |-> Chosen, of |-> m]]
       /\ Go(m, r, IF heard
                     THEN [w EXCEPT !.pc = "annotate", !.cr.ext = k,
                                    !.cr.create = "succeeded"]
                     ELSE [w EXCEPT !.pc = "annotate", !.cr.create = "failed"])
  /\ UNCHANGED <<users, subject, secret>>

\* The plain text Create returned goes to the connection secret.
Publish(m, r) ==
  LET w == work[m][r] IN
  /\ w.pc = "publish"
  /\ secret' = [secret EXCEPT ![m] = w.cr.ext]
  /\ Go(m, r, Close(w))
  /\ UNCHANGED <<netbird, subject>>

\* Update deletes the expired token, if the first user of the name has it, and
\* clears the identity in memory.
Update(m, r, heard) ==
  LET w == work[m][r]
      k == Lookup(w.cr)
  IN
  /\ w.pc = "update"
  /\ users # {} /\ Under(k, Rotated)
  /\ tokens' = [tokens EXCEPT ![k].state = "deleted"]
  /\ Go(m, r, Close(IF heard THEN [w EXCEPT !.cr.ext = NoId, !.cr.sid = NoId] ELSE w))
  /\ UNCHANGED <<users, subject, secret>>

\* Mutant: Delete does nothing.
DeleteNothing(m, r) ==
  LET w == work[m][r] IN
  /\ w.pc = "act"
  /\ w.cr.phase = "deleting"
  /\ w.obs # "missing"
  /\ Go(m, r, Close(w))
  /\ UNCHANGED <<netbird, subject, secret>>

\* Delete removes the token if the last user of the name has it; otherwise, as
\* when NetBird no longer knows the token, it fails.
Delete(m, r) ==
  LET w == work[m][r]
      k == Lookup(w.cr)
  IN
  /\ w.pc = "act"
  /\ w.cr.phase = "deleting"
  /\ w.obs # "missing"
  /\ users # {} /\ Under(k, Chosen)
  /\ tokens' = [tokens EXCEPT ![k].state = "deleted"]
  /\ Go(m, r, Close(w))
  /\ UNCHANGED <<users, subject, secret>>

\* The connection secret is deleted before the finalizer; that write may fail.
Dispose(m, r) ==
  /\ Release(m, r)
  /\ secret' = [secret EXCEPT ![m] = NoId]
  /\ UNCHANGED <<netbird, subject>>

UnpublishOnly(m, r) ==
  LET w == work[m][r] IN
  /\ w.pc = "act"
  /\ w.cr.phase = "deleting"
  /\ w.obs = "missing"
  /\ secret' = [secret EXCEPT ![m] = NoId]
  /\ StepFails(m, r)
  /\ UNCHANGED <<netbird, subject>>

-----------------------------------------------------------------------------
(* The rest of the world *)

\* Deaths are bounded: Reserve identifiers stay available to Create.
Spare == Cardinality({k \in Id : tokens[k].state = "unborn"}) >= Reserve

Expire(k) ==
  /\ Valid(k) /\ Spare
  /\ tokens' = [tokens EXCEPT ![k].state = "dead"]
  /\ UNCHANGED <<runtimeVars, users, subject, secret>>

Vanish(k) ==
  /\ Listed(k) /\ Spare
  /\ tokens' = [tokens EXCEPT ![k].state = "deleted"]
  /\ UNCHANGED <<runtimeVars, users, subject, secret>>

\* A user is deleted, and its tokens with it.
Leave(u) ==
  /\ u \in users \ Permanent /\ Spare
  /\ users' = users \ {u}
  /\ tokens' = [k \in Id |-> IF Under(k, u) THEN [tokens[k] EXCEPT !.state = "deleted"]
                                            ELSE tokens[k]]
  /\ UNCHANGED <<runtimeVars, subject, secret>>

\* Deleting an object without a finalizer takes its connection secret along.
UserDeletes(m) ==
  /\ RequestDelete(m)
  /\ secret' = IF mr[m].fin THEN secret ELSE [secret EXCEPT ![m] = NoId]
  /\ UNCHANGED <<netbird, subject>>

-----------------------------------------------------------------------------
(* Specification *)

others == <<netbird, subject, secret>>

HandlerStep(m, r) ==
  \/ ObserveNoUser(m, r) \/ ObserveValid(m, r) \/ ObserveDead(m, r)
  \/ ObserveNotFound(m, r) \/ Adopt(m, r) \/ ObserveMissing(m, r)
  \/ \E heard \in BOOLEAN : Create(m, r, heard) \/ Update(m, r, heard)
  \/ Publish(m, r) \/ Delete(m, r) \/ Dispose(m, r) \/ UnpublishOnly(m, r)

Next ==
  \/ \E m \in MR, r \in Replica :
       \/ RuntimeStep(m, r) /\ UNCHANGED others
       \/ HandlerStep(m, r)
  \/ \E m \in MR : UserDeletes(m)
  \/ \E m \in MR : ClearPending(m) /\ UNCHANGED others
  \/ \E k \in Id : Expire(k) \/ Vanish(k)
  \/ \E u \in User : Leave(u)

Spec == Init /\ [][Next]_vars

\* A step that goes as the code means it to, or gives up because the object has
\* moved on, the token it found has vanished or its user has.
Working(m, r) ==
  LET w == work[m][r]
      vanished == /\ w.obs # "missing"
                  /\ \/ users = {}
                     \/ w.pc = "act" /\ ~Under(Lookup(w.cr), Chosen)
                     \/ w.pc = "update" /\ ~Under(Lookup(w.cr), Rotated)
  IN
  \/ EnsureFinalizer(m, r) \/ Annotate(m, r) \/ ReportStatus(m, r) \/ Delete(m, r)
  \/ StepFails(m, r) /\ (w.stale \/ (w.pc \in {"act", "update"} /\ vanished)
                                 \/ (w.pc = "list" /\ subject[m][r] \notin users))
  \/ CreateRefused(m, r) /\ users = {}
  \/ Update(m, r, TRUE)

\* Any other step that loses a reply, fails or stops half-way; or does not count
\* the token of a recent create as lost yet.
Fault(m, r) ==
  /\ \/ Breakdown(m, r)
     \/ Create(m, r, FALSE) \/ Update(m, r, FALSE)
     \/ UnpublishOnly(m, r) /\ ~work[m][r].stale
  /\ ~Working(m, r)

\* As in NbSetupKey: every call returns, the watch delivers, objects come back,
\* and the faults end at some point.
Fairness ==
  /\ \A m \in MR, r \in Replica :
       /\ WF_vars(\/ RuntimeStep(m, r) /\ work'[m][r] # work[m][r] /\ UNCHANGED others
                  \/ HandlerStep(m, r))
       /\ WF_vars(SyncCache(m, r) /\ UNCHANGED others)
  /\ <>[][\A m \in MR, r \in Replica : ~Fault(m, r)]_vars

LiveSpec == Spec /\ Fairness

-----------------------------------------------------------------------------
(* Properties *)

\* nbaccesstoken.go:177-181: a create whose external name was never persisted
\* does not mint a duplicate.  No resource ever has two tokens in the account,
\* expired ones included.
AtMostOneToken ==
  \A m \in MR : \A j, k \in Id :
    Listed(j) /\ Listed(k) /\ tokens[j].of = m /\ tokens[k].of = m => j = k

\* nbaccesstoken.go:214-218: deletion by Update stays reserved for the expired
\* path.  A handler destroys a valid token only on behalf of a deleted resource.
ValidTokenDiesOnlyWithItsResource ==
  [][ \A m \in MR, r \in Replica :
        work'[m][r] # work[m][r] /\ mr[m].phase = "live"
          => \A k \in Id : Valid(k) => tokens'[k].state # "deleted" ]_vars

\* A deleted resource is let go only when it has no token left.
ReleasedWithoutToken ==
  [][ \A m \in MR :
        mr[m].phase = "deleting" /\ mr'[m].phase = "gone"
          => \A k \in Id : ~(Listed(k) /\ tokens[k].of = m) ]_vars

\* While the token in the connection secret can be used, the persisted identity
\* resolves to it.
SecretMatchesIdentity ==
  \A m \in MR :
    mr[m].phase = "live" /\ secret[m] # NoId /\ Valid(secret[m])
      => Lookup(mr[m]) = secret[m]

Expired(k) == k \in Id /\ tokens[k].state = "dead"

\* An expired token the persisted identity resolves to is removed, unless a
\* create whose outcome was lost waits for the operator.
ExpiredTokenRemoved ==
  \A m \in MR, k \in Id :
    mr[m].phase = "live" /\ Lookup(mr[m]) = k /\ Expired(k)
      ~> ~Expired(k) \/ mr[m].phase # "live" \/ Unresolved(m)

\* A deleted resource disappears, with the same exception.
DeletionCompletes ==
  \A m \in MR :
    mr[m].phase = "deleting" ~> (mr[m].phase = "gone" \/ Unresolved(m))

-----------------------------------------------------------------------------
(* The inductive invariant behind the safety properties *)

\* One service user has the name, and nobody else (token_users shows what happens
\* otherwise); or spec.forProvider.userId is given.
SameUser == \E u \in User : User = {u} /\ Service = {u}

NoToken(m) == \A k \in Id : ~(Listed(k) /\ tokens[k].of = m)

\* NetBird keeps no tokens of users it has deleted.
TokensHaveUsers == \A k \in Id : Listed(k) => tokens[k].user \in users

\* Deletion is never seen before it is requested.
DeletionIsReal ==
  \A m \in MR, r \in Replica :
    /\ cache[m][r].phase # "live" => mr[m].phase # "live"
    /\ work[m][r].cr.phase # "live" => mr[m].phase # "live"

\* A worker about to rotate holds the identifier of a token that is no longer valid,
\* for good.
OutdatedIsDead ==
  \A m \in MR, r \in Replica :
    LET w == work[m][r] IN
    /\ w.pc = "update" => w.obs = "outdated"
    /\ w.obs = "outdated" =>
         /\ w.pc \in {"act", "update"}
         /\ w.cr.ext \in Id /\ tokens[w.cr.ext].state \in {"dead", "deleted"}

\* A worker that may still create, or let go, found no token, and none has appeared
\* since unless somebody else has written the object.
MissingIsMissing ==
  \A m \in MR, r \in Replica :
    LET w == work[m][r] IN
    /\ w.pc = "pend" => w.obs = "missing"
    /\ w.pc \in {"act", "pend"} /\ w.obs = "missing" /\ ~w.stale => NoToken(m)
    /\ w.pc = "create" => NoToken(m)

\* A pending annotation fences off every worker that observed before it.
PendingFences ==
  \A m \in MR, r \in Replica :
    /\ work[m][r].pc = "annotate" => work[m][r].cr.create # "pending"
    /\ work[m][r].pc \in {"create", "annotate"} =>
         /\ mr[m].create = "pending"
         /\ \A s \in Replica : work[m][s].pc \in {"create", "annotate"} => s = r
    /\ work[m][r].pc \in {"observe", "list", "act", "pend", "update"}
         /\ mr[m].create = "pending" => work[m][r].stale

\* A worker sees the deletion and the finalizer as they are unless somebody has
\* written the object since, and nobody creates without a finalizer in place.
SeenIsCurrent ==
  \A m \in MR, r \in Replica :
    LET w == work[m][r] IN
    /\ w.pc \in {"observe", "list", "act", "pend"} /\ ~w.stale =>
         w.cr.phase = mr[m].phase /\ (w.cr.fin <=> mr[m].fin)
    /\ w.pc = "pend" => w.cr.fin /\ w.cr.phase = "live"
    /\ w.pc \in {"create", "annotate"} => mr[m].fin /\ mr[m].phase # "gone"

Minted(m, k) == k \in Id /\ tokens[k].state # "unborn" /\ tokens[k].of = m

\* k was minted for m behind a finalizer; while it is valid, it is the identity of m
\* and no worker is minting another.
Owned(m, k) ==
  /\ Minted(m, k)
  /\ mr[m].fin \/ mr[m].phase = "gone"
  /\ Valid(k) => /\ mr[m].ext = k
                 /\ \A r \in Replica : work[m][r].pc \notin {"create", "annotate"}

\* What worker state w of m is about to put into the connection secret.
Carries(m, w) ==
  /\ w.pc = "publish" => Owned(m, w.cr.ext)
  /\ w.pc = "annotate" /\ w.cr.create = "succeeded" => Minted(m, w.cr.ext)

\* The connection secret holds, and will only ever hold, what m owns.
SecretIsOwned ==
  \A m \in MR : /\ secret[m] = NoId \/ Owned(m, secret[m])
                /\ \A r \in Replica : Carries(m, work[m][r])

\* Every worker that may still create or rotate acts on what is so, or its next write
\* fails; and the connection secret holds nothing but its resource's own token.
IInv == /\ TokensHaveUsers
        /\ DeletionIsReal
        /\ OutdatedIsDead
        /\ MissingIsMissing
        /\ PendingFences
        /\ SeenIsCurrent
        /\ SecretIsOwned
=============================================================================
