----------------------------- MODULE NbSetupKey -----------------------------
(***************************************************************************)
(* The NbSetupKey controller: internal/controller/nbsetupkey/nbsetupkey.go *)
(* under the managed reconciler, against the setup keys of a NetBird       *)
(* account.  A setup key is a credential: its secret part is shown once,   *)
(* in the reply to Create, and a key that expired or was revoked is        *)
(* rotated by deleting it in Update and minting another in Create.         *)
(*                                                                         *)
(* NetBird answers each call atomically.  A call that returns an error     *)
(* either had no effect or has had its whole effect by then; a request     *)
(* that lands later is not modelled.                                       *)
(***************************************************************************)
EXTENDS ManagedReconciler, Naturals

CONSTANTS
  Name,      \* display names of setup keys
  NameOf,    \* NameOf[m]: spec.forProvider.name of m
  Imported,  \* identifiers of keys that exist before the first reconcile
  Reserve    \* identifiers kept back from the environment (bounds rotation)

ASSUME NamesAssumption ==
  /\ NameOf \in [MR -> Name]
  /\ Imported \subseteq Id
  /\ Reserve \in Nat

VARIABLES
  keys,      \* keys[k]: the setup key with identifier k
  secret     \* secret[m]: the key whose secret part m's connection secret holds

vars == <<runtimeVars, keys, secret>>

Key == [state : {"unborn", "valid", "dead", "deleted"}, name : Name]

TypeOK ==
  /\ RuntimeTypeOK
  /\ keys \in [Id -> Key]
  /\ secret \in [MR -> ExtName]

Valid(k)  == keys[k].state = "valid"
Listed(k) == keys[k].state \in {"valid", "dead"}
Named(k, m) == keys[k].name = NameOf[m]

\* The account may already hold one of the importable keys, under any name.
Init ==
  /\ \E born \in SUBSET Imported, n \in Name :
       /\ \A j, k \in born : j = k
       /\ RuntimeInit(born)
       /\ keys = [k \in Id |->
                    [state |-> IF k \in born THEN "valid" ELSE "unborn", name |-> n]]
  /\ secret = [m \in MR |-> NoId]

-----------------------------------------------------------------------------
(* Observe *)

\* Mutant: the status identifier always wins.
LookupStatusFirst(cr) == IF cr.sid # NoId THEN cr.sid ELSE cr.ext

\* resolveSetupKeyLookupID: status.atProvider.id wins over a missing external
\* name and over one that is only a name.
Lookup(cr) ==
  IF \/ cr.ext = NoId
     \/ cr.sid # NoId /\ cr.sid # cr.ext /\ cr.ext \in {ObjName, DispName}
  THEN cr.sid
  ELSE cr.ext

IsId(e) == e \notin Hints

\* SetupKeys.Get answers with a valid key: the key is recorded in the status.
ObserveValid(m, r) ==
  LET w == work[m][r]
      k == Lookup(w.cr)
  IN
  /\ w.pc = "observe"
  /\ IsId(k) /\ Valid(k)
  /\ Go(m, r, [w EXCEPT !.pc = "act", !.obs = "uptodate",
                        !.cr.ext = k, !.cr.sid = k])
  /\ UNCHANGED <<keys, secret>>

\* Mutants: any key that is found asks for rotation; no key ever does.
ObserveAnyDead(m, r) ==
  LET w == work[m][r]
      k == Lookup(w.cr)
  IN
  /\ w.pc = "observe"
  /\ IsId(k) /\ Listed(k)
  /\ Go(m, r, [w EXCEPT !.pc = "act", !.obs = "outdated", !.cr.ext = k])
  /\ UNCHANGED <<keys, secret>>

ObserveDeadAsCurrent(m, r) ==
  LET w == work[m][r]
      k == Lookup(w.cr)
  IN
  /\ w.pc = "observe"
  /\ IsId(k) /\ Listed(k) /\ ~Valid(k)
  /\ Go(m, r, [w EXCEPT !.pc = "act", !.obs = "uptodate", !.cr.ext = k])
  /\ UNCHANGED <<keys, secret>>

\* It answers with an expired or revoked key: only the external name is
\* repaired, and the observation asks for Update.
ObserveDead(m, r) ==
  LET w == work[m][r]
      k == Lookup(w.cr)
  IN
  /\ w.pc = "observe"
  /\ IsId(k) /\ Listed(k) /\ ~Valid(k)
  /\ Go(m, r, [w EXCEPT !.pc = "act", !.obs = "outdated", !.cr.ext = k])
  /\ UNCHANGED <<keys, secret>>

\* It answers "not found": adoption by name is tried next.
ObserveNotFound(m, r) ==
  LET w == work[m][r]
      k == Lookup(w.cr)
  IN
  /\ w.pc = "observe"
  /\ IsId(k) /\ ~Listed(k)
  /\ Go(m, r, [w EXCEPT !.pc = "list"])
  /\ UNCHANGED <<keys, secret>>

\* SetupKeys.List is called after a "not found", or at once when there is no
\* identifier to look up.
Listing(m, r) ==
  \/ work[m][r].pc = "list"
  \/ work[m][r].pc = "observe" /\ ~IsId(Lookup(work[m][r].cr))

\* Mutants: adoption asks for Update, as it does in the other controllers; it
\* records the name where the identifier belongs.
AdoptedOutdated(w, k) == [w EXCEPT !.pc = "act", !.obs = "outdated",
                                   !.cr.ext = k, !.cr.sid = k]

AdoptedByName(w, k) == [w EXCEPT !.pc = "act", !.obs = "uptodate",
                                 !.cr.ext = DispName, !.cr.sid = DispName]

\* The first valid key of that name is adopted and reported up to date.
Adopted(w, k) == [w EXCEPT !.pc = "act", !.obs = "uptodate",
                           !.cr.ext = k, !.cr.sid = k]

Adopt(m, r) ==
  /\ Listing(m, r)
  /\ \E k \in Id : /\ Valid(k)
                   /\ Named(k, m)
                   /\ Go(m, r, Adopted(work[m][r], k))
  /\ UNCHANGED <<keys, secret>>

\* Mutant: a failing or partial list passes for an empty one.
ObserveMissingUnlisted(m, r) ==
  /\ Listing(m, r)
  /\ Go(m, r, [work[m][r] EXCEPT !.pc = "act", !.obs = "missing"])
  /\ UNCHANGED <<keys, secret>>

ObserveMissing(m, r) ==
  /\ Listing(m, r)
  /\ \A k \in Id : ~(Valid(k) /\ Named(k, m))
  /\ Go(m, r, [work[m][r] EXCEPT !.pc = "act", !.obs = "missing"])
  /\ UNCHANGED <<keys, secret>>

-----------------------------------------------------------------------------
(* Create, Update, Delete *)

\* SetupKeys.Create mints a key; "heard" is false when the reply is lost and
\* the handler returns an error.
Create(m, r, heard) ==
  LET w == work[m][r] IN
  /\ w.pc = "create"
  /\ \E k \in Id :
       /\ keys[k].state = "unborn"
       /\ keys' = [keys EXCEPT ![k] = [state |-> "valid", name |-> NameOf[m]]]
       /\ Go(m, r, IF heard
                     THEN [w EXCEPT !.pc = "annotate", !.cr.ext = k,
                                    !.cr.create = "succeeded"]
                     ELSE [w EXCEPT !.pc = "annotate", !.cr.create = "failed"])
  /\ UNCHANGED secret

\* The secret part of the key Create returned goes to the connection secret.
Publish(m, r) ==
  LET w == work[m][r] IN
  /\ w.pc = "publish"
  /\ secret' = [secret EXCEPT ![m] = w.cr.ext]
  /\ Go(m, r, Close(w))
  /\ UNCHANGED keys

\* Update rotates: the key is deleted and the in-memory identity cleared.  If
\* the reply is lost the key is gone and the identity kept.
Update(m, r, heard) ==
  LET w == work[m][r]
      k == Lookup(w.cr)
  IN
  /\ w.pc = "update"
  /\ IsId(k) /\ Listed(k)
  /\ keys' = [keys EXCEPT ![k].state = "deleted"]
  /\ Go(m, r, Close(IF heard THEN [w EXCEPT !.cr.ext = NoId, !.cr.sid = NoId]
                             ELSE w))
  /\ UNCHANGED secret

\* Mutant: Delete is left to somebody else, as it is for some user accounts.
DeleteNothing(m, r) ==
  LET w == work[m][r] IN
  /\ w.pc = "act"
  /\ w.cr.phase = "deleting"
  /\ w.obs # "missing"
  /\ Go(m, r, Close(w))
  /\ UNCHANGED <<keys, secret>>

\* Delete removes the key Observe found.  The runtime requeues to confirm, so
\* a lost reply makes no difference.
Delete(m, r) ==
  LET w == work[m][r]
      k == Lookup(w.cr)
  IN
  /\ w.pc = "act"
  /\ w.cr.phase = "deleting"
  /\ w.obs # "missing"
  /\ IsId(k) /\ Listed(k)
  /\ keys' = [keys EXCEPT ![k].state = "deleted"]
  /\ Go(m, r, Close(w))
  /\ UNCHANGED secret

\* The connection secret is deleted before the finalizer; that write may fail.
Dispose(m, r) ==
  /\ Release(m, r)
  /\ secret' = [secret EXCEPT ![m] = NoId]
  /\ UNCHANGED keys

UnpublishOnly(m, r) ==
  LET w == work[m][r] IN
  /\ w.pc = "act"
  /\ w.cr.phase = "deleting"
  /\ w.obs = "missing"
  /\ secret' = [secret EXCEPT ![m] = NoId]
  /\ StepFails(m, r)
  /\ UNCHANGED keys

-----------------------------------------------------------------------------
(* The rest of the world *)

\* Deaths are bounded: Reserve identifiers stay available to Create.
Spare == Cardinality({k \in Id : keys[k].state = "unborn"}) >= Reserve

\* A key expires, or an administrator revokes it; NetBird undoes neither.
Die(k) ==
  /\ Valid(k) /\ Spare
  /\ keys' = [keys EXCEPT ![k].state = "dead"]
  /\ UNCHANGED <<runtimeVars, secret>>

\* An administrator deletes a key.
Vanish(k) ==
  /\ Listed(k) /\ Spare
  /\ keys' = [keys EXCEPT ![k].state = "deleted"]
  /\ UNCHANGED <<runtimeVars, secret>>

\* Deleting an object without a finalizer takes its connection secret along.
UserDeletes(m) ==
  /\ RequestDelete(m)
  /\ secret' = IF mr[m].fin THEN secret ELSE [secret EXCEPT ![m] = NoId]
  /\ UNCHANGED keys

-----------------------------------------------------------------------------
(* Specification *)

HandlerStep(m, r) ==
  \/ ObserveValid(m, r) \/ ObserveDead(m, r) \/ ObserveNotFound(m, r)
  \/ Adopt(m, r) \/ ObserveMissing(m, r)
  \/ \E heard \in BOOLEAN : Create(m, r, heard) \/ Update(m, r, heard)
  \/ Publish(m, r) \/ Delete(m, r) \/ Dispose(m, r) \/ UnpublishOnly(m, r)

Next ==
  \/ \E m \in MR, r \in Replica :
       \/ RuntimeStep(m, r) /\ UNCHANGED <<keys, secret>>
       \/ HandlerStep(m, r)
  \/ \E m \in MR : UserDeletes(m)
  \/ \E m \in MR : ClearPending(m) /\ UNCHANGED <<keys, secret>>
  \/ \E k \in Id : Die(k) \/ Vanish(k)

Spec == Init /\ [][Next]_vars

\* A step that goes as the code means it to, or gives up because the object has
\* moved on or the key it found has vanished since.
Working(m, r) ==
  LET w == work[m][r]
      vanished == w.obs # "missing" /\ IsId(Lookup(w.cr)) /\ ~Listed(Lookup(w.cr))
  IN
  \/ EnsureFinalizer(m, r) \/ Annotate(m, r) \/ ReportStatus(m, r) \/ Delete(m, r)
  \/ StepFails(m, r) /\ (w.stale \/ (w.pc \in {"act", "update"} /\ vanished))
  \/ Update(m, r, TRUE)

\* Any other step that loses a reply, fails or stops half-way; or does not count
\* the key of a recent create as lost yet.
Fault(m, r) ==
  /\ \/ Breakdown(m, r)
     \/ Create(m, r, FALSE) \/ Update(m, r, FALSE)
     \/ UnpublishOnly(m, r) /\ ~work[m][r].stale
  /\ ~Working(m, r)

\* Every call returns, the watch delivers, the poll interval brings every
\* object back, and the faults end at some point.  Nothing is assumed of users,
\* operators, administrators or the clock.
Fairness ==
  /\ \A m \in MR, r \in Replica :
       /\ WF_vars(\/ RuntimeStep(m, r) /\ work'[m][r] # work[m][r] /\ UNCHANGED <<keys, secret>>
                  \/ HandlerStep(m, r))
       /\ WF_vars(SyncCache(m, r) /\ UNCHANGED <<keys, secret>>)
  /\ <>[][\A m \in MR, r \in Replica : ~Fault(m, r)]_vars

LiveSpec == Spec /\ Fairness

-----------------------------------------------------------------------------
(* Properties *)

\* No two resources manage keys of the same name.
DistinctNames == \A l, m \in MR : NameOf[l] = NameOf[m] => l = m

\* nbsetupkey.go:151-155: whatever is lost between Create and the write of the
\* external name, the account never holds two valid keys for one resource, not
\* even with two replicas reconciling it from lagging caches.
AtMostOneValidKey ==
  \A m \in MR : \A j, k \in Id :
    Valid(j) /\ Valid(k) /\ Named(j, m) /\ Named(k, m) => j = k

\* nbsetupkey.go:189-192: rotation stays reserved for expired and revoked keys.
\* A handler destroys a key that is still valid only on behalf of a resource
\* the user has deleted.
ValidKeyDiesOnlyWithItsResource ==
  [][ \A m \in MR, r \in Replica :
        work'[m][r] # work[m][r] /\ mr[m].phase = "live"
          => \A k \in Id : Valid(k) => keys'[k].state # "deleted" ]_vars

\* A deleted resource is let go only when none of its keys can be used any more.
ReleasedWithoutValidKey ==
  [][ \A m \in MR :
        mr[m].phase = "deleting" /\ mr'[m].phase = "gone"
          => \A k \in Id : ~(Valid(k) /\ Named(k, m)) ]_vars

\* While the key in the connection secret is valid, the resource's persisted
\* identity resolves to that very key: no lost or late write makes the
\* controller manage another key than the one its consumers use.
SecretMatchesIdentity ==
  \A m \in MR :
    mr[m].phase = "live" /\ secret[m] # NoId /\ Valid(secret[m])
      => Lookup(mr[m]) = secret[m]

HasKey(m) == mr[m].sid # NoId /\ Valid(mr[m].sid)

\* A live resource whose key is missing, expired or revoked gets a valid one and
\* says so in its status (the external name may lag behind for ever), unless a create whose outcome was lost is waiting for the operator.
KeyRestored ==
  \A m \in MR :
    mr[m].phase = "live" ~> (HasKey(m) \/ mr[m].phase # "live" \/ Unresolved(m))

\* A deleted resource disappears, with the same exception.
DeletionCompletes ==
  \A m \in MR :
    mr[m].phase = "deleting" ~> (mr[m].phase = "gone" \/ Unresolved(m))

\* nbsetupkey.go:310-311: what Create returns "will be stored as the connection
\* secret".  Once the status names a key this resource minted, the secret holds
\* it.
ReportedKeyIsPublished ==
  \A m \in MR : mr[m].sid # NoId /\ Valid(mr[m].sid) => secret[m] = mr[m].sid

\* The controller keeps the promise of KeyCustody, step by step.
Custody == INSTANCE KeyCustody WITH phase <- [m \in MR |-> mr[m].phase]

CustodyKept == Custody!Spec

-----------------------------------------------------------------------------
(* The inductive invariant behind the safety properties *)

NoValidKey(m) == \A k \in Id : ~(Valid(k) /\ Named(k, m))

\* Deletion is never seen before it is requested.
DeletionIsReal ==
  \A m \in MR, r \in Replica :
    /\ cache[m][r].phase # "live" => mr[m].phase # "live"
    /\ work[m][r].cr.phase # "live" => mr[m].phase # "live"

\* A worker about to rotate holds the identifier of a key that will never be
\* valid again.
OutdatedIsDead ==
  \A m \in MR, r \in Replica :
    LET w == work[m][r] IN
    /\ w.pc = "update" => w.obs = "outdated"
    /\ w.obs = "outdated" =>
         /\ w.pc \in {"act", "update"}
         /\ w.cr.ext \in Id /\ keys[w.cr.ext].state \in {"dead", "deleted"}

\* A worker that may still create, or let go, found no valid key, and none has
\* appeared since unless somebody else has written the object.
MissingIsMissing ==
  \A m \in MR, r \in Replica :
    LET w == work[m][r] IN
    /\ w.pc = "pend" => w.obs = "missing"
    /\ w.pc \in {"act", "pend"} /\ w.obs = "missing" /\ ~w.stale => NoValidKey(m)
    /\ w.pc = "create" => NoValidKey(m)

\* A pending annotation fences off every worker that observed before it.
PendingFences ==
  \A m \in MR, r \in Replica :
    /\ work[m][r].pc = "annotate" => work[m][r].cr.create # "pending"
    /\ work[m][r].pc \in {"create", "annotate"} =>
         /\ mr[m].create = "pending"
         /\ \A s \in Replica : work[m][s].pc \in {"create", "annotate"} => s = r
    /\ work[m][r].pc \in {"observe", "list", "act", "pend", "update"}
         /\ mr[m].create = "pending" => work[m][r].stale

\* A worker sees the deletion and the finalizer as they are unless somebody has
\* written the object since, and nobody creates without a finalizer in place.
SeenIsCurrent ==
  \A m \in MR, r \in Replica :
    LET w == work[m][r] IN
    /\ w.pc \in {"observe", "list", "act", "pend"} /\ ~w.stale =>
         w.cr.phase = mr[m].phase /\ (w.cr.fin <=> mr[m].fin)
    /\ w.pc = "pend" => w.cr.fin /\ w.cr.phase = "live"
    /\ w.pc \in {"create", "annotate"} => mr[m].fin /\ mr[m].phase # "gone"

Minted(m, k) == k \in Id /\ keys[k].state # "unborn" /\ Named(k, m)

\* k was minted for m behind a finalizer; while it is valid, it is the identity of m
\* and no worker is minting another.
Owned(m, k) ==
  /\ Minted(m, k)
  /\ mr[m].fin \/ mr[m].phase = "gone"
  /\ Valid(k) => /\ mr[m].ext = k
                 /\ \A r \in Replica : work[m][r].pc \notin {"create", "annotate"}

\* What worker state w of m is about to put into the connection secret.
Carries(m, w) ==
  /\ w.pc = "publish" => Owned(m, w.cr.ext)
  /\ w.pc = "annotate" /\ w.cr.create = "succeeded" => Minted(m, w.cr.ext)

\* The connection secret holds, and will only ever hold, what m owns.
SecretIsOwned ==
  \A m \in MR : /\ secret[m] = NoId \/ Owned(m, secret[m])
                /\ \A r \in Replica : Carries(m, work[m][r])

\* Every worker that may still create or rotate acts on what is so, or its next write
\* fails; and the connection secret holds nothing but its resource's own key.
IInv == /\ DeletionIsReal
        /\ OutdatedIsDead
        /\ MissingIsMissing
        /\ PendingFences
        /\ SeenIsCurrent
        /\ SecretIsOwned
=============================================================================
