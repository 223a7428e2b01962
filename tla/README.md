# A verification of the NetBird Crossplane provider

This directory holds TLA+ models of `provider-netbird`, the TLC runs that check
them on small instances, and the TLAPS proofs of their main results for every
instance. Paths below are relative to the repository root.

## 1. The system

The provider is one process (`cmd/provider/main.go`) that registers a
`ProviderConfig` reconciler and eleven controllers
(`internal/controller/netbird.go`), one per kind of NetBird object. A controller
consists of a `Setup` function, a `connector` and an `external` with the four
handlers `Observe`, `Create`, `Update` and `Delete`. The handlers are called by
the managed reconciler of crossplane-runtime v1.16, which is a library and not
part of the repository. Several things run at once:

* ten workers per kind in each process (`MaxConcurrentReconciles`), never two of
  one process on the same object;
* several processes, since leader election is off by default
  (`cmd/provider/main.go`, `--leader-election`);
* users and operators who edit or delete the objects, administrators who change
  the NetBird account behind the provider's back, and the clock.

### Inventory

| Component | State it keeps | Operations | Interacts with | What makes it hard |
|---|---|---|---|---|
| Managed reconciler (library) | the cached object, the in-memory copy of one reconcile | read, Observe, finalizer, pending annotation, Create/Update/Delete, annotations, publish, status | API server, handlers | conditional writes against a lagging cache, a crash between any two steps, one unconditional write |
| `AuthManager`, `SharedConnector` (`internal/controller/nb/auth.go`) | client, token time, cache by `ProviderConfig` UID | `Connect`, `GetClient`, `ForceRefresh` | every controller, the OAuth issuer | mutex, check-then-act on the cache, expiry, changed credentials |
| `NbSetupKey`, `NbAccessToken` | external name, `status.atProvider.id`, connection secret | the four handlers; Update rotates an expired credential | setup keys; users and their tokens | a credential is shown once; rotation deletes; adoption by name |
| `NbNetwork` | external name, status | the four handlers | networks | adoption that asks for Update, edits from both sides |
| `NbNetworkResource`, `NbNetworkRouter` | external name, status | the four handlers; each looks the parent network up by name | networks, groups, and what is inside the network | parents that vanish first, two parents of one name, routers without a name |
| `NbGroup` | external name, status | the four handlers, Update empty | groups | three lookups with different fallbacks |
| `NbNameServer` | external name, status | the four handlers | name server groups | fields that are sent and not compared, a status the API server rejects |
| `NbPolicy` | external name, status | the four handlers; rules are translated to group identifiers and back | policies, groups | groups that are not found, partial translation, groups given by name |
| `NbUser` | external name, status | the four handlers; of a person only the role is ever written | service users and persons | handlers that do nothing, three lookups, users who come back under another identifier |
| `NbAccount`, `NbDnsSetting` | external name, status | Observe, Update and an empty Delete of a singleton; the default initializer | the account | neither created nor deleted, edits from both sides |
| `ProviderConfig` reconciler | usages | library code | API server | none of its own |
| API types, CRDs | - | generated | - | - |

### What makes each component correct

* Every kind: what NetBird created once is not created again because a reply, a
  write or a process was lost; a deleted object is let go only when what it managed
  is gone, and disappears eventually; a transient error is never read as "does not
  exist".
* Credentials, in addition: a rotation never destroys a usable one; the connection
  secret and the recorded identity agree; an expired one is replaced.
* Everything else, in addition: the object at NetBird becomes what the specification
  asks for, whoever changed which of the two, and from then on nothing is sent.
* Authentication: no handler works with an expired token when a newer one could be
  had; one refresh at a time; nobody waits for ever; credentials are those of the
  `ProviderConfig`.

`PROJECT.json` lists the hazards with the line at which each bites and the
property that watches it.

## 2. The modules

| Module | Models |
|---|---|
| `ManagedReconciler` | the contract of the library loop: objects, caches, workers, and every step that is the same for all kinds |
| `NbSetupKey` | `internal/controller/nbsetupkey`, the keys of the account and the connection secret |
| `KeyCustody` | what `NbSetupKey` promises the owner of the account, without reconciles: the abstract specification it implements |
| `NbAccessToken` | `internal/controller/nbaccesstoken`, users, their tokens and the connection secret |
| `NetBirdObjects` | the objects of one kind in the account, and the lookups, adoption, creation, overwriting and deletion that the kinds with named objects share |
| `OneObject` | what such a kind promises about a resource and its object: the abstract specification they implement |
| `NbNetwork`, `NbNameServer`, `NbPolicy` | `internal/controller/nbnetwork`, `nbnameserver` and `nbpolicy`: what each compares and sends, over `NetBirdObjects` |
| `NbGroup`, `NbUser` | `internal/controller/nbgroup` and `nbuser`, over `NetBirdObjects`, with lookups of their own |
| `ParentNetworks` | how the kinds inside a network look it up; networks that come and go |
| `NbNetworkResource` | `internal/controller/nbnetworkresource`, over `ParentNetworks` |
| `NbNetworkRouter` | `internal/controller/nbnetworkrouter`, over `ParentNetworks`, with the group a router may give |
| `Singleton` | what is neither created nor deleted, and the default initializer |
| `NbAccount`, `NbDnsSetting` | `internal/controller/nbaccount` and `nbdnssetting`, over `Singleton` |
| `AnyKind` | an object of any kind but networks and credentials, chosen at the start |
| `SharedConnector` | `internal/controller/nb/auth.go` |
| `ManagedReconcilerProofs` | what the steps of the library loop do, for every kind |
| `NetBirdObjectsProofs` | the same for the shared handlers, and the invariant and the refinement that follow |
| `NamedObjectsProofs` | the theorems about the three kinds built from them: networks, name server groups, policies |
| `AnyKindSteps` | what the steps of each kind of `AnyKind` do, in one vocabulary for all |
| `AnyKindProofs` | what follows from it: the theorems about all kinds of `AnyKind` |
| `NbSetupKeyProofs`, `NbAccessTokenProofs`, `SharedConnectorProofs` | theorems and proofs about setup keys, access tokens and authentication |
| `MC...` | instances for TLC |

All kinds EXTEND `ManagedReconciler` (directly or through `NetBirdObjects`,
`ParentNetworks` or `Singleton`), add the NetBird side and conjoin its effect to the
steps they share. `AnyKind` instantiates eight of them over one state, three of these
twice (routers by group and by peer, policies with a name beside others, service users
and persons), and lets a behaviour belong to one, so that one formula asks the same
question of all; where a kind needs an exception, the kind's module states it
(`Served`, `Stuck`, `LeavesNothing`, `Restless`).

`SharedConnector` stands alone: how a handler gets its client is independent of what
it does with it, and a client that cannot be had is a step that fails (`StepFails`,
`CreateRefused`).

### `ManagedReconciler`

`mr[m]` is the object at the API server, reduced to what a handler can tell
apart: its life (`phase`), the finalizer (`fin`), the external-name annotation
(`ext`), the newest `external-create-*` annotation (`create`),
`status.atProvider.id` (`sid`) and `spec`, which stands for the fields of
`spec.forProvider` that Update sends. `cache[m][r]` is the copy replica `r` reads.
`work[m][r]` is the reconcile of `m` in progress: the step it is at (`pc`), the
in-memory object (`cr`), what `Observe` returned (`obs`), and whether the API
server has moved on since `cr` was read (`stale`), which is what a resource
version tells.

All writes but one are conditional on that version. A full write (finalizer,
pending annotation) persists annotations and never the status, a status write the
reverse; hence an external name that `Observe` or `Update` leaves in memory is
persisted only if a full write follows. `Annotate`, after a create, is
unconditional. Every step can fail (`StepFails`, `CreateRefused`) or never happen
(`Abandon`: a crash, a nil pointer or an expired context). A reconcile that finds an
unresolved pending annotation stops (`Begin`) until an operator clears it
(`ClearPending`). Users delete (`RequestDelete`) and edit (`Respecify`).

Management policies matter where nothing else ends an object: `PolicyStep` lets go of
a deleted object whose policies leave out Delete (`kept`) before anything is
observed. The controllers whose `Setup` does not clear the initializers
(nbaccount.go, nbdnssetting.go) first store the object's name as its external name
(`Singleton`, `Initialize`).

### `NetBirdObjects`

`objects[k]` is what NetBird holds under identifier `k`: unborn, live, deleted or (if
somebody else deleted it and it matters) lost; the managed resource whose name it
has; and its content. `Find`, `FindNot`, `ListOne`, `ListNone`, `Post`, `Put` and
`Remove` are the calls with what the handlers make of the answers; a kind's
`Observe...`, `Create`, `Update` and `Delete` say which of them it uses, with which
comparison and which content. `OneObject` sees of this only how far the deletion of
each resource has come and which objects of it there are: an object is obtained only
when there is none and never for a resource that is gone, and a deleted resource is
let go only when its object is gone.

### The kinds

What the actions of each kind have in common, with the code they stand for:

| Action | Code |
|---|---|
| `ObserveFound` (`ObserveValid`, `ObserveDead`), `ObserveNotFound` | Get with the identifier `Lookup` resolves from external name and status (`resolve...LookupID`), and what `Observe` makes of the answer |
| `Adopt`, `ObserveMissing` | List, adoption by name, and "does not exist" |
| `Create(m, r, heard)`, `Publish` | the handler `Create`, and the write of the connection details of its reply |
| `Update` | the handler `Update`: overwrites the object at NetBird, or deletes an expired credential to have it minted again |
| `Delete` | the handler `Delete` |
| `Initialize` | the default initializer of the runtime, where a `Setup` keeps it |
| `Tamper`, `Vanish`, `Die`, ... | administrators and the clock |

With `heard = FALSE` NetBird has done what it was asked but the reply is lost.
Where they differ:

* `NbSetupKey`: `keys[k]` is unborn, valid, dead (expired or revoked) or deleted;
  only valid keys are adopted. `Update` deletes the key and clears the identity in
  memory. `secret[m]` is the key whose secret part the connection secret holds.
* `NbAccessToken`: `tokens[k]` belongs to a user. `Observe` takes the first service
  user of the name (`Observed`), `Create` and `Delete` the last user (`Chosen`),
  `Update` the first user (`Rotated`). `subject` is the user whose tokens the same
  `Observe` lists after a failed Get.
* `NbNetwork`: compared and overwritten; an adopted network is always outdated.
* `NbNameServer`: two fields are sent and never compared (`Flagged`); adoption of an
  object whose status has not been filled in yet is rejected by the schema, so that
  nothing of it is recorded.
* `NbPolicy`: here, too, fields are sent and never compared (`Flagged`). `group` is a
  group the rules give, by identifier or by name (`ByName`), alone in its list or
  beside others (`Mixed`). `Translates` says when `Create` and `Update` go ahead,
  `Translation` what they send; what is given by name is never found up to date.
* `NbGroup`: never outdated. "Not found" by identifier is final, without adoption;
  a display name as external name leads to an existence check that leaves it there,
  and `Delete` then asks for a group of that identifier.
* `NbUser`: `Service` tells service users, found by name, from persons, found by
  address, who are invited by somebody else and whom `Create` and `Delete` leave
  alone. `Update` sends the role and never the name. Specifications in `Groupless`
  leave out the groups, which `Create` dereferences.
* `NbNetworkResource`: `Observe` searches the first network of the name
  (`Observed`), the other handlers the last (`Chosen`). Without one every handler
  fails (`ObserveOrphan`). Specifications in `Groupless` leave out the groups,
  which `Create` and `Update` dereference.
* `NbNetworkRouter`: `Update` takes the first network, too. Routers are known again
  by peer or group (`Matches`); a group that cannot be found makes `Observe` report
  "missing", `Create` and `Update` fail.
* `NbAccount`, `NbDnsSetting`: `settings` is what the account holds. `Observe` never
  reports it missing and `Delete` leaves it alone. The account's comparison finds a
  specification without `jwt_allow_groups` (`Listless`) outdated whatever NetBird
  answers.

### `SharedConnector`

`slot` is the cached `AuthManager` of one `ProviderConfig` and kind, `mgr[a]` an
`AuthManager` with the owner of its mutex, the client with its token, and the time
since `lastTokenTime`; `work[w]` is a reconcile from `Connect` through `GetClient`
to the requests of its handlers. `Load` and `Store` are two steps, so two
reconciles can both miss the cache. An issued token's real age counts from some
moment during the request for it, while `lastTokenTime` counts from the answer; its
lifetime is whatever the issuer says (`Lifetimes`). `Tick` is time; a request ends
when its context does. Credentials that are not OAuth (`Static`) are the token: a
refresh is a single step without a request (`Rewrap`), which wraps the same token
and assumes another day for it (`Day`). When such a token expires or is revoked
(`Lapse`) nothing here can tell, and nothing replaces it.

## 3. The runs

| Run | Question | Instance | States |
|---|---|---|---|
| `setup_key_life` | rotation, deletion, identity, custody, liveness | one replica, three keys of which one may have been there before | 250 000 |
| `setup_key_two` | duplicates under two replicas with lagging caches; the inductive invariant | two replicas, two keys, symmetric | 2 500 000 |
| `setup_key_secret` | is a reported key always the published one? No | one replica, two keys | stops early |
| `auth_safe` | mutex and token ages | two reconciles, two managers, lifetimes 4 and 1, margin 2, timeout 1, OAuth credentials replaced by static ones | 2 600 000 |
| `auth_live` | starvation, recovery from revoked tokens | the same with lifetime 1, requests shorter than a tick, no symmetry | 117 000 |
| `auth_creds` | does a client follow the credentials? No | the same | stops early |
| `token_life` | the questions of `setup_key_life`, and the inductive invariant | one user who may leave, three tokens | 240 000 |
| `token_users` | one token per resource if a regular user has the same name? No | two users | stops early |
| `network_life` | duplicates, leftovers, `OneObject`, convergence, deletion | two networks, two specifications, imports, edits | 83 000 |
| `network_adopted` | is an adopted identifier persisted? No | two networks | stops early |
| `inside_network` | duplicates, leftovers, convergence, deletion of a resource or a router, under a parent that is deleted and recreated | three identifiers, two parents, one group, two specifications | 310 000 |
| `account_wide` | the same for groups, name servers, policies, users and the singletons; and an end to the calls | three identifiers, one group that policies give, up to three specifications | 292 000 |

`CHECK_DEADLOCK FALSE` is said wherever objects can disappear: when every object is
gone and nothing is left at NetBird to change, the system has stopped for good.
The authentication runs do not say it.

Bounds. One managed resource is enough because objects of different names share no
state but their parent, which the environment moves on its own; what happens when
setup keys share a name is covered by the theorem `RotationIsSafe`, which needs no
distinct names. `Id` bounds how many objects NetBird ever creates: two suffice for
one to be created, lost, adopted and replaced, or for a duplicate; the third is
there for rotations, and for a group that is deleted, recreated with its reply lost,
and created again. `Imported` are objects that may be there before the first
reconcile. `Odd` are the specifications with a peculiarity of their kind: two fields
that are not compared (of name servers and policies), groups by name, no groups, no
list. What a policy is compared by changes when an administrator takes groups out of
its rules (`whole`), not by edits of its specification. In `inside_network` the
specification of a router that gives a group is not edited and its network not
replaced (a group that comes and goes, instead), and a person's or a mixed policy's
specification in `account_wide` is not edited either; each kind that is edited shows
what that adds. `Reserve` keeps the environment from using up the last identifiers, so
that a create stays possible while something must still happen. Two replicas are what
it takes for two workers to race for one object; `setup_key_two` has them, the other
lifecycle runs have one replica and add liveness; that a second replica creates no
duplicate of a token or of any other object is proved (section 4). Where an instance
gives `ObjName` and `DispName` one value, object name and display name coincide.

Fairness. `LiveSpec` assumes that an enabled step of a worker eventually happens
(calls return, the poll interval of a minute brings every object back, rate limiting
only delays), that the watch delivers, and that faults end at some point (`Fault`:
replies lost, steps that fail or stop although nothing in the world made them).
Steps that must fail because the world has changed are not faults (`Working`) and
may go on for ever. `Quiet` assumes that users and administrators stop editing one
object at some point; without it there is nothing to converge to. `Settles` says
that `Update` is then called no more, which is how a comparison that does not
recognise what was sent shows itself. Nothing else is assumed of users, operators
and the clock. Where a create's outcome was lost the properties except the wait for
the operator (`Unresolved`): the runtime demands it. For the mutex, strong fairness
of getting it stands for `sync.Mutex`, which starves nobody.

### What the runs found

* `setup_key_secret`: the secret part of a key is returned once, in the reply to
  `Create`. If the process stops or a write fails between that reply and the
  publication, a later reconcile finds the key, reports it available and up to
  date, and nothing ever rotates it.
* `auth_creds`: credentials are extracted on every `Connect` and then ignored if a
  manager is cached, until the process restarts.
* `token_users`: a regular user with the name of the service user, listed after it,
  makes `Create` mint under the one what `Observe` looks for under the other: one
  more token on every reconcile.
* `network_adopted`: adoption records the identifier in memory and asks for an
  `Update`; that persists no annotation. An external name that is the identifier of
  a deleted network is looked up, adopted from and overwritten for ever.

The properties of `AnyKind` carry exceptions, each of which is needed: without it TLC
finds a counterexample. They are the kinds' behaviour where it differs from what one
would expect.

* `DeletionCompletes`. A resource or a router without a parent stays, since `Observe`
  fails; so does a group or a user with a display name as external name, a person
  for as long as NetBird has him or her, and an account or its DNS settings unless
  the management policies leave out Delete.
* `AtMostOne`, `ReleasedWithoutRemains`. A group or a service user that an
  administrator deleted (or, a user, renamed): the next create, if its reply is
  lost, is repeated. Routers whose group cannot be found are reported missing while
  they live.
* `Converges`. What is sent and never compared: two fields of a name server group; of a
  policy its `enabled`, `description` and `source_posture_checks`, and of its rules
  `enabled`, `name` and `protocol` (nbpolicy.go:325-331 and 370-382, against
  422-516), so that an edit of these alone, such as disabling the policy, never
  reaches NetBird. Policies whose groups cannot be found; resources and service users
  whose specification leaves out the groups; persons who were not invited, or were
  removed and invited anew; users with a display name as external name.
* `Settles`. Objects whose adopted identifier is not recorded; policies that give
  groups by name; service users whose name differs; an account that leaves out
  `jwt_allow_groups`. All of these are overwritten on every reconcile for ever.

For access tokens, `ExpiredTokenRemoved` is about an expired token the persisted identity
resolves to. One that was adopted by name under a stale external name is not:
nbaccesstoken.go:214-218 says that "an adopted expired token is rotated on the next
reconcile's ID lookup", but that lookup starts from the stale external name again,
finds nothing, adopts once more and reports up to date, so that the token is never
rotated.

And two assumptions on an instance are needed for the same reason: `Ambiguous =
FALSE` (one network of a name at a time; with two, `Create` and `Observe` look in
different ones) and specifications of a router that keep to the group or to the
peer (a router is searched by what it should route through).

Operators commented as mutants are deliberately broken variants of the definition
that follows them. Each property is checked to fail when one of them takes its
place, so that no property holds by accident.

## 4. The proofs

TLAPS checks the following for any number of resources, replicas, keys, objects,
workers and managers, from the assumptions the modules state.

### The library loop

`ManagedReconcilerProofs` describes the three ways of writing (`Go`, `Commit`, `Edit`)
point by point and shows each action of the runtime to be one of a few *moves*
(`Ends`, `Starts`, `Advances`, `Creates`, or nothing) that leave everything but one
worker and one object alone (`Framed`). Four things follow for every kind:

* what a worker with a current copy knows of its object stays true (`CurrentInv`);
* `Fence(V)`, where `V` are the resources that have nothing at NetBird: who reports
  "missing" with a current copy is right; at most one worker of a resource is between
  the pending annotation and its outcome, and it got there only if nothing existed;
  nobody who starts later gets past the annotation. What a kind owes is that `V`
  shrinks by at most the resource that is creating (`MakingFenced`,
  `ReleaseFenced`, `UserStepFenced`);
* where a value comes from: an external name, a status identifier or a specification
  that a step puts anywhere was somewhere before, or the handler brought it (`Traced`,
  `Narrow`), and which of them a lookup can then start from (`LoopIdentifiers`);
* the shapes a handler's effect on its worker can have (`Reported`, `ListedNext`,
  `Created`, `Closed`).

All proofs about kinds start there.

### Setup keys

From `IdentityAssumption` and `NamesAssumption` (the empty string, object names and
display names are not NetBird identifiers) and, where said, `DistinctNames`:

1. `TypeCorrect`. Each action of the handlers is a move as well (`Observes`,
   `Mints`, `Finishes`). The invariants are proved from the moves.
2. `RotationIsGrounded`, `RotationIsSafe`. A worker that is about to rotate holds
   the identifier of a key that is dead or deleted, and neither comes back. Hence
   no handler destroys a usable key of a live resource, even if names are shared.
3. `PendingIsAFence` (with `DistinctNames`). The heart of the matter: the pending
   annotation is written conditionally, so it makes every other worker of the
   resource stale, and no worker that starts later gets past it. At most one worker
   is between the annotation and its outcome, and it got there only if no valid key
   existed.
4. `InvariantHolds`, `OneValidKey`, `ImplementsCustody`, `ReleaseIsSafe` (with
   `DistinctNames`). They follow from the fence and from `SeenIsCurrent`: what a
   worker acts on is current unless its next write is bound to fail.
5. `SecretIsTheIdentity` (with `DistinctNames`). By `SecretIsOwned`, what the
   connection secret holds, or a worker is about to publish, was minted for the
   resource behind its finalizer, and while it is valid nobody mints another and the
   external name stays: this is written only with the finalizer, which is there, with
   a pending annotation, which the valid key rules out, and with the outcome of a
   create, of which there is none under way. So a publication that comes late, from
   whichever replica, never brings back a key that is not the identity.

`DistinctNames` is needed: two resources with one key name adopt each other's key.

### Access tokens

From `IdentityAssumption`, `UsersAssumption`, `BoundsAssumption` and `SameUser`: one
service user has the name and no other user does, or the specification gives the
identifier. `token_users` shows that `AtMostOneToken` is false otherwise.

1. `TypeCorrect`, and again every handler step as a move. No step but a create makes
   a token appear or become valid again (`Withers`, `TokensAge`).
2. `TokensGoWithUsers`: the tokens in the account belong to users that exist. This is
   what makes "missing" true when `Observe` finds no user, or lists the tokens of one
   who left a moment ago.
3. `RotationIsSafe`, `PendingIsAFence`, `OneToken`, `ReleaseIsSafe`. The argument is
   that for setup keys, with one difference: an expired token is adopted, so that the
   fence keeps off every token, not just the valid ones, and a released resource
   leaves none at all.
4. `InvariantHolds`, `SecretIsTheIdentity`, by `SecretIsOwned` as for setup keys.

### Networks, name server groups and policies

From `IdentityAssumption`, `DesiredAssumption` and `BoundsAssumption`, and that an
object may hold what a specification asks for (`ContentAssumption`,
`ContentIsDesired`, `ContentIsRules`; the runs' instances satisfy them):

1. `NetBirdObjectsProofs` shows that each shared handler step is an observation, a
   creation or the end of a reconcile that changes at most one object (`Moves`), and
   that such steps, the runtime's, and those of users and administrators keep
   `ObjectsInv`: the types, the fence (`FenceInv`: what is reported missing by a
   worker whose copy is current is missing, at most one worker is between the pending
   annotation and its outcome, and it got there only if nothing existed), what workers
   know (`CurrentInv`), and `AtMostOneObject`. The last needs the fence, the fence
   needs the types, and letting go of a deleted object needs both others: only because
   the release is a conditional write is what the worker saw still the case.
2. `NamedObjectsProofs` shows that the handlers are built from these steps. For name servers adoption is a step of its own; for
   policies the groups come and go, which no lemma depends on.
3. `NetworkInvariant`, `NetworkTypeCorrect`, `OneNetwork`, `OneNameServer`,
   `OnePolicy` follow by induction; `NetworkPromise`, `NameServerPromise` and
   `PolicyPromise`, that the controllers implement `OneObject`, from the same steps.

No display name is shared here (`objects[k].of` is one resource); the models of these
kinds do not say what happens otherwise.

### All kinds of `AnyKind`

`KindTypeCorrect`, `KindInvariant`, `KindAtMostOne` and `KindReleased` are about the
specification `AnyKind` itself: each of its eleven kinds, with the exceptions that
its properties state. They assume what the instances satisfy:

* `Unambiguous`, for a resource or a router: one network of the parent's name was
  there at the start and administrators create no second beside it (`Ambiguous =
  FALSE`). `KindAtMostOne` is false otherwise, since `Create` and `Observe` look in
  different networks. The types alone would do without; they share an induction with
  what is known of parents.
* `GroupsImportTheirOwn`, for a group: no manifest gives it the identifier of another
  resource's group as external name. Nothing in nbgroup.go prevents it: the group would
  then belong to both, the deletion of one resource would delete it behind the back of
  the other, and a create that follows is repeated if its reply is lost. With one
  resource in an instance this cannot arise.

The argument:

1. `AnyKindSteps` goes through every action of every kind and shows it to be one of a
   few steps on worker and account: an observation that finds, misses or goes on to
   list (`Looks`), a creation (`Makes`, by which at most one object `Grows`), an end
   (`Stops`, by which objects only fade), or a step of users and administrators
   (`Edits`). `Evolves(V)` is their disjunction, and `V` those resources of which
   "missing" is true.
   With each come its types (`Typed`), and for what lies in a network that whatever
   lives lives in the one network that does (`Sheltered`). This is where Observe's
   first and Create's last network turn out to be the same.
2. `KindTyped` puts the types of all kinds together; `KindTypeCorrect` follows.
3. `OneInv` is the types, the fence, `CurrentInv`, and one object for each resource.
   For a policy, a name server group, a resource or a router a worker says "missing"
   only when there is nothing, because a lookup that fails is followed by a search
   by name; so `Void` can be taken as the resources with nothing, and `OneStays`
   follows from `Evolves(Void)` and the shared fence. A router whose group is gone
   is `Dismissed`, a person is not counted.
4. A group or a service user that is not there under an identifier is not searched by
   name. "Missing" is then true only if no identifier that a resource has stored leads
   past its object. `SeekInv` adds this to `OneInv`:
   identifiers belong to objects of their resource (`OwnsInv`); as long as a resource
   is live no controller has deleted one of its objects (`GroundedInv`); and the
   identifier in the stored object, as well as any that a worker may still store,
   leads to the one object there is, unless an administrator deleted one (`GuidedInv`).
   The last has to follow both identifiers on their own: a worker whose copy is
   outdated may still write if it annotates, and a status write drops the external
   name that the handler has put in memory, so the two need not agree.
   TLC checked these parts as invariants, with two replicas and three identifiers
   (5.3 million states), before they were proved.
5. The account and its DNS settings are never reported missing (`Unmissed`), hence
   never created; they are let go only when nothing is to be removed (`LetsGo`).
6. `KindAtMostOne` is `One`, kind by kind. `KindReleased`: an object is released by a
   conditional write of a worker that saw nothing, so by the fence there is nothing.

### Authentication

From `ClockAssumption`: two request timeouts fit into the margin (the code has a
margin of five minutes, the runtime a timeout of one). Of the lifetime an issuer
gives nothing is assumed, nor which credentials are static.

1. `TypeCorrect`, `InvariantHolds`. `IInv` says that whoever has connected holds a
   manager, that a mutex is owned by exactly the worker that is refreshing, that a
   manager underestimates the age of an issued token by at most one timeout, and that
   a manager's tokens are issued or static as its credentials are.
2. `OneRefreshAtATime` follows at once.
3. `NoExpiredToken`. A token that passes `TokenNeedsRefresh` has the margin left by
   the manager's count, hence a timeout less in truth, hence enough for the request
   it is used for, which ends within a timeout. A token that never passes, because it
   lives for less than the margin, is requested anew for each handler; the theorem
   says that it is used within its lifetime or else within two timeouts of its issue.
   It says nothing about static tokens, whose end the code does not know.

### Model-checked only

Liveness (all runs with `LiveSpec`), which is out of the prover's reach, and with it
`Converges`, `DeletionCompletes` and `Settles`. The four disagreements of section 3 are
counterexamples and stay what TLC found. The duplicates in the exceptions of `AtMostOne`
are part of the theorem's statement, not of what it excludes.

## 5. What is left out

* Times: a key or token is valid or dead; the grace period after a create is a step
  that may or may not happen. Annotations carry times of one second in the runtime;
  here their order is exact.
* Replacing a static token that has expired or been revoked: `RevokedTokenReplaced` and
  `NoExpiredTokenInUse` are about issued tokens. `ForceRefresh` wraps the same static
  token again (auth.go:128-134), so that every handler meets the 401 until the user
  changes the credentials and, as `auth_creds` shows, the process restarts.
* A request that NetBird executes after its error was returned. No code of the
  repository could tell.
* Management policies but for the singletons, pausing, orphaning on deletion, changes
  of a display name or of the name of a parent after creation.
* Nil pointers where an answer or a specification leaves out what the code
  dereferences, but for the groups of resources and service users: the description of
  a network, the extra settings of an account, `is_service_user` and the role of a
  user, the sources and destinations of a policy's rules. The process ends there and
  comes back to the same specification; nothing else of the state changes.
* The rules of a policy field by field, the block that NbUser's Update lifts and the
  groups it sends back, the users and groups in the status of an account.
* A group that is deleted while a policy holds it: the source does not show what
  NetBird does then. In the model the group is renamed, which loses the name.
* A key without expiry, which is reported with a zero date and counts as expired, and
  the exhausted usage limit of a key, at which `Observe` does not look.
* What NetBird itself refuses (a second group of one name, the deletion of a group
  in use): the source does not show it, so the models allow it.
* `ProviderConfig` reconciler, process entry, API types, generated code: no logic of
  their own.

## 6. Where to go from here

1. `OneObject` for the kinds of `AnyKind` that keep it without exceptions.
2. Resources that share a display name, for the kinds over `NetBirdObjects`, and groups
   that are given the identifier of another resource's group.
3. The rules of a policy, their translation and the comparison as operators over
   bounded rules: what Update has sent is up to date at the next Observe, except for
   groups given by name.
