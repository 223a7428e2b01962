--------------------------- MODULE NbNetworkRouter ---------------------------
(***************************************************************************)
(* The NbNetworkRouter controller:                                         *)
(* internal/controller/nbnetworkrouter/nbnetworkrouter.go under the        *)
(* managed reconciler.  A router lives inside a network, its parent        *)
(* (ParentNetworks), and has no name: it is known again by what it routes  *)
(* through, a peer given by identifier or a group of peers given by name.  *)
(* The group may not exist yet, or no longer.                              *)
(*                                                                         *)
(* "spec" stands for peer or group, enabled, masquerade and metric; all    *)
(* specifications that give a group give the same one, and all that give a *)
(* peer the same one.  Each managed resource has a peer and a group of its *)
(* own.                                                                    *)
(***************************************************************************)
EXTENDS ParentNetworks

CONSTANTS
  ByPeer,    \* specifications that give a peer; the others give a group
  Imported,  \* identifiers of routers that may exist before the first reconcile
  Reserve    \* identifiers kept back from the environment (bounds recreation)

VARIABLES
  routers,   \* routers[k]: the router with identifier k
  group      \* whether the groups that are asked for exist yet, exist, or have existed

vars == <<runtimeVars, parentVars, routers, group>>

\* "of" is the managed resource whose peer or group this is.
Router == [state : {"unborn", "live", "deleted"}, net : Net, of : MR, spec : Desired]

TypeOK ==
  /\ RuntimeTypeOK
  /\ ParentsTypeOK
  /\ routers \in [Id -> Router]
  /\ group \in {"unborn", "live", "deleted"}

\* Routers(p).Get, List, Update and Delete only see what is inside p.
Under(k, p) == k \in Id /\ routers[k].state = "live" /\ routers[k].net = p
Live(k) == k \in Id /\ routers[k].state = "live"
Unborn == {k \in Id : routers[k].state = "unborn"}
OwnedBy(k, m) == routers[k].of = m

\* What a deleted router was like makes no difference any more.
Remains(k) == [routers[k] EXCEPT !.state = "deleted", !.spec = Spec0]

\* The name of the group leads to a group; a peer needs no lookup.
Resolves(spec) == spec \in ByPeer \/ group = "live"

Init ==
  \E born \in SUBSET Imported, m \in MR, p \in Initial :
    /\ \A j, k \in born : j = k
    /\ RuntimeInit(born)
    /\ ParentsInit
    /\ routers = [k \in Id |-> [state |-> IF k \in born THEN "live" ELSE "unborn",
                                net |-> p, of |-> m, spec |-> Spec0]]
    /\ group \in (IF born = {} /\ ByPeer # Desired THEN {"unborn", "live"} ELSE {"live"})

-----------------------------------------------------------------------------
(* Observe *)

\* resolveNetworkRouterLookupID: status.atProvider.id wins over a missing external
\* name and over the object name.
Lookup(cr) ==
  IF cr.ext = NoId \/ (cr.sid # NoId /\ cr.ext = ObjName) THEN cr.sid ELSE cr.ext

\* A display name passes for an identifier, which is not found.
IsId(e) == e \notin {NoId, ObjName}

\* Mutant: only what the router routes through is compared.
ComparisonByTarget(cr, k) ==
  IF /\ (routers[k].spec \in ByPeer) = (cr.spec \in ByPeer)
     /\ Resolves(cr.spec)
  THEN "uptodate" ELSE "outdated"

\* isNetworkRouterUpToDate
Comparison(cr, k) ==
  IF routers[k].spec = cr.spec /\ Resolves(cr.spec) THEN "uptodate" ELSE "outdated"

\* Without a parent Observe fails, whatever became of the router.
ObserveOrphan(m, r) ==
  /\ work[m][r].pc = "observe"
  /\ Parents = {}
  /\ Go(m, r, Close(work[m][r]))
  /\ UNCHANGED <<nets, routers, group>>

\* Routers(parent).Get finds the router: it is recorded and compared.
ObserveFound(m, r) ==
  LET w == work[m][r]
      k == Lookup(w.cr)
  IN
  /\ w.pc = "observe"
  /\ Parents # {}
  /\ IsId(k) /\ Under(k, Observed)
  /\ Go(m, r, [w EXCEPT !.pc = "act", !.obs = Comparison(w.cr, k),
                        !.cr.ext = k, !.cr.sid = k])
  /\ UNCHANGED <<nets, routers, group>>

\* It answers "not found": the routers of the same parent are listed next.
ObserveNotFound(m, r) ==
  LET w == work[m][r] IN
  /\ w.pc = "observe"
  /\ Parents # {}
  /\ IsId(Lookup(w.cr)) /\ ~Under(Lookup(w.cr), Observed)
  /\ Go(m, r, [w EXCEPT !.pc = "list"])
  /\ UNCHANGED <<nets, routers, group>>

\* Routers(parent).List, then Groups.List, are called after a "not found", or at
\* once when there is no identifier to look up.
Listing(m, r) ==
  \/ work[m][r].pc = "list"
  \/ work[m][r].pc = "observe" /\ ~IsId(Lookup(work[m][r].cr)) /\ Parents # {}

\* The router routes through the peer of m's specification, or through its group.
Matches(k, m, spec) ==
  /\ OwnedBy(k, m)
  /\ (routers[k].spec \in ByPeer) = (spec \in ByPeer)

\* Mutant: the name is recorded where the identifier belongs.
AdoptedByName(w, k) == [w EXCEPT !.pc = "act", !.obs = "outdated",
                                 !.cr.ext = DispName, !.cr.sid = DispName]

\* An adopted router is always reported outdated.
Adopted(w, k) == [w EXCEPT !.pc = "act", !.obs = "outdated",
                           !.cr.ext = k, !.cr.sid = k]

Adopt(m, r) ==
  /\ Listing(m, r)
  /\ Resolves(work[m][r].cr.spec)
  /\ \E k \in Id : /\ Under(k, Listed(m, r)) /\ Matches(k, m, work[m][r].cr.spec)
                   /\ Go(m, r, Adopted(work[m][r], k))
  /\ UNCHANGED <<nets, routers, group>>

\* Mutant: a failing list, as of a network that is gone, passes for an empty one.
ObserveMissingUnlisted(m, r) ==
  /\ Listing(m, r)
  /\ Go(m, r, [work[m][r] EXCEPT !.pc = "act", !.obs = "missing"])
  /\ UNCHANGED <<nets, routers, group>>

\* No router matches; or the group is not there to compare with.
ObserveMissing(m, r) ==
  /\ Listing(m, r)
  /\ Listed(m, r) \in Parents
  /\ \/ ~Resolves(work[m][r].cr.spec)
     \/ \A k \in Id : ~(/\ Under(k, Listed(m, r))
                        /\ Matches(k, m, work[m][r].cr.spec))
  /\ Go(m, r, [work[m][r] EXCEPT !.pc = "act", !.obs = "missing"])
  /\ UNCHANGED <<nets, routers, group>>

-----------------------------------------------------------------------------
(* Create, Update, Delete *)

\* Routers(parent).Create in the last network of the name; "heard" is false when
\* the reply is lost.  Which of the new identifiers the router gets makes no
\* difference.
Create(m, r, heard) ==
  LET w == work[m][r]
      k == CHOOSE i \in Unborn : TRUE
  IN
  /\ w.pc = "create" /\ Unborn # {}
  /\ Parents # {} /\ Resolves(w.cr.spec)
  /\ routers' = [routers EXCEPT ![k] = [state |-> "live", net |-> Chosen, of |-> m,
                                        spec |-> w.cr.spec]]
  /\ Go(m, r, IF heard
                THEN [w EXCEPT !.pc = "annotate", !.cr.ext = k, !.cr.create = "succeeded"]
                ELSE [w EXCEPT !.pc = "annotate", !.cr.create = "failed"])
  /\ UNCHANGED <<nets, group>>

\* Nothing is published, since Create returns no connection details.
Publish(m, r) ==
  /\ work[m][r].pc = "publish"
  /\ Go(m, r, Close(work[m][r]))
  /\ UNCHANGED <<nets, routers, group>>

\* Update overwrites the router with the specification this worker read, in the
\* first network of the name.
Update(m, r) ==
  LET w == work[m][r]
      k == Lookup(w.cr)
  IN
  /\ w.pc = "update"
  /\ Parents # {} /\ Resolves(w.cr.spec)
  /\ Under(k, Observed)
  /\ routers' = [routers EXCEPT ![k].spec = w.cr.spec]
  /\ Go(m, r, Close(w))
  /\ UNCHANGED <<nets, group>>

\* Delete removes the router Observe found, from the last network of the name.
Delete(m, r) ==
  LET w == work[m][r]
      k == Lookup(w.cr)
  IN
  /\ w.pc = "act"
  /\ w.cr.phase = "deleting"
  /\ w.obs # "missing"
  /\ Parents # {} /\ Under(k, Chosen)
  /\ routers' = [routers EXCEPT ![k] = Remains(k)]
  /\ Go(m, r, Close(w))
  /\ UNCHANGED <<nets, group>>

-----------------------------------------------------------------------------
(* The rest of the world *)

Spare == Cardinality(Unborn) >= Reserve

\* A network of the name is created; or deleted, and all it contains with it.
Arrive(p) == Appear(p) /\ UNCHANGED <<routers, group>>

Leave(p) ==
  /\ Spare
  /\ Disappear(p)
  /\ routers' = [k \in Id |-> IF Under(k, p) THEN Remains(k) ELSE routers[k]]
  /\ UNCHANGED group

\* The group is created; or renamed, and its name is not used again.  (Whether it
\* exists makes no difference where all specifications give a peer.)
GroupComes ==
  /\ group = "unborn"
  /\ group' = "live"
  /\ UNCHANGED <<runtimeVars, parentVars, routers>>

GroupGoes ==
  /\ group = "live" /\ ByPeer # Desired
  /\ group' = "deleted"
  /\ UNCHANGED <<runtimeVars, parentVars, routers>>

\* An administrator edits or deletes a router.
Tamper(k) ==
  /\ Live(k)
  /\ \E d \in Desired : routers' = [routers EXCEPT ![k].spec = d]
  /\ UNCHANGED <<runtimeVars, parentVars, group>>

Vanish(k) ==
  /\ Live(k) /\ Spare
  /\ routers' = [routers EXCEPT ![k] = Remains(k)]
  /\ UNCHANGED <<runtimeVars, parentVars, group>>

-----------------------------------------------------------------------------
(* Specification *)

HandlerStep(m, r) ==
  \/ ObserveOrphan(m, r) \/ ObserveFound(m, r) \/ ObserveNotFound(m, r)
  \/ Adopt(m, r) \/ ObserveMissing(m, r)
  \/ \E heard \in BOOLEAN : Create(m, r, heard)
  \/ Publish(m, r) \/ Update(m, r) \/ Delete(m, r)

WorkerStep(m, r) ==
  /\ \/ SecretlessStep(m, r) /\ UNCHANGED <<nets, routers, group>>
     \/ HandlerStep(m, r)
  /\ Holds(m, r)

others == <<parentVars, routers, group>>

UserStep(m) == (RequestDelete(m) \/ Respecify(m)) /\ UNCHANGED others

Next ==
  \/ \E m \in MR, r \in Replica : WorkerStep(m, r)
  \/ \E m \in MR : UserStep(m) \/ (ClearPending(m) /\ UNCHANGED others)
  \/ \E p \in Net : Arrive(p) \/ Leave(p)
  \/ GroupComes \/ GroupGoes
  \/ \E k \in Id : Tamper(k) \/ Vanish(k)

Spec == Init /\ [][Next]_vars

\* A step that goes as the code means it to; or gives up because the object has
\* moved on, the router or its parent has vanished since, or the group of the
\* specification is not there.
Working(m, r) ==
  LET w == work[m][r]
      vanished == /\ w.obs # "missing"
                  /\ Parents = {} \/ ~Under(Lookup(w.cr), Chosen)
      groupless == ~Resolves(w.cr.spec)
  IN
  \/ ObserveOrphan(m, r) \/ EnsureFinalizer(m, r) \/ Annotate(m, r)
  \/ ReportStatus(m, r) \/ Update(m, r) \/ Delete(m, r) \/ Publish(m, r)
  \/ StepFails(m, r) /\ \/ w.stale
                        \/ w.pc \in {"act", "update"} /\ vanished
                        \/ w.pc = "update" /\ groupless
                        \/ w.pc = "list" /\ parent[m][r] \notin Parents
  \/ CreateRefused(m, r) /\ (Parents = {} \/ groupless)

\* Any other step that loses a reply, fails or stops half-way; or does not count
\* the router of a recent create as lost yet.
Fault(m, r) ==
  /\ \/ Breakdown(m, r)
     \/ Create(m, r, FALSE)
  /\ ~Working(m, r)

\* What users and administrators stop doing at some point.
Meddling == (\E m \in MR : Respecify(m)) \/ \E k \in Id : Tamper(k) \/ Vanish(k)

-----------------------------------------------------------------------------
(* Properties *)

\* nbnetworkrouter.go:200-201: a create whose external name was never persisted
\* does not mint a duplicate.  Holds as long as the specification keeps to the
\* peer or to the group: a router is looked for by what it should route through.
AtMostOneRouter ==
  \A m \in MR : \A j, k \in Id :
    Live(j) /\ Live(k) /\ OwnedBy(j, m) /\ OwnedBy(k, m) => j = k

\* A deleted object is let go only when its router is gone, as long as the group
\* it gives can be found.
LeavesNothing(m) ==
  Resolves(mr[m].spec) => \A k \in Id : ~(Live(k) /\ OwnedBy(k, m))

\* A live object has its router in the network of the name, as it specifies it,
\* unless a lost create waits for the operator or network or group are missing.
Served(m) ==
  \/ mr[m].phase # "live" \/ Unresolved(m)
  \/ Parents = {} \/ ~Resolves(mr[m].spec)
  \/ \E k \in Id : /\ Under(k, Observed) /\ OwnedBy(k, m)
                   /\ routers[k].spec = mr[m].spec

\* A deleted object may stay without a parent, or while a lost create waits for
\* the operator.
Stuck(m) == Unresolved(m) \/ Parents = {}
=============================================================================
