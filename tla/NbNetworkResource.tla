-------------------------- MODULE NbNetworkResource --------------------------
(***************************************************************************)
(* The NbNetworkResource controller:                                       *)
(* internal/controller/nbnetworkresource/nbnetworkresource.go under the    *)
(* managed reconciler.  A network resource lives inside a NetBird network, *)
(* its parent; every handler looks the parent up again, and not all in the *)
(* same way (ParentNetworks).                                              *)
(*                                                                         *)
(* Each resource has a display name of its own, which nobody changes.      *)
(* "spec" stands for address, description, enabled and groups.             *)
(***************************************************************************)
EXTENDS ParentNetworks

CONSTANTS
  Groupless, \* specifications that leave out the groups, which is allowed
  Imported,  \* identifiers of resources that may exist before the first reconcile
  Reserve    \* identifiers kept back from the environment (bounds recreation)

VARIABLE
  res        \* res[k]: the network resource with identifier k

vars == <<runtimeVars, parentVars, res>>

\* "of" is the managed resource whose display name this is.
Resource == [state : {"unborn", "live", "deleted"}, net : Net, of : MR,
             spec : Desired]

TypeOK ==
  /\ RuntimeTypeOK
  /\ ParentsTypeOK
  /\ res \in [Id -> Resource]

\* Resources(p).Get, List, Update and Delete only see what is inside p.
Under(k, p) == k \in Id /\ res[k].state = "live" /\ res[k].net = p

Live(k) == k \in Id /\ res[k].state = "live"
Unborn == {k \in Id : res[k].state = "unborn"}
Named(k, m) == res[k].of = m

\* What a deleted resource was like makes no difference any more.
Remains(k) == [res[k] EXCEPT !.state = "deleted", !.spec = Spec0]

Init ==
  \E born \in SUBSET Imported, m \in MR, p \in Initial :
    /\ \A j, k \in born : j = k
    /\ RuntimeInit(born)
    /\ ParentsInit
    /\ res = [k \in Id |-> [state |-> IF k \in born THEN "live" ELSE "unborn",
                            net |-> p, of |-> m, spec |-> Spec0]]

-----------------------------------------------------------------------------
(* Observe *)

\* resolveNetworkResourceLookupID: status.atProvider.id wins over a missing
\* external name and over one that is only a name.
Lookup(cr) ==
  IF \/ cr.ext = NoId
     \/ cr.sid # NoId /\ cr.sid # cr.ext /\ cr.ext \in {ObjName, DispName}
  THEN cr.sid
  ELSE cr.ext

IsId(e) == e \notin Hints

\* Mutant: only whether the resource exists is compared.
ComparisonByName(cr, k) == "uptodate"

\* isNetworkResourceUpToDate; specifications that leave out the groups differ from
\* the others in more than the groups.
Comparison(cr, k) == IF res[k].spec = cr.spec THEN "uptodate" ELSE "outdated"

\* Without a parent Observe fails, whatever became of the resource.
ObserveOrphan(m, r) ==
  /\ work[m][r].pc = "observe"
  /\ Parents = {}
  /\ Go(m, r, Close(work[m][r]))
  /\ UNCHANGED <<nets, res>>

\* Resources(parent).Get finds the resource: it is recorded and compared.
ObserveFound(m, r) ==
  LET w == work[m][r]
      k == Lookup(w.cr)
  IN
  /\ w.pc = "observe"
  /\ Parents # {}
  /\ IsId(k) /\ Under(k, Observed)
  /\ Go(m, r, [w EXCEPT !.pc = "act", !.obs = Comparison(w.cr, k),
                        !.cr.ext = k, !.cr.sid = k])
  /\ UNCHANGED <<nets, res>>

\* It answers "not found": the resources of the same parent are listed next.
ObserveNotFound(m, r) ==
  LET w == work[m][r] IN
  /\ w.pc = "observe"
  /\ Parents # {}
  /\ IsId(Lookup(w.cr)) /\ ~Under(Lookup(w.cr), Observed)
  /\ Go(m, r, [w EXCEPT !.pc = "list"])
  /\ UNCHANGED <<nets, res>>

\* Resources(parent).List is called after a "not found", or at once when there
\* is no identifier to look up.
Listing(m, r) ==
  \/ work[m][r].pc = "list"
  \/ work[m][r].pc = "observe" /\ ~IsId(Lookup(work[m][r].cr)) /\ Parents # {}

\* Mutant: the name is recorded where the identifier belongs.
AdoptedByName(w, k) == [w EXCEPT !.pc = "act", !.obs = "outdated",
                                 !.cr.ext = DispName, !.cr.sid = DispName]

\* A resource adopted by name is always reported outdated.
Adopted(w, k) == [w EXCEPT !.pc = "act", !.obs = "outdated",
                           !.cr.ext = k, !.cr.sid = k]

Adopt(m, r) ==
  /\ Listing(m, r)
  /\ \E k \in Id : /\ Under(k, Listed(m, r)) /\ Named(k, m)
                   /\ Go(m, r, Adopted(work[m][r], k))
  /\ UNCHANGED <<nets, res>>

\* Mutant: a failing list, as of a network that is gone, passes for an empty one.
ObserveMissingUnlisted(m, r) ==
  /\ Listing(m, r)
  /\ Go(m, r, [work[m][r] EXCEPT !.pc = "act", !.obs = "missing"])
  /\ UNCHANGED <<nets, res>>

ObserveMissing(m, r) ==
  /\ Listing(m, r)
  /\ Listed(m, r) \in Parents
  /\ \A k \in Id : ~(Under(k, Listed(m, r)) /\ Named(k, m))
  /\ Go(m, r, [work[m][r] EXCEPT !.pc = "act", !.obs = "missing"])
  /\ UNCHANGED <<nets, res>>

-----------------------------------------------------------------------------
(* Create, Update, Delete *)

\* Resources(parent).Create; "heard" is false when the reply is lost.  Leaving
\* out the groups is a nil pointer: the process ends before the call.  Which of the
\* new identifiers the resource gets makes no difference.
Create(m, r, heard) ==
  LET w == work[m][r]
      k == CHOOSE i \in Unborn : TRUE
  IN
  /\ w.pc = "create" /\ Unborn # {}
  /\ Parents # {} /\ w.cr.spec \notin Groupless
  /\ res' = [res EXCEPT ![k] = [state |-> "live", net |-> Chosen, of |-> m,
                                spec |-> w.cr.spec]]
  /\ Go(m, r, IF heard
                THEN [w EXCEPT !.pc = "annotate", !.cr.ext = k, !.cr.create = "succeeded"]
                ELSE [w EXCEPT !.pc = "annotate", !.cr.create = "failed"])
  /\ UNCHANGED nets

\* Nothing is published, since Create returns no connection details.
Publish(m, r) ==
  /\ work[m][r].pc = "publish"
  /\ Go(m, r, Close(work[m][r]))
  /\ UNCHANGED <<nets, res>>

\* Update overwrites the resource with the specification this worker read; the
\* groups are dereferenced as in Create.
Update(m, r) ==
  LET w == work[m][r]
      k == Lookup(w.cr)
  IN
  /\ w.pc = "update"
  /\ Parents # {} /\ w.cr.spec \notin Groupless
  /\ Under(k, Chosen)
  /\ res' = [res EXCEPT ![k].spec = w.cr.spec]
  /\ Go(m, r, Close(w))
  /\ UNCHANGED nets

\* Mutant: Delete does nothing.
DeleteNothing(m, r) ==
  LET w == work[m][r] IN
  /\ w.pc = "act"
  /\ w.cr.phase = "deleting"
  /\ w.obs # "missing"
  /\ Go(m, r, Close(w))
  /\ UNCHANGED <<nets, res>>

\* Delete removes the resource Observe found.
Delete(m, r) ==
  LET w == work[m][r]
      k == Lookup(w.cr)
  IN
  /\ w.pc = "act"
  /\ w.cr.phase = "deleting"
  /\ w.obs # "missing"
  /\ Parents # {} /\ Under(k, Chosen)
  /\ res' = [res EXCEPT ![k] = Remains(k)]
  /\ Go(m, r, Close(w))
  /\ UNCHANGED nets

-----------------------------------------------------------------------------
(* The rest of the world *)

Spare == Cardinality(Unborn) >= Reserve

\* A network of the name is created; or deleted, and all it contains with it.
Arrive(p) == Appear(p) /\ UNCHANGED res

Leave(p) ==
  /\ Spare
  /\ Disappear(p)
  /\ res' = [k \in Id |-> IF Under(k, p) THEN Remains(k) ELSE res[k]]

\* An administrator edits or deletes a resource.
Tamper(k) ==
  /\ Live(k)
  /\ \E d \in Desired : res' = [res EXCEPT ![k].spec = d]
  /\ UNCHANGED <<runtimeVars, parentVars>>

Vanish(k) ==
  /\ Live(k) /\ Spare
  /\ res' = [res EXCEPT ![k] = Remains(k)]
  /\ UNCHANGED <<runtimeVars, parentVars>>

-----------------------------------------------------------------------------
(* Specification *)

HandlerStep(m, r) ==
  \/ ObserveOrphan(m, r) \/ ObserveFound(m, r) \/ ObserveNotFound(m, r)
  \/ Adopt(m, r) \/ ObserveMissing(m, r)
  \/ \E heard \in BOOLEAN : Create(m, r, heard)
  \/ Publish(m, r) \/ Update(m, r) \/ Delete(m, r)

others == <<parentVars, res>>

WorkerStep(m, r) ==
  /\ \/ SecretlessStep(m, r) /\ UNCHANGED <<nets, res>>
     \/ HandlerStep(m, r)
  /\ Holds(m, r)

UserStep(m) == RequestDelete(m) \/ Respecify(m)

Next ==
  \/ \E m \in MR, r \in Replica : WorkerStep(m, r)
  \/ \E m \in MR : (UserStep(m) \/ ClearPending(m)) /\ UNCHANGED others
  \/ \E p \in Net : Arrive(p) \/ Leave(p)
  \/ \E k \in Id : Tamper(k) \/ Vanish(k)

Spec == Init /\ [][Next]_vars

\* A step that goes as the code means it to; or gives up because the object has
\* moved on, or the resource it found or its parent has vanished since; or ends
\* in the nil pointer.
Working(m, r) ==
  LET w == work[m][r]
      vanished == /\ w.obs # "missing"
                  /\ Parents = {} \/ ~Under(Lookup(w.cr), Chosen)
      groupless == w.cr.spec \in Groupless
  IN
  \/ ObserveOrphan(m, r) \/ EnsureFinalizer(m, r) \/ Annotate(m, r)
  \/ ReportStatus(m, r) \/ Update(m, r) \/ Delete(m, r) \/ Publish(m, r)
  \/ StepFails(m, r) /\ \/ w.stale
                        \/ w.pc \in {"act", "update"} /\ vanished
                        \/ w.pc = "list" /\ parent[m][r] \notin Parents
  \/ CreateRefused(m, r) /\ Parents = {}
  \/ Abandon(m, r) /\ w.pc \in {"create", "update"} /\ groupless

\* Any other step that loses a reply, fails or stops half-way; or does not count
\* the resource of a recent create as lost yet.
Fault(m, r) ==
  /\ \/ Breakdown(m, r)
     \/ Create(m, r, FALSE)
  /\ ~Working(m, r)

\* What users and administrators stop doing at some point.
Meddling == (\E m \in MR : Respecify(m)) \/ \E k \in Id : Tamper(k) \/ Vanish(k)

-----------------------------------------------------------------------------
(* Properties *)

\* nbnetworkresource.go:196-198: a create whose external name was never persisted
\* does not mint a duplicate: no managed resource ever has two network resources.
AtMostOneResource ==
  \A m \in MR : \A j, k \in Id :
    Live(j) /\ Live(k) /\ Named(j, m) /\ Named(k, m) => j = k

\* A deleted object is let go only when its network resource is gone.
LeavesNothing(m) == \A k \in Id : ~(Live(k) /\ Named(k, m))

\* A network resource follows its parent: a live object has its resource in the
\* network of the name, as it specifies it, unless there is none, a lost create
\* waits for the operator or the groups are missing from the specification.
Served(m) ==
  \/ mr[m].phase # "live" \/ Unresolved(m)
  \/ mr[m].spec \in Groupless \/ Parents = {}
  \/ \E k \in Id : /\ Under(k, Observed) /\ Named(k, m)
                   /\ res[k].spec = mr[m].spec

\* A deleted object may stay without a parent, or while a lost create waits for
\* the operator.
Stuck(m) == Unresolved(m) \/ Parents = {}
=============================================================================
