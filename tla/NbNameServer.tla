----------------------------- MODULE NbNameServer -----------------------------
(***************************************************************************)
(* The NbNameServer controller:                                            *)
(* internal/controller/nbnameserver/nbnameserver.go under the managed      *)
(* reconciler, against the name server groups of a NetBird account.        *)
(*                                                                         *)
(* "spec" stands for all that a name server group holds.  Two of its       *)
(* fields, Primary and SearchDomainsEnabled, are sent and never compared.  *)
(***************************************************************************)
EXTENDS NetBirdObjects

CONSTANT
  Flagged    \* specifications that differ from Spec0 in these two fields only

-----------------------------------------------------------------------------
(* Observe *)

Compared(spec) == IF spec \in Flagged THEN Spec0 ELSE spec

\* IsNbNameServerUpToDate
Comparison(cr, k) ==
  IF Compared(objects[k].holds) = Compared(cr.spec) THEN "uptodate" ELSE "outdated"

ObserveFound(m, r) == Find(m, r, Comparison(work[m][r].cr, Lookup(work[m][r].cr)))

ObserveNotFound(m, r) == FindNot(m, r)

\* Adoption fills in the identifier and none of the lists that the schema of the
\* status demands (nbnameserver_types.go: domains, groups, nameservers): unless an
\* earlier Observe has filled them in, the API server rejects the status, and the
\* identifier with it.
Adopt(m, r) ==
  /\ Listing(m, r)
  /\ \E k \in ObjectsOf(m) :
       Go(m, r, [work[m][r] EXCEPT !.pc = "act", !.obs = "outdated", !.cr.ext = k,
                                   !.cr.sid = IF @ = NoId THEN NoId ELSE k])
  /\ UNCHANGED objects

ObserveMissing(m, r) == ListNone(m, r)

-----------------------------------------------------------------------------
(* Create, Update, Delete *)

Create(m, r, heard) == Post(m, r, heard, work[m][r].cr.spec)

Publish(m, r) == PublishNothing(m, r)

Update(m, r) == Put(m, r, Lookup(work[m][r].cr), work[m][r].cr.spec)

Delete(m, r) == Remove(m, r, Lookup(work[m][r].cr))

-----------------------------------------------------------------------------
(* Specification *)

HandlerStep(m, r) ==
  \/ ObserveFound(m, r) \/ ObserveNotFound(m, r)
  \/ Adopt(m, r) \/ ObserveMissing(m, r)
  \/ \E heard \in BOOLEAN : Create(m, r, heard)
  \/ Publish(m, r) \/ Update(m, r) \/ Delete(m, r)

WorkerStep(m, r) ==
  \/ SecretlessStep(m, r) /\ UNCHANGED objects
  \/ HandlerStep(m, r)

Next == (\E m \in MR, r \in Replica : WorkerStep(m, r)) \/ WorldStep

Spec == Init /\ [][Next]_vars

Fault(m, r) ==
  /\ Breakdown(m, r) \/ Create(m, r, FALSE)
  /\ ~(Proper(m, r, Lookup(work[m][r].cr)) \/ Update(m, r) \/ Delete(m, r))

-----------------------------------------------------------------------------
(* Properties; AtMostOneObject is in NetBirdObjects *)

LeavesNothing(m) == ObjectsOf(m) = {}

\* A live object has its name server group, as it specifies it but for the two
\* fields, unless a lost create waits for the operator.
Served(m) ==
  \/ mr[m].phase # "live" \/ Unresolved(m)
  \/ \E k \in ObjectsOf(m) : Compared(objects[k].holds) = Compared(mr[m].spec)

Stuck(m) == Unresolved(m)

\* The name server group is overwritten again and again if adoption did not get
\* its identifier into the object: it is adopted anew each time.
Restless(m) == ~Live(Lookup(mr[m]))
=============================================================================
