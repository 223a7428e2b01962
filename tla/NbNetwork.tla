------------------------------ MODULE NbNetwork ------------------------------
(***************************************************************************)
(* The NbNetwork controller: internal/controller/nbnetwork/nbnetwork.go    *)
(* under the managed reconciler, against the networks of a NetBird         *)
(* account.  A network is compared with the specification on every         *)
(* reconcile and overwritten when it differs, whoever changed it; it is    *)
(* adopted by name when no identifier leads to it.                         *)
(*                                                                         *)
(* What "spec" stands for is the description.                              *)
(***************************************************************************)
EXTENDS NetBirdObjects

ASSUME ContentAssumption == Content = Desired

-----------------------------------------------------------------------------
(* Observe *)

\* Mutant: only whether the network exists is compared.
ComparisonByName(cr, k) == "uptodate"

\* isnetworkuptodate
Comparison(cr, k) == IF objects[k].holds = cr.spec THEN "uptodate" ELSE "outdated"

ObserveFound(m, r) == Find(m, r, Comparison(work[m][r].cr, Lookup(work[m][r].cr)))

ObserveNotFound(m, r) == FindNot(m, r)

\* Mutant: the name is recorded where the identifier belongs.
AdoptName(m, r) == Listing(m, r) /\ ObjectsOf(m) # {} /\ Report(m, r, DispName, "outdated")

Adopt(m, r) == ListOne(m, r)

\* Mutant: a failing list passes for an empty one.
ObserveMissingUnlisted(m, r) == Listing(m, r) /\ ReportMissing(m, r)

ObserveMissing(m, r) == ListNone(m, r)

-----------------------------------------------------------------------------
(* Create, Update, Delete *)

Create(m, r, heard) == Post(m, r, heard, work[m][r].cr.spec)

Publish(m, r) == PublishNothing(m, r)

\* Update sends the specification this worker read.
Update(m, r) == Put(m, r, Lookup(work[m][r].cr), work[m][r].cr.spec)

\* Mutant: Delete does nothing.
DeleteNothing(m, r) == Deleting(m, r) /\ Go(m, r, Close(work[m][r])) /\ UNCHANGED objects

Delete(m, r) == Remove(m, r, Lookup(work[m][r].cr))

-----------------------------------------------------------------------------
(* Specification *)

HandlerStep(m, r) ==
  \/ ObserveFound(m, r) \/ ObserveNotFound(m, r)
  \/ Adopt(m, r) \/ ObserveMissing(m, r)
  \/ \E heard \in BOOLEAN : Create(m, r, heard)
  \/ Publish(m, r) \/ Update(m, r) \/ Delete(m, r)

WorkerStep(m, r) ==
  \/ SecretlessStep(m, r) /\ UNCHANGED objects
  \/ HandlerStep(m, r)

Next == (\E m \in MR, r \in Replica : WorkerStep(m, r)) \/ WorldStep

Spec == Init /\ [][Next]_vars

Fault(m, r) ==
  /\ Breakdown(m, r) \/ Create(m, r, FALSE)
  /\ ~(Proper(m, r, Lookup(work[m][r].cr)) \/ Update(m, r) \/ Delete(m, r))

\* As in NbSetupKey: every call returns, the watch delivers, objects come back,
\* and the faults end at some point.
Fairness ==
  /\ \A m \in MR, r \in Replica :
       /\ WF_vars(WorkerStep(m, r) /\ work'[m][r] # work[m][r])
       /\ WF_vars(SyncCache(m, r) /\ UNCHANGED objects)
  /\ <>[][\A m \in MR, r \in Replica : ~Fault(m, r)]_vars

\* Users and administrators leave the resource alone at some point.
Quiet == <>[][~Meddling]_vars

LiveSpec == Spec /\ Fairness /\ Quiet

-----------------------------------------------------------------------------
(* Properties; AtMostOneObject and PromiseKept are in NetBirdObjects *)

\* isnetworkuptodate and Update: once nobody interferes, the network stays as the
\* specification wants it, although a replica with an old copy may have written
\* that copy over a newer one; unless a lost create waits for the operator.
Converges ==
  \A m \in MR :
    <>[](\/ mr[m].phase # "live" \/ Unresolved(m)
         \/ \E k \in ObjectsOf(m) : objects[k].holds = mr[m].spec)

\* A deleted resource disappears, with the same exception.
DeletionCompletes ==
  \A m \in MR :
    mr[m].phase = "deleting" ~> (mr[m].phase = "gone" \/ Unresolved(m))

\* nbnetwork.go:195: adoption reports "not up to date" to "force requeue to
\* persist external name".  An adopted network ends up in the annotation.
AdoptionPersisted ==
  \A m \in MR, k \in Id :
    mr[m].phase = "live" /\ mr[m].sid = k /\ Live(k)
      ~> mr[m].ext = k \/ mr[m].phase # "live" \/ ~Live(k) \/ Unresolved(m)
=============================================================================
