--------------------------- MODULE NetBirdObjects ---------------------------
(***************************************************************************)
(* The objects of one kind in a NetBird account, and what the controllers  *)
(* do with them whose objects have a name: look one up by identifier,      *)
(* adopt one of the name if that leads nowhere, create, overwrite and      *)
(* delete it.  NbNetwork, NbNameServer and NbPolicy are built from these   *)
(* steps; what they compare and what they send is their own.               *)
(*                                                                         *)
(* Each managed resource has a display name of its own, which nobody       *)
(* changes.                                                                *)
(***************************************************************************)
EXTENDS ManagedReconciler, Naturals

CONSTANTS
  Content,   \* what an object may hold at NetBird
  Imported,  \* identifiers of objects that may exist before the first reconcile
  Reserve    \* identifiers kept back from the environment (bounds recreation)

ASSUME BoundsAssumption ==
  /\ Content # {}
  /\ Imported \subseteq Id
  /\ Reserve \in Nat

VARIABLE
  objects    \* objects[k]: the object with identifier k

vars == <<runtimeVars, objects>>

\* "of" is the managed resource whose display name this is.  Where it matters, an
\* object is "lost" when it was not a controller that deleted it.
NetBirdObject == [state : {"unborn", "live", "deleted", "lost"}, of : MR,
                  holds : Content]

TypeOK ==
  /\ RuntimeTypeOK
  /\ objects \in [Id -> NetBirdObject]

Live(k) == k \in Id /\ objects[k].state = "live"
Unborn == {k \in Id : objects[k].state = "unborn"}
Named(k, m) == objects[k].of = m
ObjectsOf(m) == {k \in Id : Live(k) /\ Named(k, m)}

\* What a deleted object was like makes no difference any more.
Blank == CHOOSE c \in Content : TRUE
Remains(k, left) == [objects[k] EXCEPT !.state = left, !.holds = Blank]

Init ==
  \E born \in SUBSET Imported, m \in MR, c \in Content :
    /\ \A j, k \in born : j = k
    /\ RuntimeInit(born)
    /\ objects = [k \in Id |-> IF k \in born
                                THEN [state |-> "live", of |-> m, holds |-> c]
                                ELSE [state |-> "unborn", of |-> m, holds |-> Blank]]

-----------------------------------------------------------------------------
(* Looking for the object *)

\* status.atProvider.id wins over a missing external name and over one that is
\* only a name.
Lookup(cr) ==
  IF \/ cr.ext = NoId
     \/ cr.sid # NoId /\ cr.sid # cr.ext /\ cr.ext \in {ObjName, DispName}
  THEN cr.sid
  ELSE cr.ext

IsId(e) == e \notin Hints

\* Observe reports the object with identifier k, and remembers it.
Report(m, r, k, verdict) ==
  /\ Go(m, r, [work[m][r] EXCEPT !.pc = "act", !.obs = verdict,
                                 !.cr.ext = k, !.cr.sid = k])
  /\ UNCHANGED objects

ReportMissing(m, r) ==
  /\ Go(m, r, [work[m][r] EXCEPT !.pc = "act", !.obs = "missing"])
  /\ UNCHANGED objects

\* Get finds the object.
Find(m, r, verdict) ==
  LET k == Lookup(work[m][r].cr) IN
  /\ work[m][r].pc = "observe"
  /\ IsId(k) /\ Live(k)
  /\ Report(m, r, k, verdict)

\* Get answers "not found": adoption by name is tried next.
FindNot(m, r) ==
  LET w == work[m][r] IN
  /\ w.pc = "observe"
  /\ IsId(Lookup(w.cr)) /\ ~Live(Lookup(w.cr))
  /\ Go(m, r, [w EXCEPT !.pc = "list"])
  /\ UNCHANGED objects

\* List is called after a "not found", or at once when there is no identifier to
\* look up.
Listing(m, r) ==
  \/ work[m][r].pc = "list"
  \/ work[m][r].pc = "observe" /\ ~IsId(Lookup(work[m][r].cr))

\* One of the name is listed.  What is adopted is always reported outdated.
ListOne(m, r) ==
  /\ Listing(m, r)
  /\ \E k \in ObjectsOf(m) : Report(m, r, k, "outdated")

\* None of the name is listed.
ListNone(m, r) ==
  /\ Listing(m, r)
  /\ ObjectsOf(m) = {}
  /\ ReportMissing(m, r)

-----------------------------------------------------------------------------
(* Changing it *)

\* Which of the new identifiers an object gets makes no difference.
NextIdent == CHOOSE i \in Id : Unborn # {} => i \in Unborn

\* "heard" is false when the reply is lost.
Post(m, r, heard, content) ==
  LET w == work[m][r]
      k == NextIdent
  IN
  /\ w.pc = "create" /\ k \in Unborn
  /\ objects' = [objects EXCEPT ![k] = [state |-> "live", of |-> m, holds |-> content]]
  /\ Go(m, r, IF heard
                THEN [w EXCEPT !.pc = "annotate", !.cr.ext = k, !.cr.create = "succeeded"]
                ELSE [w EXCEPT !.pc = "annotate", !.cr.create = "failed"])

\* Nothing is published, since no Create returns connection details.
PublishNothing(m, r) ==
  /\ work[m][r].pc = "publish"
  /\ Go(m, r, Close(work[m][r]))
  /\ UNCHANGED objects

\* The object with identifier k is overwritten as a whole.
Put(m, r, k, content) ==
  /\ work[m][r].pc = "update"
  /\ Live(k)
  /\ objects' = [objects EXCEPT ![k].holds = content]
  /\ Go(m, r, Close(work[m][r]))

Deleting(m, r) ==
  /\ work[m][r].pc = "act" /\ work[m][r].cr.phase = "deleting"
  /\ work[m][r].obs # "missing"

Remove(m, r, k) ==
  /\ Deleting(m, r)
  /\ Live(k)
  /\ objects' = [objects EXCEPT ![k] = Remains(k, "deleted")]
  /\ Go(m, r, Close(work[m][r]))

-----------------------------------------------------------------------------
(* The rest of the world *)

Spare == Cardinality(Unborn) >= Reserve

UserStep ==
  /\ \E m \in MR : RequestDelete(m) \/ Respecify(m) \/ ClearPending(m)
  /\ UNCHANGED objects

\* An administrator edits or deletes an object.
Tamper(k) ==
  /\ Live(k)
  /\ \E c \in Content : objects' = [objects EXCEPT ![k].holds = c]
  /\ UNCHANGED runtimeVars

Vanish(k, left) ==
  /\ Live(k) /\ Spare
  /\ objects' = [objects EXCEPT ![k] = Remains(k, left)]
  /\ UNCHANGED runtimeVars

WorldStep == UserStep \/ \E k \in Id : Tamper(k) \/ Vanish(k, "deleted")

\* What users and administrators stop doing at some point.
Meddling ==
  \/ \E m \in MR : Respecify(m)
  \/ \E k \in Id : Tamper(k) \/ \E left \in {"deleted", "lost"} : Vanish(k, left)

\* Giving up because the object has moved on, or because k, which was found, has
\* vanished since, is no fault.
Superseded(m, r, k) ==
  LET w == work[m][r] IN
  /\ StepFails(m, r)
  /\ w.stale \/ (w.pc \in {"act", "update"} /\ w.obs # "missing" /\ ~Live(k))

\* The steps all kinds share that go as the code means them to.
Proper(m, r, k) ==
  \/ EnsureFinalizer(m, r) \/ Annotate(m, r) \/ ReportStatus(m, r)
  \/ PublishNothing(m, r) \/ Superseded(m, r, k)

-----------------------------------------------------------------------------
(* Properties *)

\* nbnetwork.go:150-154, nbnameserver.go:148-151, nbpolicy.go:172-173: a create
\* whose external name was never persisted does not mint a duplicate.  No managed
\* resource ever has two objects.
AtMostOneObject == \A m \in MR : \A j, k \in ObjectsOf(m) : j = k

\* The controllers of these kinds keep the promise of OneObject.
Promise == INSTANCE OneObject
           WITH Resource <- MR, Ident <- Id,
                phase <- [m \in MR |-> mr[m].phase],
                owned <- [m \in MR |-> ObjectsOf(m)]

PromiseKept == Promise!Spec
=============================================================================
