------------------------------- MODULE NbGroup -------------------------------
(***************************************************************************)
(* The NbGroup controller: internal/controller/nbgroup/nbgroup.go under    *)
(* the managed reconciler.  A group has a name and nothing else the        *)
(* provider manages: Observe never reports it outdated and Update, which   *)
(* does nothing, is never called.  Three lookups that differ more than in  *)
(* the key: by identifier without any fallback, by name with adoption, and *)
(* by a display name that stands for the external name, which leaves it    *)
(* there.                                                                  *)
(***************************************************************************)
EXTENDS NetBirdObjects

-----------------------------------------------------------------------------
(* Observe *)

\* resolveGroupLookupID: status.atProvider.id wins over a missing external name
\* and over the object name, not over a display name.
LookupID(cr) ==
  IF cr.ext = NoId \/ (cr.sid # NoId /\ cr.ext = ObjName) THEN cr.sid ELSE cr.ext

Observing(m, r) == work[m][r].pc = "observe"

Nameless(cr) == LookupID(cr) \in {NoId, ObjName}
ByDisplayName(cr) == ~Nameless(cr) /\ LookupID(cr) = DispName
ById(cr) == LookupID(cr) \in Id

\* The group is found, but its identifier is recorded in the status only.
ReportNamed(m, r) ==
  /\ \E k \in ObjectsOf(m) :
       Go(m, r, [work[m][r] EXCEPT !.pc = "act", !.obs = "uptodate", !.cr.sid = k])
  /\ UNCHANGED objects

\* No identifier: a group of the name is adopted.
Adopt(m, r) ==
  /\ Observing(m, r) /\ Nameless(work[m][r].cr)
  /\ \E k \in ObjectsOf(m) : Report(m, r, k, "uptodate")

\* The external name is the display name, and remains it.
ObserveNamed(m, r) ==
  Observing(m, r) /\ ByDisplayName(work[m][r].cr) /\ ReportNamed(m, r)

\* Mutant: a failing list passes for an empty one.
ObserveMissingUnlisted(m, r) ==
  Observing(m, r) /\ ~ById(work[m][r].cr) /\ ReportMissing(m, r)

\* No group of the name is listed.
ObserveMissing(m, r) ==
  /\ Observing(m, r) /\ ~ById(work[m][r].cr)
  /\ ObjectsOf(m) = {}
  /\ ReportMissing(m, r)

\* Groups.Get finds the group.
ObserveFound(m, r) ==
  LET k == LookupID(work[m][r].cr) IN
  Observing(m, r) /\ Live(k) /\ Report(m, r, k, "uptodate")

\* Groups.Get answers "not found", and that is final: there is no adoption.
ObserveNotFound(m, r) ==
  /\ Observing(m, r) /\ ById(work[m][r].cr)
  /\ ~Live(LookupID(work[m][r].cr))
  /\ ReportMissing(m, r)

-----------------------------------------------------------------------------
(* Create, Delete *)

\* A group holds nothing that could differ.
Create(m, r, heard) == Post(m, r, heard, Blank)

Publish(m, r) == PublishNothing(m, r)

\* Delete resolves the identifier once more, which passes on a display name as if
\* it were one: that fails.
Delete(m, r) == Remove(m, r, LookupID(work[m][r].cr))

-----------------------------------------------------------------------------
(* Specification *)

HandlerStep(m, r) ==
  \/ Adopt(m, r) \/ ObserveNamed(m, r) \/ ObserveMissing(m, r)
  \/ ObserveFound(m, r) \/ ObserveNotFound(m, r)
  \/ \E heard \in BOOLEAN : Create(m, r, heard)
  \/ Publish(m, r) \/ Delete(m, r)

WorkerStep(m, r) ==
  \/ SecretlessStep(m, r) /\ UNCHANGED objects
  \/ HandlerStep(m, r)

\* Groups that an administrator deletes make a difference here.
Lose(k) == Vanish(k, "lost")

Next ==
  \/ \E m \in MR, r \in Replica : WorkerStep(m, r)
  \/ UserStep \/ \E k \in Id : Lose(k)

Spec == Init /\ [][Next]_vars

\* Asking for the deletion of a display name fails without a fault.
Fault(m, r) ==
  /\ Breakdown(m, r) \/ Create(m, r, FALSE)
  /\ ~(Proper(m, r, LookupID(work[m][r].cr)) \/ Delete(m, r))

-----------------------------------------------------------------------------
(* Properties *)

Lost(m) == \E k \in Id : Named(k, m) /\ objects[k].state = "lost"

\* nbgroup.go:151: adoption by name keeps a create whose outcome was lost from
\* being repeated: a managed resource never has two groups, as long as no
\* administrator deletes one.  (Afterwards its old identifier is looked up, and
\* adoption by name never tried.)
AtMostOneGroup == \A m \in MR : Lost(m) \/ \A j, k \in ObjectsOf(m) : j = k

\* A deleted object is let go only when its group is gone, with the same
\* exception.
LeavesNothing(m) == Lost(m) \/ ObjectsOf(m) = {}

\* A live object has its group, unless a lost create waits for the operator.
Served(m) == mr[m].phase # "live" \/ Unresolved(m) \/ ObjectsOf(m) # {}

\* A deleted object may stay if a lost create waits for the operator, or if its
\* external name is the display name.
Stuck(m) == Unresolved(m) \/ mr[m].ext = DispName
=============================================================================
