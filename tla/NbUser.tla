-------------------------------- MODULE NbUser --------------------------------
(***************************************************************************)
(* The NbUser controller: internal/controller/nbuser/nbuser.go under the   *)
(* managed reconciler.  A managed resource is either about a service user, *)
(* which the controller creates and deletes, or about a person, who comes  *)
(* and goes by other means and whose role it sets.  Users are looked up as *)
(* groups are in NbGroup, but in the list of all users, which is all the   *)
(* client of NetBird offers.                                               *)
(*                                                                         *)
(* "spec" stands for the role; Update also sends back the groups it        *)
(* observed and lifts a block, which the model leaves out.                 *)
(***************************************************************************)
EXTENDS NetBirdObjects

CONSTANTS
  Service,   \* is_service_user
  Groupless  \* specifications that leave out auto_groups, which is allowed

\* What a user is like; a user who is not "named" is called something else than
\* the specification asks for.
User == [role : Desired, named : BOOLEAN]

-----------------------------------------------------------------------------
(* Observe *)

\* resolveUserLookupID: status.atProvider.id wins over a missing external name
\* and over the object name, not over a display name.
LookupID(cr) ==
  IF cr.ext = NoId \/ (cr.sid # NoId /\ cr.ext = ObjName) THEN cr.sid ELSE cr.ext

Observing(m, r) == work[m][r].pc = "observe"

Nameless(cr) == LookupID(cr) \in {NoId, ObjName}
ByDisplayName(cr) == ~Nameless(cr) /\ LookupID(cr) = DispName
ById(cr) == LookupID(cr) \in Id

\* Service users are found by name, persons by their address.
Listed(m) == {k \in ObjectsOf(m) : Service => objects[k].holds.named}

NamedUsers(m) == {k \in ObjectsOf(m) : objects[k].holds.named}

\* IsUserUpToDate
Comparison(cr, k) ==
  IF /\ Service => objects[k].holds.named
     /\ objects[k].holds.role = cr.spec
  THEN "uptodate" ELSE "outdated"

\* Mutant: the name is recorded where the identifier belongs.
AdoptName(m, r) ==
  /\ Observing(m, r) /\ Nameless(work[m][r].cr) /\ Listed(m) # {}
  /\ Report(m, r, DispName, "outdated")

\* No identifier: a user of the name, or of the address, is adopted.
Adopt(m, r) ==
  LET cr == work[m][r].cr IN
  /\ Observing(m, r) /\ Nameless(cr)
  /\ \E k \in Listed(m) : Report(m, r, k, Comparison(cr, k))

\* The external name is the display name, and remains it.
ObserveNamed(m, r) ==
  LET cr == work[m][r].cr IN
  /\ Observing(m, r) /\ ByDisplayName(cr)
  /\ \E k \in NamedUsers(m) :
       Go(m, r, [work[m][r] EXCEPT !.pc = "act", !.obs = Comparison(cr, k), !.cr.sid = k])
  /\ UNCHANGED objects

\* Mutant: a failing list passes for an empty one.
ObserveMissingUnlisted(m, r) ==
  Observing(m, r) /\ ~ById(work[m][r].cr) /\ ReportMissing(m, r)

\* No such user is listed.
ObserveMissing(m, r) ==
  LET cr == work[m][r].cr IN
  /\ Observing(m, r)
  /\ \/ Nameless(cr) /\ Listed(m) = {}
     \/ ByDisplayName(cr) /\ NamedUsers(m) = {}
  /\ ReportMissing(m, r)

\* The user is listed under the identifier.
ObserveFound(m, r) ==
  LET cr == work[m][r].cr
      k == LookupID(cr)
  IN
  Observing(m, r) /\ Live(k) /\ Report(m, r, k, Comparison(cr, k))

\* Nobody has the identifier, and that is final: there is no adoption.
ObserveNotFound(m, r) ==
  /\ Observing(m, r) /\ ById(work[m][r].cr)
  /\ ~Live(LookupID(work[m][r].cr))
  /\ ReportMissing(m, r)

-----------------------------------------------------------------------------
(* Create, Update, Delete *)

\* Leaving out the groups is a nil pointer: the process ends before the call.
CreateService(m, r, heard) ==
  LET spec == work[m][r].cr.spec IN
  /\ Service /\ spec \notin Groupless
  /\ Post(m, r, heard, [role |-> spec, named |-> TRUE])

\* A person cannot be created: Create does nothing and reports success.
CreateNobody(m, r) ==
  /\ ~Service /\ work[m][r].pc = "create"
  /\ Go(m, r, [work[m][r] EXCEPT !.pc = "annotate", !.cr.create = "succeeded"])
  /\ UNCHANGED objects

Publish(m, r) == PublishNothing(m, r)

\* The role is overwritten, the name is not.
Update(m, r) ==
  LET cr == work[m][r].cr
      k == LookupID(cr)
  IN
  Live(k) /\ Put(m, r, k, [objects[k].holds EXCEPT !.role = cr.spec])

\* Mutant: a service user is taken for a person.
DeleteNone(m, r) == Deleting(m, r) /\ Go(m, r, Close(work[m][r])) /\ UNCHANGED objects

Delete(m, r) == Service /\ Remove(m, r, LookupID(work[m][r].cr))

\* Nor can a person be deleted.
DeleteNobody(m, r) ==
  ~Service /\ Deleting(m, r) /\ Go(m, r, Close(work[m][r])) /\ UNCHANGED objects

-----------------------------------------------------------------------------
(* Specification *)

HandlerStep(m, r) ==
  \/ Adopt(m, r) \/ ObserveNamed(m, r) \/ ObserveMissing(m, r)
  \/ ObserveFound(m, r) \/ ObserveNotFound(m, r)
  \/ \E heard \in BOOLEAN : CreateService(m, r, heard)
  \/ CreateNobody(m, r) \/ Publish(m, r) \/ Update(m, r)
  \/ Delete(m, r) \/ DeleteNobody(m, r)

WorkerStep(m, r) ==
  \/ SecretlessStep(m, r) /\ UNCHANGED objects
  \/ HandlerStep(m, r)

\* An administrator sets a user's role or renames the user, for good; deletes one;
\* or invites the person.
Change(k) ==
  /\ Tamper(k)
  /\ \/ objects'[k].holds.named = objects[k].holds.named
     \/ objects[k].holds.named /\ Spare

Invite(k) ==
  /\ ~Service /\ k = NextIdent /\ k \in Unborn /\ \A i \in Id : ~Live(i)
  /\ \E m \in MR, u \in Content :
       objects' = [objects EXCEPT ![k] = [state |-> "live", of |-> m, holds |-> u]]
  /\ UNCHANGED runtimeVars

Lose(k) == Vanish(k, "lost")

Next ==
  \/ \E m \in MR, r \in Replica : WorkerStep(m, r)
  \/ UserStep
  \/ \E k \in Id : Change(k) \/ Lose(k) \/ Invite(k)

Spec == Init /\ [][Next]_vars

\* A nil pointer ends the process; and updating or deleting a display name fails.
Fault(m, r) ==
  LET w == work[m][r] IN
  /\ Breakdown(m, r) \/ CreateService(m, r, FALSE)
  /\ ~(Proper(m, r, LookupID(w.cr)) \/ Update(m, r) \/ Delete(m, r) \/ DeleteNobody(m, r))
  /\ ~(Abandon(m, r) /\ Service /\ w.pc = "create" /\ w.cr.spec \in Groupless)

-----------------------------------------------------------------------------
(* Properties *)

Lost(m) == \E k \in Id : Named(k, m) /\ objects[k].state = "lost"
Renamed(m) == \E k \in ObjectsOf(m) : ~objects[k].holds.named

\* nbuser.go:243-246: a transient failure of the list does not mint a duplicate
\* service user, nor does a create whose outcome was lost; as long as no
\* administrator deletes or renames it.
AtMostOneUser ==
  \A m \in MR : Lost(m) \/ Renamed(m) \/ \A j, k \in ObjectsOf(m) : j = k

\* A deleted object is let go only when no service user of the name is left; a
\* person may be invited in the meantime.
LeavesNothing(m) == ~Service \/ Lost(m) \/ Listed(m) = {}

\* A live object has its user, with the role it gives, unless a lost create waits
\* for the operator or the groups are missing from the specification; a person who
\* has not been invited has none, one who was removed and invited anew is not found
\* again, and the role is not set if the external name is a display name.
Served(m) ==
  \/ mr[m].phase # "live" \/ Unresolved(m) \/ mr[m].ext = DispName
  \/ ~Service /\ (ObjectsOf(m) = {} \/ Lost(m))
  \/ mr[m].spec \in Groupless
  \/ \E k \in ObjectsOf(m) : objects[k].holds.role = mr[m].spec

\* A deleted object stays if it is about a person who stays; if a lost create
\* waits for the operator; or if its external name is the display name.
Stuck(m) ==
  \/ ~Service /\ ObjectsOf(m) # {}
  \/ Unresolved(m) \/ mr[m].ext = DispName

\* The role is sent again and again to a service user whose name differs, and to
\* nobody if the external name is a display name.
Restless(m) == (Service /\ Renamed(m)) \/ mr[m].ext = DispName
=============================================================================
