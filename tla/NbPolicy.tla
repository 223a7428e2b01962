------------------------------- MODULE NbPolicy -------------------------------
(***************************************************************************)
(* The NbPolicy controller: internal/controller/nbpolicy/nbpolicy.go under *)
(* the managed reconciler, against the policies of a NetBird account.  The *)
(* rules of a policy give groups, each by identifier or by name, which are *)
(* looked up before every Create and Update.  A group that cannot be found *)
(* is left out if another of the same list is found, and an error          *)
(* otherwise.                                                              *)
(*                                                                         *)
(* "spec" stands for all that a policy holds.  The policy's enabled,       *)
(* description and source_posture_checks, and the enabled, name and        *)
(* protocol of its rules, are sent and never compared.  All specifications *)
(* give the same group, which may come late and may be renamed later.      *)
(***************************************************************************)
EXTENDS NetBirdObjects

CONSTANTS
  ByName,    \* specifications that give the group by name; the others by identifier
  Mixed,     \* specifications that give a group that always exists in the same list
  Flagged    \* those whose policies differ from that of Spec0 in fields never compared

VARIABLE
  group      \* whether the group does not exist yet, exists, or has been renamed

\* What "like" asks for, with all their groups or with those that were found.
Rules == [like : Desired, whole : BOOLEAN]

-----------------------------------------------------------------------------
(* Groups *)

\* The group a specification gives is found among those that are listed; whoever
\* gives an identifier has it from a group that exists.
Resolves(spec) == spec \in ByName => group = "live"

\* NbToApiGroupMinimums: no error if a single one of a list is found.
Translates(spec) == Resolves(spec) \/ spec \in Mixed

\* NbToApiRules
Translation(spec) == [like |-> spec, whole |-> Resolves(spec)]

-----------------------------------------------------------------------------
(* Observe *)

Compared(spec) == IF spec \in Flagged THEN Spec0 ELSE spec

\* A policy with all the groups and everything else that is compared.
Matches(rules, spec) == rules.whole /\ Compared(rules.like) = Compared(spec)

\* Mutant: what is compared leaves out the groups.
ComparisonWithoutGroups(cr, k) ==
  IF Compared(objects[k].holds.like) = Compared(cr.spec) THEN "uptodate" ELSE "outdated"

\* IsApiToNBPolicyUpToDate: groups are compared by their identifiers, which a
\* specification that gives a name does not have.
Comparison(cr, k) ==
  IF Matches(objects[k].holds, cr.spec) /\ cr.spec \notin ByName
  THEN "uptodate" ELSE "outdated"

ObserveFound(m, r) == Find(m, r, Comparison(work[m][r].cr, Lookup(work[m][r].cr)))

ObserveNotFound(m, r) == FindNot(m, r)

Adopt(m, r) == ListOne(m, r)

ObserveMissing(m, r) == ListNone(m, r)

-----------------------------------------------------------------------------
(* Create, Update, Delete *)

Create(m, r, heard) ==
  LET spec == work[m][r].cr.spec IN
  Translates(spec) /\ Post(m, r, heard, Translation(spec))

Publish(m, r) == PublishNothing(m, r)

Update(m, r) ==
  LET cr == work[m][r].cr IN
  Translates(cr.spec) /\ Put(m, r, Lookup(cr), Translation(cr.spec))

Delete(m, r) == Remove(m, r, Lookup(work[m][r].cr))

-----------------------------------------------------------------------------
(* The rest of the world *)

GroupComes == group = "unborn" /\ group' = "live" /\ UNCHANGED vars

GroupRenamed == group = "live" /\ group' = "deleted" /\ UNCHANGED vars

-----------------------------------------------------------------------------
(* Specification *)

PolicyInit == Init /\ group \in {"unborn", "live"}

HandlerStep(m, r) ==
  \/ ObserveFound(m, r) \/ ObserveNotFound(m, r)
  \/ Adopt(m, r) \/ ObserveMissing(m, r)
  \/ \E heard \in BOOLEAN : Create(m, r, heard)
  \/ Publish(m, r) \/ Update(m, r) \/ Delete(m, r)

WorkerStep(m, r) ==
  /\ \/ SecretlessStep(m, r) /\ UNCHANGED objects
     \/ HandlerStep(m, r)
  /\ UNCHANGED group

Next ==
  \/ \E m \in MR, r \in Replica : WorkerStep(m, r)
  \/ WorldStep /\ UNCHANGED group
  \/ GroupComes \/ GroupRenamed

Spec == PolicyInit /\ [][Next]_<<vars, group>>

\* A specification whose groups are not found is refused without a fault.
Fault(m, r) ==
  LET cr == work[m][r].cr IN
  /\ Breakdown(m, r) \/ Create(m, r, FALSE)
  /\ ~(Proper(m, r, Lookup(cr)) \/ Update(m, r) \/ Delete(m, r))
  /\ ~(/\ ~Translates(cr.spec)
       /\ CreateRefused(m, r) \/ (work[m][r].pc = "update" /\ StepFails(m, r)))

-----------------------------------------------------------------------------
(* Properties; AtMostOneObject is in NetBirdObjects *)

LeavesNothing(m) == ObjectsOf(m) = {}

\* A live object whose groups are all found has its policy, with all its groups,
\* however late these came, and as it specifies it but for the fields that are never
\* compared; unless a lost create waits for the operator.
Served(m) ==
  \/ mr[m].phase # "live" \/ Unresolved(m) \/ ~Resolves(mr[m].spec)
  \/ \E k \in ObjectsOf(m) : Matches(objects[k].holds, mr[m].spec)

Stuck(m) == Unresolved(m)

\* The policy is overwritten again and again while a group of the specification
\* cannot be found, if one is given by name, or if adoption did not get its
\* identifier into the annotation.
Restless(m) ==
  ~Live(Lookup(mr[m])) \/ ~Resolves(mr[m].spec) \/ mr[m].spec \in ByName
=============================================================================
