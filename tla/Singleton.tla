------------------------------ MODULE Singleton ------------------------------
(***************************************************************************)
(* What the NbAccount and NbDnsSetting controllers have in common: there   *)
(* is one such thing in a NetBird account, it is always there, and it can  *)
(* only be overwritten.  Observe never reports it missing, so Create is    *)
(* never called; Delete does nothing.  Their Setup keeps the initializers  *)
(* of the runtime, which give an object without external name its own.     *)
(***************************************************************************)
EXTENDS ManagedReconciler

CONSTANT
  Kept       \* specifications whose management policies leave out Delete

VARIABLE
  settings   \* what the account holds

vars == <<runtimeVars, settings>>

TypeOK == RuntimeTypeOK /\ settings \in Desired

Init == RuntimeInit({}) /\ settings \in Desired

-----------------------------------------------------------------------------
(* The initializer *)

\* The object is stored with its name as external name, and Observe follows.
Initialize(m, r) ==
  LET named == [mr[m] EXCEPT !.ext = ObjName] IN
  /\ work[m][r].pc = "idle"
  /\ cache[m][r] = mr[m]
  /\ mr[m].phase # "gone" /\ mr[m].ext = NoId
  /\ Commit(m, r, named, [Idle EXCEPT !.pc = "observe", !.cr = named])

Uninitialized(m, r) ==
  work[m][r].pc = "idle" /\ cache[m][r].ext = NoId

Spared(m, r) ==
  cache[m][r].phase = "deleting" /\ cache[m][r].spec \in Kept

InitializedStep(m, r) ==
  IF Uninitialized(m, r) /\ ~Spared(m, r)
    THEN Initialize(m, r) \/ SyncCache(m, r)
    ELSE PolicyStep(m, r, Kept)

-----------------------------------------------------------------------------
(* What the handlers do to the account *)

\* The external name Observe leaves in memory is stored along with the finalizer.
Report(m, r, verdict, ext) ==
  /\ work[m][r].pc = "observe"
  /\ Go(m, r, [work[m][r] EXCEPT !.pc = "act", !.obs = verdict, !.cr.ext = ext])
  /\ UNCHANGED settings

\* Mutant: what the specification asks for is left out of the request.
OverwriteNothing(m, r) ==
  work[m][r].pc = "update" /\ Go(m, r, Close(work[m][r])) /\ UNCHANGED settings

Overwrite(m, r) ==
  /\ work[m][r].pc = "update"
  /\ settings' = work[m][r].cr.spec
  /\ Go(m, r, Close(work[m][r]))

\* Mutant: the external resource counts as gone, as most kinds have it.
ReportGone(m, r) ==
  /\ work[m][r].pc = "act" /\ work[m][r].cr.phase = "deleting"
  /\ Go(m, r, [work[m][r] EXCEPT !.obs = "missing"])
  /\ UNCHANGED settings

LeaveAlone(m, r) ==
  /\ work[m][r].pc = "act" /\ work[m][r].cr.phase = "deleting"
  /\ Go(m, r, Close(work[m][r]))
  /\ UNCHANGED settings

-----------------------------------------------------------------------------
(* The rest of the world *)

UserStep ==
  /\ \E m \in MR : RequestDelete(m) \/ Respecify(m)
  /\ UNCHANGED settings

\* An administrator changes the settings.
Tamper == settings' \in Desired /\ UNCHANGED runtimeVars

Meddling == Tamper \/ \E m \in MR : Respecify(m)

Proper(m, r) ==
  \/ EnsureFinalizer(m, r) \/ ReportStatus(m, r)
  \/ StepFails(m, r) /\ work[m][r].stale

Fault(m, r) ==
  Breakdown(m, r) /\ ~(Proper(m, r) \/ Overwrite(m, r) \/ LeaveAlone(m, r))

-----------------------------------------------------------------------------
(* Properties *)

\* A deleted object is let go only if its policies say so.
LeavesNothing(m) == mr[m].spec \in Kept

\* The account holds what a live object asks for.
Served(m) == mr[m].phase = "live" => settings = mr[m].spec

\* Otherwise it stays for ever, since it is always observed to exist.
Stuck(m) == mr[m].spec \notin Kept
=============================================================================
