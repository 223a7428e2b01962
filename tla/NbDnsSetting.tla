----------------------------- MODULE NbDnsSetting -----------------------------
(***************************************************************************)
(* The NbDnsSetting controller:                                            *)
(* internal/controller/nbdnssetting/nbdnssetting.go under the managed      *)
(* reconciler.  "spec" stands for the groups whose DNS is not managed.     *)
(***************************************************************************)
EXTENDS Singleton

-----------------------------------------------------------------------------
(* Handlers *)

Comparison(cr) == IF settings = cr.spec THEN "uptodate" ELSE "outdated"

\* The external name is of no use here.
Observe(m, r) == Report(m, r, Comparison(work[m][r].cr), work[m][r].cr.ext)

Update(m, r) == Overwrite(m, r)

Delete(m, r) == LeaveAlone(m, r)

-----------------------------------------------------------------------------
(* Specification *)

WorkerStep(m, r) ==
  \/ InitializedStep(m, r) /\ UNCHANGED settings
  \/ Observe(m, r) \/ Update(m, r) \/ Delete(m, r)

Next == (\E m \in MR, r \in Replica : WorkerStep(m, r)) \/ UserStep \/ Tamper

Spec == Init /\ [][Next]_vars
=============================================================================
