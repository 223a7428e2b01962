------------------------------ MODULE NbAccount ------------------------------
(***************************************************************************)
(* The NbAccount controller: internal/controller/nbaccount/nbaccount.go    *)
(* under the managed reconciler.  "spec" stands for the settings of the    *)
(* account; the users and groups Observe lists for the status as well are  *)
(* left out.                                                               *)
(***************************************************************************)
EXTENDS Singleton

CONSTANT
  Listless   \* specifications that leave out jwt_allow_groups, where NetBird
             \* answers with an empty list

\* The identifier of the account.
AccountId == CHOOSE k \in Id : TRUE

-----------------------------------------------------------------------------
(* Handlers *)

\* isUpToDate: an empty list is not equal to none.
Comparison(cr) ==
  IF settings = cr.spec /\ cr.spec \notin Listless THEN "uptodate" ELSE "outdated"

\* The first account of the list is the account.
Observe(m, r) == Report(m, r, Comparison(work[m][r].cr), AccountId)

\* Update gives up without an identifier, which Observe has seen to.
Update(m, r) == work[m][r].cr.ext # NoId /\ Overwrite(m, r)

Delete(m, r) == LeaveAlone(m, r)

-----------------------------------------------------------------------------
(* Specification *)

WorkerStep(m, r) ==
  \/ InitializedStep(m, r) /\ UNCHANGED settings
  \/ Observe(m, r) \/ Update(m, r) \/ Delete(m, r)

Next == (\E m \in MR, r \in Replica : WorkerStep(m, r)) \/ UserStep \/ Tamper

Spec == Init /\ [][Next]_vars

\* The settings are overwritten again and again while they leave out the list.
Restless(m) == mr[m].spec \in Listless
=============================================================================
