------------------------------ MODULE OneObject ------------------------------
(***************************************************************************)
(* What a controller of this provider promises about a managed resource    *)
(* and the object it stands for at NetBird: the object is obtained only    *)
(* when there is none, never for a resource that is gone, and a deleted    *)
(* resource is let go only when its object is gone.  The controllers under *)
(* internal/controller get there with a finalizer, an annotation written   *)
(* before the call, and a search by name; none of that is visible here.    *)
(***************************************************************************)
CONSTANTS Resource, Ident

VARIABLES
  phase,     \* phase[m]: how far the deletion of resource m has come
  owned      \* owned[m]: the objects that are there for m

vars == <<phase, owned>>

AtMostOne(S) == \A j, k \in S : j = k

Init ==
  /\ phase = [m \in Resource |-> "live"]
  /\ owned \in [Resource -> SUBSET Ident]
  /\ \A m \in Resource : AtMostOne(owned[m])

Obtain(m) ==
  /\ phase[m] # "gone" /\ owned[m] = {}
  /\ \E k \in Ident : owned' = [owned EXCEPT ![m] = {k}]
  /\ UNCHANGED phase

\* The controller deletes the object, or somebody else does.
Lose(m) ==
  /\ owned' = [owned EXCEPT ![m] = {}]
  /\ UNCHANGED phase

\* A resource no worker has got hold of yet is gone as soon as it is deleted, and
\* what it would have adopted stays.
RequestDelete(m) ==
  /\ phase[m] = "live"
  /\ \E p \in {"deleting", "gone"} : phase' = [phase EXCEPT ![m] = p]
  /\ UNCHANGED owned

LetGo(m) ==
  /\ phase[m] = "deleting" /\ owned[m] = {}
  /\ phase' = [phase EXCEPT ![m] = "gone"]
  /\ UNCHANGED owned

Next == \E m \in Resource : Obtain(m) \/ Lose(m) \/ RequestDelete(m) \/ LetGo(m)

Spec == Init /\ [][Next]_vars
=============================================================================
