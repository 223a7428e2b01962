----------------------------- MODULE KeyCustody -----------------------------
(***************************************************************************)
(* What the NbSetupKey controller promises the owner of a NetBird account, *)
(* with reconciles, caches, annotations and retries left out: the account  *)
(* never holds two valid keys for one resource, and a resource is let go   *)
(* only when nothing it minted can still be used.                          *)
(***************************************************************************)
CONSTANTS MR, Id, Name, NameOf

VARIABLES
  keys,      \* keys[k]: state and name of the key with identifier k
  phase      \* phase[m]: whether resource m is live, being deleted or gone

vars == <<keys, phase>>

InUse(m) == \E k \in Id : keys[k].state = "valid" /\ keys[k].name = NameOf[m]

Init ==
  /\ phase = [m \in MR |-> "live"]
  /\ \E born \in SUBSET Id, n \in Name :
       /\ \A j, k \in born : j = k
       /\ keys = [k \in Id |->
                    [state |-> IF k \in born THEN "valid" ELSE "unborn", name |-> n]]

\* The controller mints a key for a resource that has no valid one.
Mint(m, k) ==
  /\ phase[m] # "gone"
  /\ ~InUse(m)
  /\ keys[k].state = "unborn"
  /\ keys' = [keys EXCEPT ![k] = [state |-> "valid", name |-> NameOf[m]]]
  /\ UNCHANGED phase

\* A key expires or is revoked.
Lapse(k) ==
  /\ keys[k].state = "valid"
  /\ keys' = [keys EXCEPT ![k].state = "dead"]
  /\ UNCHANGED phase

\* A key is deleted, by an administrator or by the controller.
Remove(k) ==
  /\ keys[k].state \in {"valid", "dead"}
  /\ keys' = [keys EXCEPT ![k].state = "deleted"]
  /\ UNCHANGED phase

\* The user deletes a resource; one that never got a finalizer, and so never
\* minted a key, is gone at once.
Forget(m) ==
  /\ phase[m] = "live"
  /\ \E p \in {"deleting", "gone"} : phase' = [phase EXCEPT ![m] = p]
  /\ UNCHANGED keys

\* The controller lets a deleted resource go.
LetGo(m) ==
  /\ phase[m] = "deleting"
  /\ ~InUse(m)
  /\ phase' = [phase EXCEPT ![m] = "gone"]
  /\ UNCHANGED keys

Next ==
  \/ \E m \in MR : Forget(m) \/ LetGo(m) \/ \E k \in Id : Mint(m, k)
  \/ \E k \in Id : Lapse(k) \/ Remove(k)

Spec == Init /\ [][Next]_vars
=============================================================================
