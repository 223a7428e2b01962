--------------------------- MODULE ParentNetworks ---------------------------
(***************************************************************************)
(* The networks that contain network resources and routers.  A managed     *)
(* resource of either kind gives its parent by name                        *)
(* (spec.forProvider.network_name), and each handler lists the networks    *)
(* and looks for that name again: internal/controller/nbnetworkresource    *)
(* and internal/controller/nbnetworkrouter.  Parents come and go on their  *)
(* own: another controller (NbNetwork) or an administrator manages them.   *)
(*                                                                         *)
(* All networks of this model have the name that is asked for.             *)
(***************************************************************************)
EXTENDS ManagedReconciler, Naturals

CONSTANTS
  Net,       \* the networks of that name that ever exist
  Initial,   \* those that exist at the start
  Rank,      \* Rank[p]: the place of p in NetBird's list of networks
  Ambiguous  \* whether two of them may exist at once

ASSUME ParentsAssumption ==
  /\ Initial \subseteq Net /\ Initial # {}
  /\ Rank \in [Net -> Nat]
  /\ \A p, q \in Net : Rank[p] = Rank[q] => p = q
  /\ Ambiguous \in BOOLEAN

VARIABLES
  nets,      \* nets[p]: whether network p exists yet, exists, or has existed
  parent     \* parent[m][r]: the network Observe has found, while it is still of use

parentVars == <<nets, parent>>

ParentsTypeOK ==
  /\ nets \in [Net -> {"unborn", "live", "deleted"}]
  /\ parent \in [MR -> [Replica -> Net \cup {NoId}]]

ParentsInit ==
  /\ nets = [p \in Net |-> IF p \in Initial THEN "live" ELSE "unborn"]
  /\ parent = [m \in MR |-> [r \in Replica |-> NoId]]

Parents == {p \in Net : nets[p] = "live"}

-----------------------------------------------------------------------------
(* Finding the parent *)

FirstOf(S) == CHOOSE p \in S : \A q \in S : Rank[p] <= Rank[q]
LastOf(S)  == CHOOSE p \in S : \A q \in S : Rank[p] >= Rank[q]

\* Observe leaves the loop at the first network of the name.
Observed == FirstOf(Parents)

\* Loops without a break: the last network of the name counts.
Chosen == LastOf(Parents)

\* Observe looks an identifier up inside the parent first and lists the parent
\* afterwards, or lists it at once; the parent it lists is the one it has found.
Listed(m, r) == IF work[m][r].pc = "list" THEN parent[m][r] ELSE Observed

\* A step of worker r of m: the parent is held on to between the two calls.
Holds(m, r) ==
  parent' = [parent EXCEPT ![m][r] = CASE work'[m][r].pc # "list" -> NoId
                                       [] work[m][r].pc = "list"  -> @
                                       [] OTHER                   -> Observed]

-----------------------------------------------------------------------------
(* Networks come and go; what becomes of their contents is up to the kind *)

Appear(p) ==
  /\ nets[p] = "unborn"
  /\ Ambiguous \/ Parents = {}
  /\ nets' = [nets EXCEPT ![p] = "live"]
  /\ UNCHANGED <<runtimeVars, parent>>

Disappear(p) ==
  /\ nets[p] = "live"
  /\ nets' = [nets EXCEPT ![p] = "deleted"]
  /\ UNCHANGED <<runtimeVars, parent>>
=============================================================================
