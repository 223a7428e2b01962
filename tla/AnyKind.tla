------------------------------- MODULE AnyKind -------------------------------
(***************************************************************************)
(* The controllers internal/controller/netbird.go sets up over the same    *)
(* managed reconciler, but for the kinds that have runs of their own.  A   *)
(* behaviour of this module is one of a single kind; which one is chosen   *)
(* at the start.  "account" is what the controller manages at NetBird.     *)
(***************************************************************************)
EXTENDS ParentNetworks

CONSTANTS
  Kinds,     \* the kinds to choose from
  Odd,       \* specifications with a peculiarity that depends on the kind
  Imported,  \* identifiers of objects that may exist before the first reconcile
  Reserve    \* identifiers kept back from the environment (bounds recreation)

ASSUME BoundsAssumption ==
  /\ Odd \subseteq Desired \ {Spec0}
  /\ Imported \subseteq Id
  /\ Reserve \in Nat
  /\ Id # {}  \* the account has an identifier

VARIABLES kind, account, group

vars == <<runtimeVars, parentVars, kind, account, group>>

-----------------------------------------------------------------------------
(* Kinds inside a network.  Neither recovers from a display name. *)

\* Only Spec0 gives groups.
NetResource == INSTANCE NbNetworkResource
               WITH res <- account, DispName <- ObjName,
                    Imported <- {}, Groupless <- Desired \ {Spec0}

\* A group that comes and goes, and a specification that is never edited; or a
\* peer.  A single network in either case.
GroupRouter == INSTANCE NbNetworkRouter
               WITH routers <- account, DispName <- ObjName,
                    Net <- Initial, ByPeer <- {}, Desired <- {Spec0}

PeerRouter == INSTANCE NbNetworkRouter
              WITH routers <- account, DispName <- ObjName,
                   Net <- Initial, ByPeer <- Desired, Imported <- {}

-----------------------------------------------------------------------------
(* Kinds of the account *)

\* Names are never edited.
Group == INSTANCE NbGroup
         WITH objects <- account, Desired <- {Spec0}, Content <- {Spec0}

\* An object asks for Spec0 or for what is odd about its kind.
Role == {Spec0} \cup Odd

\* Object and display name are treated alike here, and what administrators delete
\* is looked for as in NbNetwork.
NameServer == INSTANCE NbNameServer
              WITH objects <- account, DispName <- ObjName, Reserve <- Cardinality(Id),
                   Desired <- Role, Content <- Role, Flagged <- Odd

\* Spec0 gives an identifier; the odd ones give a name that is alone in its list, and
\* differ from Spec0 in fields that are not compared.
Policy == INSTANCE NbPolicy
          WITH objects <- account, DispName <- ObjName, Reserve <- Cardinality(Id),
               Imported <- {}, Desired <- Role, ByName <- Odd, Mixed <- {}, Flagged <- Odd,
               Content <- [like : Role, whole : BOOLEAN]

\* A name beside others, in a specification that is never edited.
MixedPolicy == INSTANCE NbPolicy
               WITH objects <- account, DispName <- ObjName,
                    Reserve <- Cardinality(Id), Imported <- {},
                    Desired <- {Spec0}, ByName <- {Spec0}, Mixed <- {Spec0},
                    Flagged <- {},
                    Content <- [like : {Spec0}, whole : BOOLEAN]

ServiceUser == INSTANCE NbUser
               WITH objects <- account, Imported <- {}, Desired <- Role,
                    Content <- [role : Role, named : BOOLEAN],
                    Service <- TRUE, Groupless <- Odd

\* The specification gives an address, and a name that need not be the person's; it is
\* never edited.
Person == INSTANCE NbUser
          WITH objects <- account, Imported <- {},
               Desired <- {Spec0}, Content <- [role : Role, named : BOOLEAN],
               Service <- FALSE, Groupless <- {}

Account == INSTANCE NbAccount
           WITH settings <- account, Kept <- Desired \ {Spec0}, Listless <- Odd

DnsSetting == INSTANCE NbDnsSetting
              WITH settings <- account, Kept <- Odd

\* What most of them have no use for.
elsewhere == <<parentVars, group>>

-----------------------------------------------------------------------------
(* Specification *)

Elsewhere == ParentsInit /\ group = "unborn"

Init ==
  /\ kind \in Kinds
  /\ \/ kind = "resource"     /\ NetResource!Init /\ group = "unborn"
     \/ kind = "group router" /\ GroupRouter!Init
     \/ kind = "peer router"  /\ PeerRouter!Init
     \/ kind = "group"        /\ Group!Init /\ Elsewhere
     \/ kind = "name server"  /\ NameServer!Init /\ Elsewhere
     \/ kind = "policy"       /\ Policy!PolicyInit /\ ParentsInit
     \/ kind = "mixed policy" /\ MixedPolicy!PolicyInit /\ ParentsInit
     \/ kind = "service user" /\ ServiceUser!Init /\ Elsewhere
     \/ kind = "person"       /\ Person!Init /\ Elsewhere
     \/ kind = "account"      /\ Account!Init /\ Elsewhere
     \/ kind = "dns setting"  /\ DnsSetting!Init /\ Elsewhere

WorkerStep(m, r) ==
  \/ kind = "resource"     /\ NetResource!WorkerStep(m, r) /\ UNCHANGED group
  \/ kind = "group router" /\ GroupRouter!WorkerStep(m, r)
  \/ kind = "peer router"  /\ PeerRouter!WorkerStep(m, r)
  \/ kind = "group"        /\ Group!WorkerStep(m, r) /\ UNCHANGED elsewhere
  \/ kind = "name server"  /\ NameServer!WorkerStep(m, r) /\ UNCHANGED elsewhere
  \/ kind = "policy"       /\ Policy!WorkerStep(m, r) /\ UNCHANGED parentVars
  \/ kind = "mixed policy" /\ MixedPolicy!WorkerStep(m, r) /\ UNCHANGED parentVars
  \/ kind = "service user" /\ ServiceUser!WorkerStep(m, r) /\ UNCHANGED elsewhere
  \/ kind = "person"       /\ Person!WorkerStep(m, r) /\ UNCHANGED elsewhere
  \/ kind = "account"      /\ Account!WorkerStep(m, r) /\ UNCHANGED elsewhere
  \/ kind = "dns setting"  /\ DnsSetting!WorkerStep(m, r) /\ UNCHANGED elsewhere

KindNext ==
  \/ kind = "resource"     /\ NetResource!Next /\ UNCHANGED group
  \/ kind = "group router" /\ GroupRouter!Next
  \/ kind = "peer router"  /\ PeerRouter!Next
  \/ kind = "group"        /\ Group!Next /\ UNCHANGED elsewhere
  \/ kind = "name server"  /\ NameServer!Next /\ UNCHANGED elsewhere
  \/ kind = "policy"       /\ Policy!Next /\ UNCHANGED parentVars
  \/ kind = "mixed policy" /\ MixedPolicy!Next /\ UNCHANGED parentVars
  \/ kind = "service user" /\ ServiceUser!Next /\ UNCHANGED elsewhere
  \/ kind = "person"       /\ Person!Next /\ UNCHANGED elsewhere
  \/ kind = "account"      /\ Account!Next /\ UNCHANGED elsewhere
  \/ kind = "dns setting"  /\ DnsSetting!Next /\ UNCHANGED elsewhere

Next == KindNext /\ UNCHANGED kind

Spec == Init /\ [][Next]_vars

Fault(m, r) ==
  \/ kind = "resource"     /\ NetResource!Fault(m, r)
  \/ kind = "group router" /\ GroupRouter!Fault(m, r)
  \/ kind = "peer router"  /\ PeerRouter!Fault(m, r)
  \/ kind = "group"        /\ Group!Fault(m, r)
  \/ kind = "name server"  /\ NameServer!Fault(m, r)
  \/ kind = "policy"       /\ Policy!Fault(m, r)
  \/ kind = "mixed policy" /\ MixedPolicy!Fault(m, r)
  \/ kind = "service user" /\ ServiceUser!Fault(m, r)
  \/ kind = "person"       /\ Person!Fault(m, r)
  \/ kind = "account"      /\ Account!Fault(m, r)
  \/ kind = "dns setting"  /\ DnsSetting!Fault(m, r)

\* As in NbSetupKey: every call returns, the watch delivers, objects come back,
\* and the faults end at some point.
Fairness ==
  /\ \A m \in MR, r \in Replica :
       /\ WF_vars(/\ WorkerStep(m, r) /\ UNCHANGED kind
                  /\ work'[m][r] # work[m][r] \/ mr' # mr)
       /\ WF_vars(SyncCache(m, r) /\ UNCHANGED <<parentVars, kind, account, group>>)
  /\ <>[][\A m \in MR, r \in Replica : ~Fault(m, r)]_vars

Meddling ==
  \/ kind = "resource"     /\ NetResource!Meddling
  \/ kind = "group router" /\ GroupRouter!Meddling
  \/ kind = "peer router"  /\ PeerRouter!Meddling
  \/ kind = "group"        /\ Group!Meddling
  \/ kind = "name server"  /\ NameServer!Meddling
  \/ kind = "policy"       /\ Policy!Meddling
  \/ kind = "mixed policy" /\ MixedPolicy!Meddling
  \/ kind = "service user" /\ ServiceUser!Meddling
  \/ kind = "person"       /\ Person!Meddling
  \/ kind = "account"      /\ Account!Meddling
  \/ kind = "dns setting"  /\ DnsSetting!Meddling

\* Users and administrators leave the object alone at some point.
Quiet == <>[][~Meddling]_vars

LiveSpec == Spec /\ Fairness /\ Quiet

-----------------------------------------------------------------------------
(* Properties; the exceptions are those of the kinds *)

TypeOK ==
  CASE kind = "resource"     -> NetResource!TypeOK
    [] kind = "group router" -> GroupRouter!TypeOK
    [] kind = "peer router"  -> PeerRouter!TypeOK
    [] kind = "group"        -> Group!TypeOK
    [] kind = "name server"  -> NameServer!TypeOK
    [] kind = "policy"       -> Policy!TypeOK
    [] kind = "mixed policy" -> MixedPolicy!TypeOK
    [] kind = "service user" -> ServiceUser!TypeOK
    [] kind = "person"       -> Person!TypeOK
    [] kind = "account"      -> Account!TypeOK
    [] kind = "dns setting"  -> DnsSetting!TypeOK

\* A create whose outcome was lost is not repeated: an object never has two of what
\* it manages at NetBird.
AtMostOne ==
  CASE kind = "resource"     -> NetResource!AtMostOneResource
    [] kind = "group router" -> GroupRouter!AtMostOneRouter
    [] kind = "peer router"  -> PeerRouter!AtMostOneRouter
    [] kind = "group"        -> Group!AtMostOneGroup
    [] kind = "name server"  -> NameServer!AtMostOneObject
    [] kind = "policy"       -> Policy!AtMostOneObject
    [] kind = "mixed policy" -> MixedPolicy!AtMostOneObject
    [] kind = "service user" -> ServiceUser!AtMostOneUser
    [] OTHER                 -> TRUE

LeavesNothing(m) ==
  CASE kind = "resource"     -> NetResource!LeavesNothing(m)
    [] kind = "group router" -> GroupRouter!LeavesNothing(m)
    [] kind = "peer router"  -> PeerRouter!LeavesNothing(m)
    [] kind = "group"        -> Group!LeavesNothing(m)
    [] kind = "name server"  -> NameServer!LeavesNothing(m)
    [] kind = "policy"       -> Policy!LeavesNothing(m)
    [] kind = "mixed policy" -> MixedPolicy!LeavesNothing(m)
    [] kind = "service user" -> ServiceUser!LeavesNothing(m)
    [] kind = "person"       -> Person!LeavesNothing(m)
    [] kind = "account"      -> Account!LeavesNothing(m)
    [] kind = "dns setting"  -> DnsSetting!LeavesNothing(m)

\* A deleted object is let go only when what it managed is gone, or may stay.
ReleasedWithoutRemains ==
  [][ \A m \in MR :
        mr[m].phase = "deleting" /\ mr'[m].phase = "gone" => LeavesNothing(m) ]_vars

Served(m) ==
  CASE kind = "resource"     -> NetResource!Served(m)
    [] kind = "group router" -> GroupRouter!Served(m)
    [] kind = "peer router"  -> PeerRouter!Served(m)
    [] kind = "group"        -> Group!Served(m)
    [] kind = "name server"  -> NameServer!Served(m)
    [] kind = "policy"       -> Policy!Served(m)
    [] kind = "mixed policy" -> MixedPolicy!Served(m)
    [] kind = "service user" -> ServiceUser!Served(m)
    [] kind = "person"       -> Person!Served(m)
    [] kind = "account"      -> Account!Served(m)
    [] kind = "dns setting"  -> DnsSetting!Served(m)

\* Once faults and edits end, a live object has what it asks for, and keeps it.
Converges == \A m \in MR : <>[]Served(m)

Stuck(m) ==
  CASE kind = "resource"     -> NetResource!Stuck(m)
    [] kind = "group router" -> GroupRouter!Stuck(m)
    [] kind = "peer router"  -> PeerRouter!Stuck(m)
    [] kind = "group"        -> Group!Stuck(m)
    [] kind = "name server"  -> NameServer!Stuck(m)
    [] kind = "policy"       -> Policy!Stuck(m)
    [] kind = "mixed policy" -> MixedPolicy!Stuck(m)
    [] kind = "service user" -> ServiceUser!Stuck(m)
    [] kind = "person"       -> Person!Stuck(m)
    [] kind = "account"      -> Account!Stuck(m)
    [] kind = "dns setting"  -> DnsSetting!Stuck(m)

\* A deleted object disappears.
DeletionCompletes ==
  \A m \in MR : mr[m].phase = "deleting" ~> (mr[m].phase = "gone" \/ Stuck(m))

Restless(m) ==
  CASE kind = "name server"  -> NameServer!Restless(m)
    [] kind = "policy"       -> Policy!Restless(m)
    [] kind = "mixed policy" -> MixedPolicy!Restless(m)
    [] kind = "service user" -> ServiceUser!Restless(m)
    [] kind = "person"       -> Person!Restless(m)
    [] kind = "account"      -> Account!Restless(m)
    [] OTHER                 -> FALSE

\* Once faults and edits end, nothing is sent to NetBird any more: what Update
\* wrote, Observe finds up to date.
Settles ==
  \A m \in MR :
    <>[][ \A r \in Replica :
            work[m][r].pc = "update" /\ work'[m][r].pc # "update" => Restless(m) ]_vars
=============================================================================
