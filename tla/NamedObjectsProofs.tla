--------------------------- MODULE NamedObjectsProofs ---------------------------
(***************************************************************************)
(* Proofs about NbNetwork, NbNameServer and NbPolicy for any number of     *)
(* resources, replicas and objects; for policies, whether or not the group *)
(* of their rules comes and goes.  All are instances over the variables of *)
(* NetBirdObjects, and their steps the ones its lemmas are about.          *)
(***************************************************************************)
EXTENDS NetBirdObjectsProofs

CONSTANTS Flagged, ByName, Mixed

VARIABLE group

Network == INSTANCE NbNetwork

NameServer == INSTANCE NbNameServer

Policy == INSTANCE NbPolicy

-----------------------------------------------------------------------------
(* Networks *)

\* What Update may send is something a network, or a name server group, may hold.
ContentIsDesired == Content = Desired

\* What the instance calls by a name of NetBirdObjects is what has that name here.
LEMMA NetworkRuntime ==
  ASSUME NEW m, NEW r
  PROVE  Network!SecretlessStep(m, r) <=> SecretlessStep(m, r)
BY DEF Network!SecretlessStep, Network!RuntimeStep, Network!Release,
       Network!Commit, Network!Go, Network!Outdate, Network!Reloaded,
       Network!Close, Network!Begin, Network!AwaitGrace, Network!Proceed,
       Network!EnsureFinalizer, Network!MarkPending, Network!CreateRefused,
       Network!Annotate, Network!StepFails, Network!ReportStatus,
       Network!Abandon, Network!SyncCache, Network!Idle, Network!Fresh,
       SecretlessStep, RuntimeStep, Release, Commit, Go, Outdate, Reloaded, Close,
       Begin, AwaitGrace, Proceed, EnsureFinalizer, MarkPending, CreateRefused,
       Annotate, StepFails, ReportStatus, Abandon, SyncCache, Idle, Fresh

LEMMA NetworkSteps ==
  ASSUME NEW m, NEW r
  PROVE  /\ \A v : Network!Find(m, r, v) <=> Find(m, r, v)
         /\ Network!FindNot(m, r) <=> FindNot(m, r)
         /\ Network!Listing(m, r) <=> Listing(m, r)
         /\ Network!ObjectsOf(m) = ObjectsOf(m)
         /\ Network!ListOne(m, r) <=> ListOne(m, r)
         /\ Network!ListNone(m, r) <=> ListNone(m, r)
         /\ \A h, c : Network!Post(m, r, h, c) <=> Post(m, r, h, c)
         /\ Network!PublishNothing(m, r) <=> PublishNothing(m, r)
         /\ \A k, c : Network!Put(m, r, k, c) <=> Put(m, r, k, c)
         /\ \A k : Network!Remove(m, r, k) <=> Remove(m, r, k)
         /\ Network!WorldStep <=> WorldStep
<1>1. \A v : Network!Find(m, r, v) <=> Find(m, r, v)
  BY DEF Network!Find, Network!Lookup, Network!IsId, Network!Hints,
      Network!Live, Network!Report, Network!Go, Find, Lookup, IsId, Hints,
      Live, Report, Go
<1>2. Network!FindNot(m, r) <=> FindNot(m, r)
  BY DEF Network!FindNot, Network!Lookup, Network!IsId, Network!Hints,
      Network!Live, Network!Go, FindNot, Lookup, IsId, Hints, Live, Go
<1>3. Network!Listing(m, r) <=> Listing(m, r)
  BY DEF Network!Listing, Network!Lookup, Network!IsId, Network!Hints,
      Listing, Lookup, IsId, Hints
<1>4. Network!ObjectsOf(m) = ObjectsOf(m)
  BY DEF Network!ObjectsOf, Network!Live, Network!Named, ObjectsOf, Live,
      Named
<1>5. Network!ListNone(m, r) <=> ListNone(m, r)
  BY <1>3, <1>4
  DEF Network!ListNone, Network!ReportMissing, Network!Go, ListNone,
      ReportMissing, Go
<1>6. \A h, c : Network!Post(m, r, h, c) <=> Post(m, r, h, c)
  BY DEF Network!Post, Network!NextIdent, Network!Unborn, Network!Go, Post,
      NextIdent, Unborn, Go
<1>7. Network!PublishNothing(m, r) <=> PublishNothing(m, r)
  BY DEF Network!PublishNothing, Network!Go, Network!Close, Network!Idle,
      Network!Fresh, PublishNothing, Go, Close, Idle, Fresh
<1>8. \A k, c : Network!Put(m, r, k, c) <=> Put(m, r, k, c)
  BY DEF Network!Put, Network!Live, Network!Go, Network!Close,
      Network!Idle, Network!Fresh, Put, Live, Go, Close, Idle, Fresh
<1>9. \A k : Network!Remove(m, r, k) <=> Remove(m, r, k)
  BY DEF Network!Remove, Network!Deleting, Network!Remains, Network!Blank,
      Network!Live, Network!Go, Network!Close, Network!Idle,
      Network!Fresh, Remove, Deleting, Remains, Blank, Live, Go, Close, Idle, Fresh
<1>10. Network!UserStep <=> UserStep
  BY DEF Network!UserStep, Network!RequestDelete, Network!Respecify,
      Network!ClearPending, Network!Unresolved, Network!Edit,
      Network!Outdate, UserStep, RequestDelete, Respecify, ClearPending, Unresolved,
      Edit, Outdate
<1>11. \A k : Network!Tamper(k) <=> Tamper(k)
  BY DEF Network!Tamper, Network!Live, Network!runtimeVars, Tamper, Live,
      runtimeVars
<1>12. \A k, left : Network!Vanish(k, left) <=> Vanish(k, left)
  BY DEF Network!Vanish, Network!Live, Network!Spare, Network!Cardinality,
      Network!Unborn, Network!Remains, Network!Blank, Network!runtimeVars,
      Vanish, Live, Spare, Cardinality, Unborn, Remains, Blank, runtimeVars
<1>13. Network!WorldStep <=> WorldStep
  BY <1>10, <1>11, <1>12
  DEF Network!WorldStep, WorldStep
<1>14. Network!ListOne(m, r) <=> ListOne(m, r)
  BY <1>3, <1>4 DEF Network!ListOne, Network!Report, Network!Go, ListOne, Report, Go
<1>15. QED
  BY <1>1, <1>2, <1>3, <1>4, <1>5, <1>6, <1>7, <1>8, <1>9, <1>13, <1>14

LEMMA NetworkMoves ==
  ASSUME TypeOK, ContentIsDesired, NEW m \in MR, NEW r \in Replica,
         Network!HandlerStep(m, r)
  PROVE  Moves(m, r)
<1>1. work[m][r].cr.spec \in Content
  BY DEF ContentIsDesired, TypeOK, RuntimeTypeOK, Work, Object
<1>2. CASE Network!ObserveFound(m, r) \/ Network!ObserveNotFound(m, r)
  <2>1. \A cr, k : Network!Comparison(cr, k) \in {"uptodate", "outdated"}
    BY DEF Network!Comparison
  <2>2. QED
    BY <1>2, <2>1, NetworkSteps, FindMoves, FindNotMoves
    DEF Network!ObserveFound, Network!ObserveNotFound
<1>3. CASE Network!Adopt(m, r) \/ Network!ObserveMissing(m, r)
  BY <1>3, NetworkSteps, ListOneMoves, ListNoneMoves
  DEF Network!Adopt, Network!ObserveMissing
<1>4. ASSUME NEW heard \in BOOLEAN, Network!Create(m, r, heard) PROVE Moves(m, r)
  BY <1>1, <1>4, NetworkSteps, PostMoves DEF Network!Create
<1>5. CASE Network!Publish(m, r) \/ Network!Update(m, r) \/ Network!Delete(m, r)
  BY <1>1, <1>5, NetworkSteps, PublishMoves, PutMoves, RemoveMoves
  DEF Network!Publish, Network!Update, Network!Delete
<1>6. QED
  BY <1>2, <1>3, <1>4, <1>5 DEF Network!HandlerStep

LEMMA NetworkKeeps ==
  ASSUME ContentIsDesired
  PROVE  /\ Network!Init => Init
         /\ ObjectsInv /\ [Network!Next]_(Network!vars) => ObjectsInv' /\ Keeps
<1>1. Network!Init => Init
  BY DEF Network!Init, Network!RuntimeInit, Network!Fresh, Network!Idle,
         Network!Hints, Network!Blank, Init, RuntimeInit, Fresh, Idle, Hints, Blank
<1>2. ASSUME ObjectsInv, [Network!Next]_(Network!vars) PROVE ObjectsInv' /\ Keeps
  <2>1. CASE UNCHANGED Network!vars
    BY <1>2, <2>1, StutterKeeps DEF Network!vars, Network!runtimeVars, vars, runtimeVars
  <2>2. ASSUME NEW m \in MR, NEW r \in Replica, Network!WorkerStep(m, r)
        PROVE  ObjectsInv' /\ Keeps
    <3>1. CASE Network!SecretlessStep(m, r) /\ UNCHANGED objects
      BY <1>2, <3>1, NetworkRuntime, SecretlessStepKeeps
    <3>2. CASE Network!HandlerStep(m, r)
      BY <1>2, <3>2, NetworkMoves, HandlerStepKeeps DEF ObjectsInv
    <3>3. QED
      BY <2>2, <3>1, <3>2 DEF Network!WorkerStep
  <2>3. CASE Network!WorldStep
    BY <1>2, <2>3, NetworkSteps, WorldStepKeeps
  <2>4. QED
    BY <1>2, <2>1, <2>2, <2>3 DEF Network!Next
<1>3. QED
  BY <1>1, <1>2

\* The inductive invariant: the types, the fence a pending create puts up, what a
\* worker with a current copy knows, and one network per resource.
THEOREM NetworkInvariant ==
  ASSUME ContentIsDesired
  PROVE  Network!Spec => []ObjectsInv
BY InitInv, NetworkKeeps, PTL DEF Network!Spec

\* The declared types hold in every reachable state.
THEOREM NetworkTypeCorrect ==
  ASSUME ContentIsDesired
  PROVE  Network!Spec => []TypeOK
<1>1. ObjectsInv => TypeOK
  BY DEF ObjectsInv
<1>2. QED
  BY <1>1, NetworkInvariant, PTL

\* One network per resource in every reachable state: no crash, lost reply, lagging
\* cache or second replica makes the controller create another.
THEOREM OneNetwork ==
  ASSUME ContentIsDesired
  PROVE  Network!Spec => []AtMostOneObject
<1>1. ObjectsInv => AtMostOneObject
  BY DEF ObjectsInv
<1>2. QED
  BY <1>1, NetworkInvariant, PTL

\* The controller implements OneObject: a network is created only when there is
\* none and never for a resource that is gone, and a deleted resource is let go
\* only when its network is gone.
THEOREM NetworkPromise ==
  ASSUME ContentIsDesired
  PROVE  Network!Spec => PromiseKept
<1>1. ObjectsInv /\ [Network!Next]_(Network!vars) => [Promise!Next]_(Promise!vars)
  BY NetworkKeeps DEF Keeps
<1>2. QED
  BY <1>1, InitInv, InitKeeps, NetworkKeeps, NetworkInvariant, PTL
  DEF Network!Spec, PromiseKept, Promise!Spec

-----------------------------------------------------------------------------
(* Name servers *)

\* What the instance calls by a name of NetBirdObjects is what has that name here.
LEMMA NameServerRuntime ==
  ASSUME NEW m, NEW r
  PROVE  NameServer!SecretlessStep(m, r) <=> SecretlessStep(m, r)
BY DEF NameServer!SecretlessStep, NameServer!RuntimeStep, NameServer!Release,
       NameServer!Commit, NameServer!Go, NameServer!Outdate, NameServer!Reloaded,
       NameServer!Close, NameServer!Begin, NameServer!AwaitGrace, NameServer!Proceed,
       NameServer!EnsureFinalizer, NameServer!MarkPending, NameServer!CreateRefused,
       NameServer!Annotate, NameServer!StepFails, NameServer!ReportStatus,
       NameServer!Abandon, NameServer!SyncCache, NameServer!Idle, NameServer!Fresh,
       SecretlessStep, RuntimeStep, Release, Commit, Go, Outdate, Reloaded, Close,
       Begin, AwaitGrace, Proceed, EnsureFinalizer, MarkPending, CreateRefused,
       Annotate, StepFails, ReportStatus, Abandon, SyncCache, Idle, Fresh

LEMMA NameServerSteps ==
  ASSUME NEW m, NEW r
  PROVE  /\ \A v : NameServer!Find(m, r, v) <=> Find(m, r, v)
         /\ NameServer!FindNot(m, r) <=> FindNot(m, r)
         /\ NameServer!Listing(m, r) <=> Listing(m, r)
         /\ NameServer!ObjectsOf(m) = ObjectsOf(m)
         /\ NameServer!ListNone(m, r) <=> ListNone(m, r)
         /\ \A h, c : NameServer!Post(m, r, h, c) <=> Post(m, r, h, c)
         /\ NameServer!PublishNothing(m, r) <=> PublishNothing(m, r)
         /\ \A k, c : NameServer!Put(m, r, k, c) <=> Put(m, r, k, c)
         /\ \A k : NameServer!Remove(m, r, k) <=> Remove(m, r, k)
         /\ NameServer!WorldStep <=> WorldStep
<1>1. \A v : NameServer!Find(m, r, v) <=> Find(m, r, v)
  BY DEF NameServer!Find, NameServer!Lookup, NameServer!IsId, NameServer!Hints,
      NameServer!Live, NameServer!Report, NameServer!Go, Find, Lookup, IsId, Hints,
      Live, Report, Go
<1>2. NameServer!FindNot(m, r) <=> FindNot(m, r)
  BY DEF NameServer!FindNot, NameServer!Lookup, NameServer!IsId, NameServer!Hints,
      NameServer!Live, NameServer!Go, FindNot, Lookup, IsId, Hints, Live, Go
<1>3. NameServer!Listing(m, r) <=> Listing(m, r)
  BY DEF NameServer!Listing, NameServer!Lookup, NameServer!IsId, NameServer!Hints,
      Listing, Lookup, IsId, Hints
<1>4. NameServer!ObjectsOf(m) = ObjectsOf(m)
  BY DEF NameServer!ObjectsOf, NameServer!Live, NameServer!Named, ObjectsOf, Live,
      Named
<1>5. NameServer!ListNone(m, r) <=> ListNone(m, r)
  BY <1>3, <1>4
  DEF NameServer!ListNone, NameServer!ReportMissing, NameServer!Go, ListNone,
      ReportMissing, Go
<1>6. \A h, c : NameServer!Post(m, r, h, c) <=> Post(m, r, h, c)
  BY DEF NameServer!Post, NameServer!NextIdent, NameServer!Unborn, NameServer!Go, Post,
      NextIdent, Unborn, Go
<1>7. NameServer!PublishNothing(m, r) <=> PublishNothing(m, r)
  BY DEF NameServer!PublishNothing, NameServer!Go, NameServer!Close, NameServer!Idle,
      NameServer!Fresh, PublishNothing, Go, Close, Idle, Fresh
<1>8. \A k, c : NameServer!Put(m, r, k, c) <=> Put(m, r, k, c)
  BY DEF NameServer!Put, NameServer!Live, NameServer!Go, NameServer!Close,
      NameServer!Idle, NameServer!Fresh, Put, Live, Go, Close, Idle, Fresh
<1>9. \A k : NameServer!Remove(m, r, k) <=> Remove(m, r, k)
  BY DEF NameServer!Remove, NameServer!Deleting, NameServer!Remains, NameServer!Blank,
      NameServer!Live, NameServer!Go, NameServer!Close, NameServer!Idle,
      NameServer!Fresh, Remove, Deleting, Remains, Blank, Live, Go, Close, Idle, Fresh
<1>10. NameServer!UserStep <=> UserStep
  BY DEF NameServer!UserStep, NameServer!RequestDelete, NameServer!Respecify,
      NameServer!ClearPending, NameServer!Unresolved, NameServer!Edit,
      NameServer!Outdate, UserStep, RequestDelete, Respecify, ClearPending, Unresolved,
      Edit, Outdate
<1>11. \A k : NameServer!Tamper(k) <=> Tamper(k)
  BY DEF NameServer!Tamper, NameServer!Live, NameServer!runtimeVars, Tamper, Live,
      runtimeVars
<1>12. \A k, left : NameServer!Vanish(k, left) <=> Vanish(k, left)
  BY DEF NameServer!Vanish, NameServer!Live, NameServer!Spare, NameServer!Cardinality,
      NameServer!Unborn, NameServer!Remains, NameServer!Blank, NameServer!runtimeVars,
      Vanish, Live, Spare, Cardinality, Unborn, Remains, Blank, runtimeVars
<1>13. NameServer!WorldStep <=> WorldStep
  BY <1>10, <1>11, <1>12
  DEF NameServer!WorldStep, WorldStep
<1>14. QED
  BY <1>1, <1>2, <1>3, <1>4, <1>5, <1>6, <1>7, <1>8, <1>9, <1>13

\* Adoption that may fail to record the identifier is still an observation.
LEMMA AdoptMoves ==
  ASSUME TypeOK, NEW m \in MR, NEW r \in Replica, NameServer!Adopt(m, r)
  PROVE  Moves(m, r)
<1> DEFINE w == work[m][r]
<1>1. PICK k \in Id :
        Go(m, r, [w EXCEPT !.pc = "act", !.obs = "outdated", !.cr.ext = k,
                           !.cr.sid = IF @ = NoId THEN NoId ELSE k])
  BY DEF NameServer!Adopt, NameServer!ObjectsOf, NameServer!Go, Go
<1> DEFINE x == [w EXCEPT !.pc = "act", !.obs = "outdated", !.cr.ext = k,
                          !.cr.sid = IF @ = NoId THEN NoId ELSE k]
<1>2. w \in Work /\ w.pc \in {"observe", "list"} /\ objects' = objects
  BY NameServerSteps DEF TypeOK, RuntimeTypeOK, NameServer!Adopt, Listing
<1>3. /\ x \in Work /\ x.pc = "act" /\ x.obs = "outdated"
      /\ x.cr.phase = w.cr.phase /\ (x.cr.fin <=> w.cr.fin) /\ (x.stale <=> w.stale)
  BY <1>2 DEF Work, PC, Object, ExtName, StatusId
<1>4. RuntimeTypeOK' /\ Framed(m, r) /\ work'[m][r] = x /\ mr' = mr
  BY <1>1, <1>3, GoMoves
<1>5. QED
  BY <1>2, <1>3, <1>4 DEF TypeOK, Moves, HandlerMove, Observes, Looks

LEMMA NameServerMoves ==
  ASSUME TypeOK, ContentIsDesired, NEW m \in MR, NEW r \in Replica,
         NameServer!HandlerStep(m, r)
  PROVE  Moves(m, r)
<1>1. work[m][r].cr.spec \in Content
  BY DEF ContentIsDesired, TypeOK, RuntimeTypeOK, Work, Object
<1>2. CASE NameServer!ObserveFound(m, r) \/ NameServer!ObserveNotFound(m, r)
  <2>1. \A cr, k : NameServer!Comparison(cr, k) \in {"uptodate", "outdated"}
    BY DEF NameServer!Comparison
  <2>2. QED
    BY <1>2, <2>1, NameServerSteps, FindMoves, FindNotMoves
    DEF NameServer!ObserveFound, NameServer!ObserveNotFound
<1>3. CASE NameServer!Adopt(m, r) \/ NameServer!ObserveMissing(m, r)
  BY <1>3, NameServerSteps, AdoptMoves, ListNoneMoves DEF NameServer!ObserveMissing
<1>4. ASSUME NEW heard \in BOOLEAN, NameServer!Create(m, r, heard) PROVE Moves(m, r)
  BY <1>1, <1>4, NameServerSteps, PostMoves DEF NameServer!Create
<1>5. CASE NameServer!Publish(m, r) \/ NameServer!Update(m, r) \/ NameServer!Delete(m, r)
  BY <1>1, <1>5, NameServerSteps, PublishMoves, PutMoves, RemoveMoves
  DEF NameServer!Publish, NameServer!Update, NameServer!Delete
<1>6. QED
  BY <1>2, <1>3, <1>4, <1>5 DEF NameServer!HandlerStep

LEMMA NameServerKeeps ==
  ASSUME ContentIsDesired
  PROVE  /\ NameServer!Init => Init
         /\ ObjectsInv /\ [NameServer!Next]_(NameServer!vars) => ObjectsInv' /\ Keeps
<1>1. NameServer!Init => Init
  BY DEF NameServer!Init, NameServer!RuntimeInit, NameServer!Fresh, NameServer!Idle,
         NameServer!Hints, NameServer!Blank, Init, RuntimeInit, Fresh, Idle, Hints, Blank
<1>2. ASSUME ObjectsInv, [NameServer!Next]_(NameServer!vars) PROVE ObjectsInv' /\ Keeps
  <2>1. CASE UNCHANGED NameServer!vars
    BY <1>2, <2>1, StutterKeeps DEF NameServer!vars, NameServer!runtimeVars, vars, runtimeVars
  <2>2. ASSUME NEW m \in MR, NEW r \in Replica, NameServer!WorkerStep(m, r)
        PROVE  ObjectsInv' /\ Keeps
    <3>1. CASE NameServer!SecretlessStep(m, r) /\ UNCHANGED objects
      BY <1>2, <3>1, NameServerRuntime, SecretlessStepKeeps
    <3>2. CASE NameServer!HandlerStep(m, r)
      BY <1>2, <3>2, NameServerMoves, HandlerStepKeeps DEF ObjectsInv
    <3>3. QED
      BY <2>2, <3>1, <3>2 DEF NameServer!WorkerStep
  <2>3. CASE NameServer!WorldStep
    BY <1>2, <2>3, NameServerSteps, WorldStepKeeps
  <2>4. QED
    BY <1>2, <2>1, <2>2, <2>3 DEF NameServer!Next
<1>3. QED
  BY <1>1, <1>2

\* One name server group per resource in every reachable state, although adoption
\* may be repeated without ever recording the identifier.
THEOREM OneNameServer ==
  ASSUME ContentIsDesired
  PROVE  NameServer!Spec => []AtMostOneObject
<1>1. ObjectsInv => AtMostOneObject
  BY DEF ObjectsInv
<1>2. QED
  BY <1>1, InitInv, NameServerKeeps, PTL DEF NameServer!Spec

\* The controller implements OneObject.
THEOREM NameServerPromise ==
  ASSUME ContentIsDesired
  PROVE  NameServer!Spec => PromiseKept
<1>1. ObjectsInv /\ [NameServer!Next]_(NameServer!vars)
        => ObjectsInv' /\ [Promise!Next]_(Promise!vars)
  BY NameServerKeeps DEF Keeps
<1>2. QED
  BY <1>1, InitInv, InitKeeps, NameServerKeeps, PTL
  DEF NameServer!Spec, PromiseKept, Promise!Spec

-----------------------------------------------------------------------------
(* Policies *)

LEMMA PolicyRuntime ==
  ASSUME NEW m, NEW r
  PROVE  Policy!SecretlessStep(m, r) <=> SecretlessStep(m, r)
BY DEF Policy!SecretlessStep, Policy!RuntimeStep, Policy!Release, Policy!Commit,
       Policy!Go, Policy!Outdate, Policy!Reloaded, Policy!Close, Policy!Begin,
       Policy!AwaitGrace, Policy!Proceed, Policy!EnsureFinalizer, Policy!MarkPending,
       Policy!CreateRefused, Policy!Annotate, Policy!StepFails, Policy!ReportStatus,
       Policy!Abandon, Policy!SyncCache, Policy!Idle, Policy!Fresh, SecretlessStep,
       RuntimeStep, Release, Commit, Go, Outdate, Reloaded, Close, Begin, AwaitGrace,
       Proceed, EnsureFinalizer, MarkPending, CreateRefused, Annotate, StepFails,
       ReportStatus, Abandon, SyncCache, Idle, Fresh

LEMMA PolicySteps ==
  ASSUME NEW m, NEW r
  PROVE  /\ \A v : Policy!Find(m, r, v) <=> Find(m, r, v)
         /\ Policy!FindNot(m, r) <=> FindNot(m, r)
         /\ Policy!Listing(m, r) <=> Listing(m, r)
         /\ Policy!ObjectsOf(m) = ObjectsOf(m)
         /\ Policy!ListNone(m, r) <=> ListNone(m, r)
         /\ Policy!ListOne(m, r) <=> ListOne(m, r)
         /\ \A h, c : Policy!Post(m, r, h, c) <=> Post(m, r, h, c)
         /\ Policy!PublishNothing(m, r) <=> PublishNothing(m, r)
         /\ \A k, c : Policy!Put(m, r, k, c) <=> Put(m, r, k, c)
         /\ \A k : Policy!Remove(m, r, k) <=> Remove(m, r, k)
         /\ Policy!WorldStep <=> WorldStep
<1>1. \A v : Policy!Find(m, r, v) <=> Find(m, r, v)
  BY DEF Policy!Find, Policy!Lookup, Policy!IsId, Policy!Hints, Policy!Live,
      Policy!Report, Policy!Go, Find, Lookup, IsId, Hints, Live, Report, Go
<1>2. Policy!FindNot(m, r) <=> FindNot(m, r)
  BY DEF Policy!FindNot, Policy!Lookup, Policy!IsId, Policy!Hints, Policy!Live,
      Policy!Go, FindNot, Lookup, IsId, Hints, Live, Go
<1>3. Policy!Listing(m, r) <=> Listing(m, r)
  BY DEF Policy!Listing, Policy!Lookup, Policy!IsId, Policy!Hints, Listing, Lookup,
      IsId, Hints
<1>4. Policy!ObjectsOf(m) = ObjectsOf(m)
  BY DEF Policy!ObjectsOf, Policy!Live, Policy!Named, ObjectsOf, Live, Named
<1>5. Policy!ListNone(m, r) <=> ListNone(m, r)
  BY <1>3, <1>4
  DEF Policy!ListNone, Policy!ReportMissing, Policy!Go, ListNone, ReportMissing, Go
<1>6. Policy!ListOne(m, r) <=> ListOne(m, r)
  BY <1>3, <1>4
  DEF Policy!ListOne, Policy!Report, Policy!Go, ListOne, Report, Go
<1>7. \A h, c : Policy!Post(m, r, h, c) <=> Post(m, r, h, c)
  BY DEF Policy!Post, Policy!NextIdent, Policy!Unborn, Policy!Go, Post, NextIdent,
      Unborn, Go
<1>8. Policy!PublishNothing(m, r) <=> PublishNothing(m, r)
  BY DEF Policy!PublishNothing, Policy!Go, Policy!Close, Policy!Idle, Policy!Fresh,
      PublishNothing, Go, Close, Idle, Fresh
<1>9. \A k, c : Policy!Put(m, r, k, c) <=> Put(m, r, k, c)
  BY DEF Policy!Put, Policy!Live, Policy!Go, Policy!Close, Policy!Idle, Policy!Fresh,
      Put, Live, Go, Close, Idle, Fresh
<1>10. \A k : Policy!Remove(m, r, k) <=> Remove(m, r, k)
  BY DEF Policy!Remove, Policy!Deleting, Policy!Remains, Policy!Blank, Policy!Live,
      Policy!Go, Policy!Close, Policy!Idle, Policy!Fresh, Remove, Deleting, Remains,
      Blank, Live, Go, Close, Idle, Fresh
<1>11. Policy!UserStep <=> UserStep
  BY DEF Policy!UserStep, Policy!RequestDelete, Policy!Respecify, Policy!ClearPending,
      Policy!Unresolved, Policy!Edit, Policy!Outdate, UserStep, RequestDelete,
      Respecify, ClearPending, Unresolved, Edit, Outdate
<1>12. \A k : Policy!Tamper(k) <=> Tamper(k)
  BY DEF Policy!Tamper, Policy!Live, Policy!runtimeVars, Tamper, Live, runtimeVars
<1>13. \A k, left : Policy!Vanish(k, left) <=> Vanish(k, left)
  BY DEF Policy!Vanish, Policy!Live, Policy!Spare, Policy!Cardinality, Policy!Unborn,
      Policy!Remains, Policy!Blank, Policy!runtimeVars, Vanish, Live, Spare,
      Cardinality, Unborn, Remains, Blank, runtimeVars
<1>14. Policy!WorldStep <=> WorldStep
  BY <1>11, <1>12, <1>13
  DEF Policy!WorldStep, WorldStep
<1>15. QED
  BY <1>1, <1>2, <1>3, <1>4, <1>5, <1>6, <1>7, <1>8, <1>9, <1>10, <1>14

\* What a translated specification gives is something a policy may hold.
ContentIsRules ==
  \A d \in Desired :
    /\ [like |-> d, whole |-> TRUE] \in Content
    /\ d \in Mixed => [like |-> d, whole |-> FALSE] \in Content

LEMMA TranslationType ==
  ASSUME ContentIsRules, NEW d \in Desired, Policy!Translates(d)
  PROVE  Policy!Translation(d) \in Content
<1>1. Policy!Resolves(d) \in BOOLEAN
  BY DEF Policy!Resolves
<1>2. CASE Policy!Resolves(d)
  BY <1>2 DEF ContentIsRules, Policy!Translation
<1>3. CASE ~Policy!Resolves(d)
  BY <1>1, <1>3 DEF ContentIsRules, Policy!Translation, Policy!Translates
<1>4. QED
  BY <1>2, <1>3

LEMMA PolicyMoves ==
  ASSUME TypeOK, ContentIsRules, NEW m \in MR, NEW r \in Replica, Policy!HandlerStep(m, r)
  PROVE  Moves(m, r)
<1>1. work[m][r].cr.spec \in Desired
  BY DEF TypeOK, RuntimeTypeOK, Work, Object
<1>2. CASE Policy!ObserveFound(m, r) \/ Policy!ObserveNotFound(m, r)
  <2>1. \A cr, k : Policy!Comparison(cr, k) \in {"uptodate", "outdated"}
    BY DEF Policy!Comparison
  <2>2. QED
    BY <1>2, <2>1, PolicySteps, FindMoves, FindNotMoves
    DEF Policy!ObserveFound, Policy!ObserveNotFound
<1>3. CASE Policy!Adopt(m, r) \/ Policy!ObserveMissing(m, r)
  BY <1>3, PolicySteps, ListOneMoves, ListNoneMoves
  DEF Policy!Adopt, Policy!ObserveMissing
<1>4. ASSUME NEW heard \in BOOLEAN, Policy!Create(m, r, heard) PROVE Moves(m, r)
  BY <1>1, <1>4, TranslationType, PolicySteps, PostMoves DEF Policy!Create
<1>5. CASE Policy!Publish(m, r) \/ Policy!Update(m, r) \/ Policy!Delete(m, r)
  BY <1>1, <1>5, TranslationType, PolicySteps, PublishMoves, PutMoves, RemoveMoves
  DEF Policy!Publish, Policy!Update, Policy!Delete
<1>6. QED
  BY <1>2, <1>3, <1>4, <1>5 DEF Policy!HandlerStep

LEMMA PolicyKeeps ==
  ASSUME ContentIsRules
  PROVE  /\ Policy!PolicyInit => Init
         /\ ObjectsInv /\ [Policy!Next]_<<Policy!vars, group>> => ObjectsInv' /\ Keeps
<1>1. Policy!PolicyInit => Init
  BY DEF Policy!PolicyInit, Policy!Init, Policy!RuntimeInit, Policy!Fresh, Policy!Idle,
         Policy!Hints, Policy!Blank, Init, RuntimeInit, Fresh, Idle, Hints, Blank
<1>2. ASSUME ObjectsInv, [Policy!Next]_<<Policy!vars, group>> PROVE ObjectsInv' /\ Keeps
  <2>1. CASE UNCHANGED Policy!vars
    BY <1>2, <2>1, StutterKeeps DEF Policy!vars, Policy!runtimeVars, vars, runtimeVars
  <2>2. ASSUME NEW m \in MR, NEW r \in Replica, Policy!WorkerStep(m, r)
        PROVE  ObjectsInv' /\ Keeps
    <3>1. CASE Policy!SecretlessStep(m, r) /\ UNCHANGED objects
      BY <1>2, <3>1, PolicyRuntime, SecretlessStepKeeps
    <3>2. CASE Policy!HandlerStep(m, r)
      BY <1>2, <3>2, PolicyMoves, HandlerStepKeeps DEF ObjectsInv
    <3>3. QED
      BY <2>2, <3>1, <3>2 DEF Policy!WorkerStep
  <2>3. CASE Policy!WorldStep
    BY <1>2, <2>3, PolicySteps, WorldStepKeeps
  <2>4. QED
    BY <1>2, <2>1, <2>2, <2>3 DEF Policy!Next, Policy!GroupComes, Policy!GroupRenamed
<1>3. QED
  BY <1>1, <1>2

\* One policy per resource in every reachable state, whatever becomes of the group
\* its rules give.
THEOREM OnePolicy ==
  ASSUME ContentIsRules
  PROVE  Policy!Spec => []AtMostOneObject
<1>1. ObjectsInv => AtMostOneObject
  BY DEF ObjectsInv
<1>2. QED
  BY <1>1, InitInv, PolicyKeeps, PTL DEF Policy!Spec

\* The controller implements OneObject.
THEOREM PolicyPromise ==
  ASSUME ContentIsRules
  PROVE  Policy!Spec => PromiseKept
<1>1. ObjectsInv /\ [Policy!Next]_<<Policy!vars, group>>
        => ObjectsInv' /\ [Promise!Next]_(Promise!vars)
  BY PolicyKeeps DEF Keeps
<1>2. QED
  BY <1>1, InitInv, InitKeeps, PolicyKeeps, PTL
  DEF Policy!Spec, PromiseKept, Promise!Spec
=============================================================================
