------------------------- MODULE NetBirdObjectsProofs -------------------------
(***************************************************************************)
(* What the steps of NetBirdObjects do, for every kind that is built from  *)
(* them and any number of resources, replicas and objects: no resource     *)
(* ever has two objects, and the promise of OneObject is kept.             *)
(***************************************************************************)
EXTENDS NetBirdObjects, ManagedReconcilerProofs

-----------------------------------------------------------------------------
(* What the handlers do *)

\* No object of m is there.
Absent(m) == ObjectsOf(m) = {}

\* An observation is made, or adoption by name is still to be tried.
Observes(m, r) == Looks(m, r, Absent(m)) /\ objects' = objects

\* An object of m is created, heard of or not.
Posts(m, r) ==
  /\ Makes(m, r)
  /\ \E k \in Id, c \in Content :
       /\ objects[k].state = "unborn"
       /\ objects' = [objects EXCEPT ![k] = [state |-> "live", of |-> m, holds |-> c]]

\* Object k is overwritten or goes.
Changes(k) ==
  /\ Live(k)
  /\ \E o \in NetBirdObject :
       o.of = objects[k].of /\ o.state # "unborn" /\ objects' = [objects EXCEPT ![k] = o]

\* Only the status write is left; at most one object is changed.
Finishes(m, r) ==
  Stops(m, r) /\ (objects' = objects \/ \E k \in Id : Changes(k))

HandlerMove(m, r) == Observes(m, r) \/ Posts(m, r) \/ Finishes(m, r)

\* A handler's step keeps the types and the frame, and is one of these moves.
Moves(m, r) == TypeOK' /\ Framed(m, r) /\ HandlerMove(m, r)

\* Looking a worker's object up gives an identifier of NetBird or a hint.
LEMMA LookupType ==
  ASSUME NEW cr \in Object, IsId(Lookup(cr))
  PROVE  Lookup(cr) \in Id
BY IdentityAssumption DEF Lookup, IsId, Hints, ExtName, StatusId, Object

\* A worker that moves on without a write.
LEMMA GoMoves ==
  ASSUME TypeOK, NEW m \in MR, NEW r \in Replica, NEW x \in Work, Go(m, r, x)
  PROVE  RuntimeTypeOK' /\ Framed(m, r) /\ work'[m][r] = x /\ mr' = mr
BY GoFramed, GoEffect DEF TypeOK

LEMMA ReportMoves ==
  ASSUME TypeOK, NEW m \in MR, NEW r \in Replica, work[m][r].pc \in {"observe", "list"},
         NEW k \in Id, NEW verdict \in {"uptodate", "outdated"}, Report(m, r, k, verdict)
  PROVE  Moves(m, r)
<1> DEFINE w == work[m][r]
           x == [w EXCEPT !.pc = "act", !.obs = verdict, !.cr.ext = k, !.cr.sid = k]
<1>1. w \in Work
  BY DEF TypeOK, RuntimeTypeOK
<1>2. /\ x \in Work /\ x.pc = "act" /\ x.obs = verdict
      /\ x.cr.phase = w.cr.phase /\ (x.cr.fin <=> w.cr.fin) /\ (x.stale <=> w.stale)
  BY <1>1 DEF Work, PC, Object, ExtName, StatusId
<1>3. RuntimeTypeOK' /\ Framed(m, r) /\ work'[m][r] = x /\ mr' = mr /\ objects' = objects
  BY <1>2, GoMoves DEF Report
<1>4. QED
  BY <1>2, <1>3 DEF TypeOK, Moves, HandlerMove, Observes, Looks

LEMMA FindMoves ==
  ASSUME TypeOK, NEW m \in MR, NEW r \in Replica,
         NEW verdict \in {"uptodate", "outdated"}, Find(m, r, verdict)
  PROVE  Moves(m, r)
BY ReportMoves DEF Find, Live

LEMMA FindNotMoves ==
  ASSUME TypeOK, NEW m \in MR, NEW r \in Replica, FindNot(m, r)
  PROVE  Moves(m, r)
<1> DEFINE w == work[m][r]
           x == [w EXCEPT !.pc = "list"]
<1>1. /\ x \in Work /\ x.pc = "list" /\ x.obs = w.obs
      /\ x.cr = w.cr /\ (x.stale <=> w.stale)
  <2>1. w \in Work
    BY DEF TypeOK, RuntimeTypeOK
  <2>2. QED
    BY <2>1 DEF Work, PC
<1>2. RuntimeTypeOK' /\ Framed(m, r) /\ work'[m][r] = x /\ mr' = mr /\ objects' = objects
  BY <1>1, GoMoves DEF FindNot
<1>3. QED
  BY <1>1, <1>2 DEF FindNot, TypeOK, Moves, HandlerMove, Observes, Looks

LEMMA ListOneMoves ==
  ASSUME TypeOK, NEW m \in MR, NEW r \in Replica, ListOne(m, r)
  PROVE  Moves(m, r)
BY ReportMoves DEF ListOne, Listing, ObjectsOf

LEMMA ListNoneMoves ==
  ASSUME TypeOK, NEW m \in MR, NEW r \in Replica, ListNone(m, r)
  PROVE  Moves(m, r)
<1> DEFINE w == work[m][r]
           x == [w EXCEPT !.pc = "act", !.obs = "missing"]
<1>1. /\ x \in Work /\ x.pc = "act" /\ x.obs = "missing"
      /\ x.cr = w.cr /\ (x.stale <=> w.stale)
  <2>1. w \in Work
    BY DEF TypeOK, RuntimeTypeOK
  <2>2. QED
    BY <2>1 DEF Work, PC
<1>2. RuntimeTypeOK' /\ Framed(m, r) /\ work'[m][r] = x /\ mr' = mr /\ objects' = objects
  BY <1>1, GoMoves DEF ListNone, ReportMissing
<1>3. QED
  BY <1>1, <1>2 DEF ListNone, Listing, Absent, TypeOK, Moves, HandlerMove, Observes, Looks

LEMMA PostMoves ==
  ASSUME TypeOK, NEW m \in MR, NEW r \in Replica, NEW heard \in BOOLEAN,
         NEW content \in Content, Post(m, r, heard, content)
  PROVE  Moves(m, r)
<1>1. PICK k \in Id :
        /\ objects[k].state = "unborn"
        /\ objects' = [objects EXCEPT ![k] = [state |-> "live", of |-> m, holds |-> content]]
        /\ Go(m, r, IF heard
                      THEN [work[m][r] EXCEPT !.pc = "annotate", !.cr.ext = k,
                                              !.cr.create = "succeeded"]
                      ELSE [work[m][r] EXCEPT !.pc = "annotate", !.cr.create = "failed"])
  BY DEF Post, Unborn
<1> DEFINE w == work[m][r]
           x == [w EXCEPT !.pc = "annotate", !.cr.ext = k, !.cr.create = "succeeded"]
           y == [w EXCEPT !.pc = "annotate", !.cr.create = "failed"]
<1>2. w \in Work /\ w.pc = "create"
  BY DEF TypeOK, RuntimeTypeOK, Post
<1>3. /\ x \in Work /\ x.pc = "annotate" /\ x.cr.create = "succeeded"
      /\ y \in Work /\ y.pc = "annotate" /\ y.cr.create = "failed"
  BY <1>2 DEF Work, PC, Object, ExtName
<1>4. RuntimeTypeOK' /\ Framed(m, r) /\ work'[m][r] \in {x, y} /\ mr' = mr
  <2>1. CASE heard
    BY <1>1, <1>3, <2>1, GoMoves
  <2>2. CASE ~heard
    BY <1>1, <1>3, <2>2, GoMoves
  <2>3. QED
    BY <2>1, <2>2
<1>5. objects' \in [Id -> NetBirdObject]
  BY <1>1 DEF TypeOK, NetBirdObject
<1>6. Posts(m, r)
  BY <1>1, <1>2, <1>3, <1>4 DEF Posts, Makes
<1>7. QED
  BY <1>4, <1>5, <1>6 DEF TypeOK, Moves, HandlerMove

\* The last call of a reconcile, which changes at most one object.
LEMMA CloseMoves ==
  ASSUME TypeOK, NEW m \in MR, NEW r \in Replica, Go(m, r, Close(work[m][r])),
         objects' = objects \/ \E k \in Id : Changes(k)
  PROVE  Moves(m, r)
<1>1. work[m][r] \in Work
  BY DEF TypeOK, RuntimeTypeOK
<1>2. /\ RuntimeTypeOK' /\ Framed(m, r) /\ mr' = mr
      /\ work'[m][r] = Close(work[m][r])
  BY <1>1, GoMoves, WorkTypes
<1>3. objects' \in [Id -> NetBirdObject]
  BY DEF Changes, TypeOK
<1>4. QED
  BY <1>1, <1>2, <1>3, CloseFields DEF TypeOK, Moves, HandlerMove, Finishes, Stops

LEMMA PublishMoves ==
  ASSUME TypeOK, NEW m \in MR, NEW r \in Replica, PublishNothing(m, r)
  PROVE  Moves(m, r)
BY CloseMoves DEF PublishNothing

LEMMA PutMoves ==
  ASSUME TypeOK, NEW m \in MR, NEW r \in Replica, NEW k, NEW content \in Content,
         Put(m, r, k, content)
  PROVE  Moves(m, r)
<1>1. k \in Id /\ Live(k) /\ objects[k] \in NetBirdObject
  BY DEF Put, Live, TypeOK
<1>2. /\ [objects[k] EXCEPT !.holds = content] \in NetBirdObject
      /\ [objects[k] EXCEPT !.holds = content].of = objects[k].of
      /\ [objects[k] EXCEPT !.holds = content].state = "live"
  BY <1>1 DEF NetBirdObject, Live
<1>3. Changes(k)
  BY <1>1, <1>2 DEF Put, Changes
<1>4. QED
  BY <1>1, <1>3, CloseMoves DEF Put

\* What is left of an object is of the same resource.
LEMMA RemainsType ==
  ASSUME TypeOK, NEW k, Live(k), NEW left \in {"deleted", "lost"}
  PROVE  /\ k \in Id /\ Remains(k, left) \in NetBirdObject
         /\ Remains(k, left).of = objects[k].of /\ Remains(k, left).state = left
<1>1. k \in Id /\ objects[k] \in NetBirdObject /\ Blank \in Content
  BY BoundsAssumption DEF Live, Blank, TypeOK
<1>2. QED
  BY <1>1 DEF Remains, NetBirdObject

LEMMA RemoveMoves ==
  ASSUME TypeOK, NEW m \in MR, NEW r \in Replica, NEW k, Remove(m, r, k)
  PROVE  Moves(m, r)
<1>1. k \in Id /\ Changes(k)
  BY RemainsType DEF Remove, Changes
<1>2. QED
  BY <1>1, CloseMoves DEF Remove

-----------------------------------------------------------------------------
(* Types *)

\* What administrators do touches one object and nothing of the runtime.
LEMMA ObjectStepMoves ==
  ASSUME TypeOK, NEW k,
         Tamper(k) \/ \E left \in {"deleted", "lost"} : Vanish(k, left)
  PROVE  /\ TypeOK' /\ k \in Id /\ Changes(k)
         /\ mr' = mr /\ cache' = cache /\ work' = work
<1>1. k \in Id /\ Live(k) /\ objects[k] \in NetBirdObject
  BY DEF Tamper, Vanish, Live, TypeOK
<1>2. Changes(k)
  <2>1. ASSUME NEW c \in Content
        PROVE  /\ [objects[k] EXCEPT !.holds = c] \in NetBirdObject
               /\ [objects[k] EXCEPT !.holds = c].of = objects[k].of
               /\ [objects[k] EXCEPT !.holds = c].state = "live"
    BY <1>1 DEF NetBirdObject, Live
  <2>2. CASE Tamper(k)
    <3>1. PICK c \in Content : objects' = [objects EXCEPT ![k].holds = c]
      BY <2>2 DEF Tamper
    <3>2. QED
      BY <1>1, <2>1, <3>1 DEF Changes
  <2>3. ASSUME NEW left \in {"deleted", "lost"}, Vanish(k, left) PROVE Changes(k)
    BY <1>1, <2>3, RemainsType DEF Vanish, Changes
  <2>4. QED
    BY <2>2, <2>3
<1>3. mr' = mr /\ cache' = cache /\ work' = work
  BY DEF Tamper, Vanish, runtimeVars
<1>4. TypeOK'
  BY <1>2, <1>3 DEF Changes, TypeOK, RuntimeTypeOK
<1>5. QED
  BY <1>1, <1>2, <1>3, <1>4

LEMMA InitTypes == Init => TypeOK
<1> SUFFICES ASSUME Init PROVE TypeOK
  OBVIOUS
<1>1. PICK born \in SUBSET Imported, m \in MR, c \in Content :
        /\ RuntimeInit(born)
        /\ objects = [k \in Id |-> IF k \in born
                                  THEN [state |-> "live", of |-> m, holds |-> c]
                                  ELSE [state |-> "unborn", of |-> m, holds |-> Blank]]
  BY DEF Init
<1>2. RuntimeTypeOK
  BY <1>1, BoundsAssumption, RuntimeInitTypes
<1>3. Blank \in Content
  BY <1>1 DEF Blank
<1>4. objects \in [Id -> NetBirdObject]
  BY <1>1, <1>3 DEF NetBirdObject
<1>5. QED
  BY <1>2, <1>4 DEF TypeOK

-----------------------------------------------------------------------------
(* The inductive invariant *)

\* The resources that have no object.
Void == {m \in MR : Absent(m)}

FenceInv == Fence(Void)

ObjectsInv == TypeOK /\ FenceInv /\ CurrentInv /\ AtMostOneObject

LEMMA InitInv == Init => ObjectsInv
<1> SUFFICES ASSUME Init PROVE ObjectsInv
  OBVIOUS
<1>1. TypeOK
  BY InitTypes
<1>2. FenceInv /\ CurrentInv
  BY DEF Init, RuntimeInit, Idle, Fresh, FenceInv, Fence, Sole, Fenced, CurrentInv, Current,
         Early, Minting, Watching
<1>3. PICK born \in SUBSET Imported :
        /\ \A j, k \in born : j = k
        /\ \A k \in Id : objects[k].state = IF k \in born THEN "live" ELSE "unborn"
  BY DEF Init
<1>4. AtMostOneObject
  BY <1>3 DEF AtMostOneObject, ObjectsOf, Live
<1>5. QED
  BY <1>1, <1>2, <1>4 DEF ObjectsInv

-----------------------------------------------------------------------------
(* Whose objects a step touches *)

\* No object of l appears.
NoneAppears(l) == Absent(l) => Absent(l)'

LEMMA ChangeAppears ==
  ASSUME TypeOK, objects' = objects \/ \E k \in Id : Changes(k), NEW l \in MR
  PROVE  ObjectsOf(l)' \subseteq ObjectsOf(l) /\ NoneAppears(l)
<1>1. \A k \in Id : objects[k].of = objects'[k].of
                   /\ (objects'[k].state = "live" => objects[k].state = "live")
  BY DEF Changes, Live, TypeOK
<1>2. QED
  BY <1>1 DEF NoneAppears, Absent, ObjectsOf, Live, Named

LEMMA PostAppears ==
  ASSUME TypeOK, NEW m \in MR, NEW r \in Replica, Posts(m, r)
  PROVE  /\ \E k \in Id : ObjectsOf(m)' = ObjectsOf(m) \cup {k}
         /\ \A l \in MR : l # m => ObjectsOf(l)' = ObjectsOf(l) /\ NoneAppears(l)
<1>1. PICK k \in Id, c \in Content :
        /\ objects[k].state = "unborn"
        /\ objects' = [objects EXCEPT ![k] = [state |-> "live", of |-> m, holds |-> c]]
  BY DEF Posts
<1>2. /\ objects'[k].state = "live" /\ objects'[k].of = m
      /\ \A j \in Id : j # k => objects'[j] = objects[j]
  BY <1>1 DEF TypeOK
<1>3. ObjectsOf(m)' = ObjectsOf(m) \cup {k}
  BY <1>2 DEF ObjectsOf, Live, Named
<1>4. ASSUME NEW l \in MR, l # m PROVE ObjectsOf(l)' = ObjectsOf(l)
  BY <1>1, <1>2, <1>4 DEF ObjectsOf, Live, Named
<1>5. QED
  BY <1>3, <1>4 DEF NoneAppears, Absent

-----------------------------------------------------------------------------
(* The fence stands *)

\* Resources have nothing after a step that have nothing before it.
LEMMA VoidStays ==
  ASSUME \A l \in MR : NoneAppears(l)
  PROVE  Void \subseteq Void' /\ (FenceAfter(Void') => FenceInv')
BY DEF NoneAppears, Void, FenceInv, Fence, FenceAfter

LEMMA HandlerStepFenced ==
  ASSUME TypeOK, FenceInv, CurrentInv, NEW m \in MR, NEW r \in Replica, Moves(m, r)
  PROVE  /\ FenceInv' /\ CurrentInv' /\ mr' = mr
         /\ Posts(m, r) => Absent(m)
<1>1. Framed(m, r) /\ HandlerMove(m, r)
  BY DEF Moves
<1>2. mr' = mr /\ CurrentInv'
  <2>1. Looks(m, r, Absent(m)) \/ Makes(m, r) \/ Stops(m, r)
    BY <1>1 DEF HandlerMove, Observes, Posts, Finishes
  <2>2. Absent(m) \in BOOLEAN
    BY DEF Absent
  <2>3. QED
    BY <1>1, <2>1, <2>2, HandlerStepCurrent DEF TypeOK, Looks, Makes, Stops
<1>3. CASE Observes(m, r) \/ Finishes(m, r)
  <2>1. \A l \in MR : NoneAppears(l)
    BY <1>3, ChangeAppears DEF Observes, Finishes
  <2>2. Looks(m, r, m \in Void') \/ Stops(m, r)
    <3>1. Absent(m) => m \in Void'
      BY <2>1 DEF NoneAppears, Void
    <3>2. QED
      BY <1>3, <3>1 DEF Observes, Finishes, Looks
  <2>3. FenceAfter(Void')
    BY <1>1, <2>1, <2>2, VoidStays, RestFenced DEF FenceInv
  <2>4. ~Posts(m, r)
    BY <1>3 DEF Observes, Finishes, Posts, Looks, Stops, Makes
  <2>5. QED
    BY <1>2, <2>1, <2>3, <2>4, VoidStays
<1>4. CASE Posts(m, r)
  <2>1. Void \ Void' \subseteq {m}
    BY <1>4, PostAppears DEF NoneAppears, Void
  <2>2. m \in Void /\ FenceAfter(Void')
    BY <1>1, <1>4, <2>1, MakingFenced DEF FenceInv, Posts
  <2>3. QED
    BY <1>2, <2>2 DEF Void, FenceInv, Fence, FenceAfter
<1>5. QED
  BY <1>1, <1>3, <1>4 DEF HandlerMove

-----------------------------------------------------------------------------
(* Administrators *)

LEMMA ObjectStepFenced ==
  ASSUME TypeOK, FenceInv, CurrentInv, NEW k,
         Tamper(k) \/ \E left \in {"deleted", "lost"} : Vanish(k, left)
  PROVE  TypeOK' /\ FenceInv' /\ CurrentInv' /\ mr' = mr /\ k \in Id /\ Changes(k)
<1>1. /\ TypeOK' /\ k \in Id /\ Changes(k)
      /\ mr' = mr /\ cache' = cache /\ work' = work
  BY ObjectStepMoves
<1>2. \A l \in MR : NoneAppears(l)
  BY <1>1, ChangeAppears
<1>3. FenceInv' /\ CurrentInv'
  BY <1>1, <1>2, VoidStays, WorldFenced DEF FenceInv
<1>4. QED
  BY <1>1, <1>3

-----------------------------------------------------------------------------
(* The promise of OneObject *)

Phases == [m \in MR |-> mr[m].phase]
Owned == [m \in MR |-> ObjectsOf(m)]

Keeps == [Promise!Next]_(Promise!vars)

\* Its actions, with these in place of its variables.
LEMMA PromiseActions ==
  ASSUME NEW m \in MR
  PROVE  /\ Phases' = Phases /\ Owned' = Owned => Keeps
         /\ /\ Phases[m] # "gone" /\ Owned[m] = {} /\ Phases' = Phases
            /\ \E k \in Id : Owned' = [Owned EXCEPT ![m] = {k}]
            => Keeps
         /\ Phases' = Phases /\ Owned' = [Owned EXCEPT ![m] = {}] => Keeps
         /\ /\ Phases[m] = "live" /\ Owned' = Owned
            /\ \E p \in {"deleting", "gone"} : Phases' = [Phases EXCEPT ![m] = p]
            => Keeps
         /\ /\ Phases[m] = "deleting" /\ Owned[m] = {} /\ Owned' = Owned
            /\ Phases' = [Phases EXCEPT ![m] = "gone"]
            => Keeps
BY DEF Keeps, Phases, Owned, Promise!Next, Promise!vars, Promise!Obtain, Promise!Lose,
       Promise!RequestDelete, Promise!LetGo

LEMMA PhasesStay ==
  ASSUME \A l \in MR : mr'[l].phase = mr[l].phase
  PROVE  Phases' = Phases
BY DEF Phases

LEMMA PhasesBut ==
  ASSUME NEW m \in MR, \A l \in MR : l # m => mr'[l] = mr[l]
  PROVE  Phases' = [Phases EXCEPT ![m] = mr'[m].phase]
BY DEF Phases

LEMMA OwnedStay ==
  ASSUME objects' = objects
  PROVE  Owned' = Owned /\ (AtMostOneObject => AtMostOneObject')
BY DEF Owned, AtMostOneObject, ObjectsOf, Live, Named

\* One object changed: it is still there, or its resource has lost its only one.
LEMMA ChangeKeeps ==
  ASSUME TypeOK, AtMostOneObject, Phases' = Phases, NEW k \in Id, Changes(k)
  PROVE  Keeps /\ AtMostOneObject'
<1>1. PICK m \in MR : m = objects[k].of /\ k \in ObjectsOf(m)
  BY DEF Changes, TypeOK, NetBirdObject, ObjectsOf, Live, Named
<1>2. PICK o \in NetBirdObject : o.of = m /\ objects' = [objects EXCEPT ![k] = o]
  BY <1>1 DEF Changes
<1>3. /\ objects'[k] = o
      /\ \A j \in Id : j # k => objects'[j] = objects[j]
  BY <1>2 DEF TypeOK
<1>4. ASSUME NEW l \in MR, l # m PROVE ObjectsOf(l)' = ObjectsOf(l)
  BY <1>1, <1>2, <1>3, <1>4 DEF ObjectsOf, Live, Named
<1>5. AtMostOneObject'
  BY ChangeAppears DEF AtMostOneObject
<1>6. CASE o.state = "live"
  <2>1. ObjectsOf(m)' = ObjectsOf(m)
    BY <1>1, <1>2, <1>3, <1>6 DEF ObjectsOf, Live, Named
  <2>2. Owned' = Owned
    BY <1>4, <2>1 DEF Owned
  <2>3. QED
    BY <1>1, <1>5, <2>2, PromiseActions
<1>7. CASE o.state # "live"
  <2>1. ObjectsOf(m)' = {}
    BY <1>1, <1>3, <1>7, ChangeAppears DEF AtMostOneObject, ObjectsOf, Live
  <2>2. Owned' = [Owned EXCEPT ![m] = {}]
    BY <1>1, <1>4, <2>1 DEF Owned
  <2>3. QED
    BY <1>1, <1>5, <2>2, PromiseActions
<1>8. QED
  BY <1>6, <1>7

-----------------------------------------------------------------------------
(* Every step keeps the invariant and the promise *)

LEMMA StutterKeeps ==
  ASSUME ObjectsInv, UNCHANGED vars
  PROVE  ObjectsInv' /\ Keeps
<1>1. mr' = mr /\ cache' = cache /\ work' = work /\ objects' = objects
  BY DEF vars, runtimeVars
<1>2. TypeOK' /\ FenceInv' /\ CurrentInv'
  <2>1. \A l \in MR : NoneAppears(l)
    BY <1>1, ChangeAppears DEF ObjectsInv
  <2>2. QED
    BY <1>1, <2>1, VoidStays, WorldFenced DEF ObjectsInv, TypeOK, RuntimeTypeOK, FenceInv
<1>3. AtMostOneObject' /\ Owned' = Owned
  BY <1>1, OwnedStay DEF ObjectsInv
<1>4. Phases' = Phases
  BY <1>1, PhasesStay
<1>5. Keeps
  BY <1>1, <1>3, <1>4 DEF Keeps, Phases, Owned, Promise!vars
<1>6. QED
  BY <1>2, <1>3, <1>5 DEF ObjectsInv

LEMMA SecretlessStepKeeps ==
  ASSUME ObjectsInv, NEW m \in MR, NEW r \in Replica, SecretlessStep(m, r),
         objects' = objects
  PROVE  ObjectsInv' /\ Keeps
<1>1. /\ Owned' = Owned /\ AtMostOneObject'
      /\ Void \subseteq Void' /\ (FenceAfter(Void') => FenceInv')
  BY OwnedStay, ChangeAppears, VoidStays DEF ObjectsInv
<1>2. CASE RuntimeStep(m, r)
  <2>1. RuntimeTypeOK' /\ Framed(m, r) /\ mr'[m].phase = mr[m].phase
    BY <1>2, RuntimeStepEffect, RuntimeStepKeeps DEF ObjectsInv, TypeOK
  <2>2. FenceInv' /\ CurrentInv'
    BY <1>1, <1>2, RuntimeStepFenced, RuntimeStepCurrent DEF ObjectsInv, TypeOK, FenceInv
  <2>3. Phases' = Phases
    BY <2>1, PhasesStay DEF Framed
  <2>4. QED
    BY <1>1, <2>1, <2>2, <2>3, PromiseActions DEF ObjectsInv, TypeOK
<1>3. CASE Release(m, r)
  <2>1. RuntimeTypeOK' /\ Framed(m, r) /\ Releases(m, r)
    BY <1>3, ReleaseMoves DEF ObjectsInv, TypeOK
  <2>2. m \in Void /\ mr[m].phase = "deleting" /\ FenceInv' /\ CurrentInv'
    BY <1>1, <1>3, ReleaseFenced DEF ObjectsInv, TypeOK, FenceInv
  <2>4. Phases' = [Phases EXCEPT ![m] = "gone"]
    BY <2>1, PhasesBut DEF Framed, Releases
  <2>5. Phases[m] = "deleting" /\ Owned[m] = {}
    BY <2>2 DEF Phases, Owned, Void, Absent
  <2>6. QED
    BY <1>1, <2>1, <2>2, <2>4, <2>5, PromiseActions DEF ObjectsInv, TypeOK
<1>4. QED
  BY <1>2, <1>3 DEF SecretlessStep

LEMMA HandlerStepKeeps ==
  ASSUME ObjectsInv, NEW m \in MR, NEW r \in Replica, Moves(m, r)
  PROVE  ObjectsInv' /\ Keeps
<1>1. /\ TypeOK' /\ HandlerMove(m, r) /\ FenceInv' /\ CurrentInv' /\ mr' = mr
      /\ Posts(m, r) => Absent(m)
  BY HandlerStepFenced DEF ObjectsInv, Moves
<1>2. Phases' = Phases
  BY <1>1, PhasesStay
<1>3. CASE objects' = objects
  BY <1>1, <1>2, <1>3, OwnedStay, PromiseActions DEF ObjectsInv
<1>4. ASSUME NEW k \in Id, Changes(k) PROVE ObjectsInv' /\ Keeps
  BY <1>1, <1>2, <1>4, ChangeKeeps DEF ObjectsInv
<1>5. CASE Posts(m, r)
  <2>1. Absent(m) /\ mr[m].phase # "gone"
    BY <1>1, <1>5 DEF Posts, Makes, ObjectsInv, CurrentInv, Current, Minting
  <2>2. PICK k \in Id : ObjectsOf(m)' = ObjectsOf(m) \cup {k}
    BY <1>5, PostAppears DEF ObjectsInv
  <2>3. ObjectsOf(m)' = {k}
    BY <2>1, <2>2 DEF Absent
  <2>4. \A l \in MR : l # m => ObjectsOf(l)' = ObjectsOf(l)
    BY <1>5, PostAppears DEF ObjectsInv
  <2>5. Owned' = [Owned EXCEPT ![m] = {k}]
    BY <2>3, <2>4 DEF Owned
  <2>6. AtMostOneObject'
    BY <2>3, <2>4 DEF ObjectsInv, AtMostOneObject
  <2>7. Phases[m] # "gone" /\ Owned[m] = {}
    BY <2>1 DEF Phases, Owned, Absent
  <2>8. QED
    BY <1>1, <1>2, <2>5, <2>6, <2>7, PromiseActions DEF ObjectsInv
<1>6. QED
  BY <1>1, <1>3, <1>4, <1>5 DEF HandlerMove, Observes, Finishes

LEMMA WorldStepKeeps ==
  ASSUME ObjectsInv, WorldStep
  PROVE  ObjectsInv' /\ Keeps
<1>1. ASSUME NEW m \in MR, objects' = objects,
             RequestDelete(m) \/ Respecify(m) \/ ClearPending(m)
      PROVE  ObjectsInv' /\ Keeps
  <2>1. /\ Owned' = Owned /\ AtMostOneObject'
        /\ Void \subseteq Void' /\ (FenceAfter(Void') => FenceInv')
    BY <1>1, OwnedStay, ChangeAppears, VoidStays DEF ObjectsInv
  <2>2. /\ TypeOK' /\ FenceInv' /\ CurrentInv' /\ UserMove(m)
        /\ \A l \in MR : l # m => mr'[l] = mr[l]
    BY <1>1, <2>1, UserStepFenced, UserStepCurrent DEF ObjectsInv, TypeOK, FenceInv
  <2>3. ObjectsInv'
    BY <2>1, <2>2 DEF ObjectsInv
  <2>4. CASE mr'[m].phase = mr[m].phase
    BY <2>1, <2>2, <2>3, <2>4, PhasesStay, PromiseActions
  <2>5. CASE mr[m].phase = "live" /\ mr'[m].phase \in {"deleting", "gone"}
    <3>1. Phases' = [Phases EXCEPT ![m] = mr'[m].phase] /\ Phases[m] = "live"
      BY <2>2, <2>5, PhasesBut DEF Phases
    <3>2. QED
      BY <2>1, <2>3, <2>5, <3>1, PromiseActions
  <2>6. QED
    BY <2>2, <2>4, <2>5 DEF UserMove
<1>2. ASSUME NEW k \in Id, Tamper(k) \/ Vanish(k, "deleted")
      PROVE  ObjectsInv' /\ Keeps
  <2>1. TypeOK' /\ FenceInv' /\ CurrentInv' /\ mr' = mr /\ Changes(k)
    BY <1>2, ObjectStepFenced DEF ObjectsInv
  <2>2. Phases' = Phases
    BY <2>1, PhasesStay
  <2>3. QED
    BY <2>1, <2>2, ChangeKeeps DEF ObjectsInv
<1>3. QED
  BY <1>1, <1>2 DEF WorldStep, UserStep

\* The initial states are initial states of OneObject.
LEMMA InitKeeps == Init => Promise!Init
<1> SUFFICES ASSUME Init PROVE Promise!Init
  OBVIOUS
<1>1. AtMostOneObject
  BY InitInv DEF ObjectsInv
<1>2. \A m \in MR : mr[m].phase = "live" /\ ObjectsOf(m) \subseteq Id
  BY DEF Init, RuntimeInit, Fresh, ObjectsOf
<1>3. QED
  BY <1>1, <1>2 DEF Promise!Init, Promise!AtMostOne, AtMostOneObject
=============================================================================
