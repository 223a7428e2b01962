-------------------------- MODULE NbSetupKeyProofs --------------------------
(***************************************************************************)
(* Proofs about NbSetupKey for any number of resources, replicas and keys. *)
(***************************************************************************)
EXTENDS NbSetupKey, ManagedReconcilerProofs
-----------------------------------------------------------------------------
(* Type correctness *)

\* An adopting worker stays within Work.
LEMMA AdoptedType ==
  ASSUME NEW w \in Work, NEW k \in Id
  PROVE  Adopted(w, k) \in Work
BY DEF Adopted, Work, Object, PC, ExtName, StatusId

\* Looking a worker's object up gives an identifier of NetBird or a hint.
LEMMA LookupType ==
  ASSUME NEW cr \in Object
  PROVE  /\ Lookup(cr) \in ExtName
         /\ IsId(Lookup(cr)) => Lookup(cr) \in Id
         /\ cr.ext \in Id => Lookup(cr) = cr.ext
BY IdentityAssumption DEF Lookup, IsId, Hints, ExtName, StatusId, Object

\* Deleting key j.
Removes(j) == Listed(j) /\ keys' = [keys EXCEPT ![j].state = "deleted"]

\* An observation is made, or adoption by name is still to be tried.
Observes(m, r) ==
  LET w == work[m][r]
      v == work'[m][r]
  IN
  /\ w.pc \in {"observe", "list"}
  /\ mr' = mr /\ keys' = keys
  /\ v.cr.phase = w.cr.phase /\ (v.cr.fin <=> w.cr.fin) /\ (v.stale <=> w.stale)
  /\ \/ v.pc = "list" /\ v.obs = w.obs
     \/ v.pc = "act" /\ v.obs = "uptodate"
     \/ v.pc = "act" /\ v.obs = "missing" /\ NoValidKey(m)
     \/ /\ v.pc = "act" /\ v.obs = "outdated"
        /\ v.cr.ext \in Id /\ keys[v.cr.ext].state = "dead"

\* A key is minted, heard of or not.
Mints(m, r) ==
  LET w == work[m][r]
      v == work'[m][r]
  IN
  /\ w.pc = "create" /\ v.pc = "annotate"
  /\ mr' = mr
  /\ v.obs = w.obs /\ v.cr.phase = w.cr.phase
  /\ v.cr.create # "pending"
  /\ \E j \in Id :
       /\ keys[j].state = "unborn"
       /\ keys' = [keys EXCEPT ![j] = [state |-> "valid", name |-> NameOf[m]]]
       /\ v.cr.create = "succeeded" => v.cr.ext = j

\* Only the status write is left, or not even that; at most one key is deleted.
Finishes(m, r) ==
  LET v == work'[m][r] IN
  /\ v.pc \in {"idle", "status"} /\ v.obs = "none" /\ v.cr.phase = "live"
  /\ mr'[m].create = mr[m].create
  /\ keys' = keys \/ \E j \in Id : Removes(j)

HandlerMove(m, r) == Observes(m, r) \/ Mints(m, r) \/ Finishes(m, r)

\* What the handlers do keeps the types and the frame, and is one of these
\* moves.
LEMMA HandlerStepEffect ==
  ASSUME TypeOK, NEW m \in MR, NEW r \in Replica, HandlerStep(m, r)
  PROVE  TypeOK' /\ Framed(m, r) /\ HandlerMove(m, r)
<1> DEFINE w == work[m][r]
           v == work'[m][r]
           k == Lookup(w.cr)
<1>1. RuntimeTypeOK /\ w \in Work /\ mr[m] \in Object /\ w.cr \in Object
  BY DEF TypeOK, RuntimeTypeOK, Work
<1>2. ASSUME NEW x \in Work, Go(m, r, x)
      PROVE  RuntimeTypeOK' /\ Framed(m, r) /\ v = x /\ mr' = mr
  BY <1>1, <1>2, GoFramed, GoEffect
<1>3. IsId(k) => k \in Id
  BY <1>1, LookupType
<1>4. UNCHANGED <<keys, secret>> => (keys \in [Id -> Key])' /\ (secret \in [MR -> ExtName])'
  BY DEF TypeOK
<1>5. NameOf[m] \in Name
  BY NamesAssumption
<1>6. ASSUME NEW j \in Id PROVE [keys EXCEPT ![j].state = "deleted"] \in [Id -> Key]
  BY DEF TypeOK, Key
<1>7. ASSUME v = Close(w), mr' = mr, keys' = keys \/ \E j \in Id : Removes(j)
      PROVE  HandlerMove(m, r)
  BY <1>1, <1>7, CloseFields DEF HandlerMove, Finishes
<1>a. CASE ObserveValid(m, r)
  <2> DEFINE x == [w EXCEPT !.pc = "act", !.obs = "uptodate", !.cr.ext = k, !.cr.sid = k]
  <2>1. IsId(k) => /\ x \in Work /\ x.pc = "act" /\ x.obs = "uptodate"
                   /\ x.cr.phase = w.cr.phase /\ (x.cr.fin <=> w.cr.fin)
                   /\ (x.stale <=> w.stale)
    BY <1>1, <1>3 DEF Work, PC, Object, ExtName, StatusId
  <2>2. RuntimeTypeOK' /\ Framed(m, r) /\ v = x /\ mr' = mr
    BY <1>a, <1>2, <2>1 DEF ObserveValid
  <2>3. QED
    BY <1>a, <1>4, <2>1, <2>2 DEF ObserveValid, TypeOK, HandlerMove, Observes
<1>b. CASE ObserveDead(m, r)
  <2> DEFINE x == [w EXCEPT !.pc = "act", !.obs = "outdated", !.cr.ext = k]
  <2>1. IsId(k) => /\ x \in Work /\ x.pc = "act" /\ x.obs = "outdated" /\ x.cr.ext = k
                   /\ x.cr.phase = w.cr.phase /\ (x.cr.fin <=> w.cr.fin)
                   /\ (x.stale <=> w.stale)
    BY <1>1, <1>3 DEF Work, PC, Object, ExtName
  <2>2. RuntimeTypeOK' /\ Framed(m, r) /\ v = x /\ mr' = mr
    BY <1>b, <1>2, <2>1 DEF ObserveDead
  <2>3. k \in Id /\ keys[k].state = "dead"
    BY <1>b, <1>3 DEF ObserveDead, Listed, Valid
  <2>4. QED
    BY <1>b, <1>4, <2>1, <2>2, <2>3 DEF ObserveDead, TypeOK, HandlerMove, Observes
<1>c. CASE ObserveNotFound(m, r)
  <2> DEFINE x == [w EXCEPT !.pc = "list"]
  <2>1. /\ x \in Work /\ x.pc = "list" /\ x.obs = w.obs
        /\ x.cr = w.cr /\ (x.stale <=> w.stale)
    BY <1>1 DEF Work, PC
  <2>2. RuntimeTypeOK' /\ Framed(m, r) /\ v = x /\ mr' = mr
    BY <1>c, <1>2, <2>1 DEF ObserveNotFound
  <2>3. QED
    BY <1>c, <1>4, <2>1, <2>2 DEF ObserveNotFound, TypeOK, HandlerMove, Observes
<1>d. CASE Adopt(m, r)
  <2>1. PICK j \in Id : Go(m, r, Adopted(w, j))
    BY <1>d DEF Adopt
  <2>2. Adopted(w, j) \in Work
    BY <1>1, AdoptedType
  <2>3. /\ Adopted(w, j).pc = "act" /\ Adopted(w, j).obs = "uptodate"
        /\ Adopted(w, j).cr.phase = w.cr.phase /\ (Adopted(w, j).cr.fin <=> w.cr.fin)
        /\ (Adopted(w, j).stale <=> w.stale)
    BY <1>1 DEF Adopted, Work, Object
  <2>4. RuntimeTypeOK' /\ Framed(m, r) /\ v = Adopted(w, j) /\ mr' = mr
    BY <1>2, <2>1, <2>2
  <2>5. QED
    BY <1>d, <1>4, <2>3, <2>4 DEF Adopt, Listing, TypeOK, HandlerMove, Observes
<1>e. CASE ObserveMissing(m, r)
  <2> DEFINE x == [w EXCEPT !.pc = "act", !.obs = "missing"]
  <2>1. /\ x \in Work /\ x.pc = "act" /\ x.obs = "missing"
        /\ x.cr = w.cr /\ (x.stale <=> w.stale)
    BY <1>1 DEF Work, PC
  <2>2. RuntimeTypeOK' /\ Framed(m, r) /\ v = x /\ mr' = mr
    BY <1>e, <1>2, <2>1 DEF ObserveMissing
  <2>3. QED
    BY <1>e, <1>4, <2>1, <2>2
    DEF ObserveMissing, Listing, TypeOK, HandlerMove, Observes, NoValidKey
<1>f. ASSUME NEW heard \in BOOLEAN, Create(m, r, heard)
      PROVE  TypeOK' /\ Framed(m, r) /\ HandlerMove(m, r)
  <2>1. PICK j \in Id :
          /\ keys[j].state = "unborn"
          /\ keys' = [keys EXCEPT ![j] = [state |-> "valid", name |-> NameOf[m]]]
          /\ Go(m, r, IF heard
                        THEN [w EXCEPT !.pc = "annotate", !.cr.ext = j,
                                       !.cr.create = "succeeded"]
                        ELSE [w EXCEPT !.pc = "annotate", !.cr.create = "failed"])
          /\ secret' = secret /\ w.pc = "create"
    BY <1>f DEF Create
  <2> DEFINE x == [w EXCEPT !.pc = "annotate", !.cr.ext = j, !.cr.create = "succeeded"]
             y == [w EXCEPT !.pc = "annotate", !.cr.create = "failed"]
  <2>2. /\ x \in Work /\ x.pc = "annotate" /\ x.obs = w.obs
        /\ x.cr.phase = w.cr.phase /\ x.cr.create = "succeeded" /\ x.cr.ext = j
        /\ y \in Work /\ y.pc = "annotate" /\ y.obs = w.obs
        /\ y.cr.phase = w.cr.phase /\ y.cr.create = "failed"
    BY <1>1 DEF Work, PC, Object, ExtName
  <2>3. RuntimeTypeOK' /\ Framed(m, r) /\ (v = x \/ v = y) /\ mr' = mr
    BY <1>2, <2>1, <2>2
  <2>4. keys' \in [Id -> Key]
    BY <1>5, <2>1 DEF TypeOK, Key
  <2>5. QED
    BY <2>1, <2>2, <2>3, <2>4 DEF TypeOK, HandlerMove, Mints
<1>g. ASSUME NEW heard \in BOOLEAN, Update(m, r, heard)
      PROVE  TypeOK' /\ Framed(m, r) /\ HandlerMove(m, r)
  <2> DEFINE x == IF heard THEN [w EXCEPT !.cr.ext = NoId, !.cr.sid = NoId] ELSE w
  <2>1. x \in Work
    <3>1. [w EXCEPT !.cr.ext = NoId, !.cr.sid = NoId] \in Work
      BY <1>1 DEF Work, Object, ExtName, StatusId, Hints
    <3>2. QED
      BY <1>1, <3>1
  <2>2. RuntimeTypeOK' /\ Framed(m, r) /\ v = Close(x) /\ mr' = mr
    BY <1>g, <1>2, <2>1, WorkTypes DEF Update
  <2>3. k \in Id /\ Removes(k) /\ keys' \in [Id -> Key]
    BY <1>g, <1>3, <1>6 DEF Update, Removes
  <2>4. HandlerMove(m, r)
    BY <1>1, <2>1, <2>2, <2>3, CloseFields DEF HandlerMove, Finishes
  <2>5. QED
    BY <1>g, <2>2, <2>3, <2>4 DEF Update, TypeOK
<1>h. CASE Publish(m, r)
  <2>1. /\ RuntimeTypeOK' /\ Framed(m, r) /\ v = Close(w) /\ mr' = mr
        /\ secret' = [secret EXCEPT ![m] = w.cr.ext] /\ keys' = keys
    BY <1>h, <1>1, <1>2, WorkTypes DEF Publish
  <2>2. QED
    BY <1>1, <1>7, <2>1 DEF TypeOK, Object
<1>i. CASE Delete(m, r)
  <2>1. RuntimeTypeOK' /\ Framed(m, r) /\ v = Close(w) /\ mr' = mr
    BY <1>i, <1>1, <1>2, WorkTypes DEF Delete
  <2>2. k \in Id /\ Removes(k) /\ keys' \in [Id -> Key]
    BY <1>i, <1>3, <1>6 DEF Delete, Removes
  <2>3. QED
    BY <1>i, <1>7, <2>1, <2>2 DEF Delete, TypeOK
<1>j. CASE Dispose(m, r)
  <2> DEFINE o == [mr[m] EXCEPT !.phase = "gone", !.fin = FALSE]
  <2>1. o \in Object /\ o.phase = "gone" /\ o.create = mr[m].create
    BY <1>1 DEF Object
  <2>2. RuntimeTypeOK' /\ Framed(m, r) /\ v = Idle /\ mr' = [mr EXCEPT ![m] = o]
    <3>1. Commit(m, r, o, Idle)
      BY <1>j DEF Dispose, Release
    <3>2. RuntimeTypeOK' /\ Framed(m, r)
      BY <1>1, <2>1, <3>1, CommitFramed, WorkTypes
    <3>3. QED
      BY <1>1, <2>1, <3>1, <3>2, CommitEffect, WorkTypes
  <2>3. mr'[m].create = mr[m].create
    BY <2>1, <2>2 DEF TypeOK, RuntimeTypeOK
  <2>4. (secret \in [MR -> ExtName])' /\ keys' = keys
    BY <1>j DEF Dispose, TypeOK, ExtName, Hints
  <2>5. QED
    BY <1>1, <2>2, <2>3, <2>4, CloseFields DEF TypeOK, HandlerMove, Finishes
<1>k. CASE UnpublishOnly(m, r)
  <2>1. (secret \in [MR -> ExtName])' /\ keys' = keys
    BY <1>k DEF UnpublishOnly, TypeOK, ExtName, Hints
  <2>2. RuntimeTypeOK' /\ Framed(m, r) /\ v = Close(w) /\ mr' = mr
    BY <1>k, <1>1, <1>2, WorkTypes DEF UnpublishOnly, StepFails
  <2>3. QED
    BY <1>7, <2>1, <2>2 DEF TypeOK
<1>l. QED
  BY <1>a, <1>b, <1>c, <1>d, <1>e, <1>f, <1>g, <1>h, <1>i, <1>j, <1>k DEF HandlerStep

\* Users, operators and the clock keep the types as well.
LEMMA WorldStepType ==
  ASSUME TypeOK,
         \/ \E m \in MR : UserDeletes(m)
         \/ \E m \in MR : ClearPending(m) /\ UNCHANGED <<keys, secret>>
         \/ \E k \in Id : Die(k) \/ Vanish(k)
  PROVE  TypeOK'
<1>1. ASSUME NEW m \in MR, NEW o \in Object, Edit(m, o) PROVE RuntimeTypeOK'
  <2>1. mr' = [mr EXCEPT ![m] = o] /\ cache' = cache /\ work' \in [MR -> [Replica -> Work]]
    BY <1>1, EditEffect DEF TypeOK
  <2>2. QED
    BY <2>1 DEF TypeOK, RuntimeTypeOK
<1>2. ASSUME NEW m \in MR PROVE mr[m] \in Object
  BY DEF TypeOK, RuntimeTypeOK
<1>3. ASSUME NEW m \in MR, UserDeletes(m) PROVE TypeOK'
  <2>1. [mr[m] EXCEPT !.phase = IF mr[m].fin THEN "deleting" ELSE "gone"] \in Object
    BY <1>2 DEF Object
  <2>2. RuntimeTypeOK'
    BY <1>1, <1>3, <2>1 DEF UserDeletes, RequestDelete
  <2>3. (keys \in [Id -> Key])' /\ (secret \in [MR -> ExtName])'
    BY <1>3 DEF UserDeletes, TypeOK, ExtName, Hints
  <2>4. QED
    BY <2>2, <2>3 DEF TypeOK
<1>4. ASSUME NEW m \in MR, ClearPending(m), UNCHANGED <<keys, secret>> PROVE TypeOK'
  <2>1. [mr[m] EXCEPT !.create = "never"] \in Object
    BY <1>2 DEF Object
  <2>2. QED
    BY <1>1, <1>4, <2>1 DEF ClearPending, TypeOK
<1>5. ASSUME NEW k \in Id, Die(k) \/ Vanish(k) PROVE TypeOK'
  <2>1. keys' \in [Id -> Key]
    BY <1>5 DEF Die, Vanish, TypeOK, Key
  <2>2. QED
    BY <1>5, <2>1 DEF Die, Vanish, runtimeVars, TypeOK, RuntimeTypeOK
<1>6. QED
  BY <1>3, <1>4, <1>5

\* The declared types hold in every reachable state.
THEOREM TypeCorrect == Spec => []TypeOK
<1>1. Init => TypeOK
  <2> SUFFICES ASSUME Init PROVE TypeOK
    OBVIOUS
  <2>1. PICK born \in SUBSET Imported, n \in Name :
          /\ RuntimeInit(born)
          /\ keys = [k \in Id |->
                      [state |-> IF k \in born THEN "valid" ELSE "unborn", name |-> n]]
    BY DEF Init
  <2>2. RuntimeTypeOK
    BY <2>1, NamesAssumption, RuntimeInitTypes
  <2>3. keys \in [Id -> Key] /\ secret \in [MR -> ExtName]
    BY <2>1 DEF Init, Key, ExtName, Hints
  <2>4. QED
    BY <2>2, <2>3 DEF TypeOK
<1>2. TypeOK /\ [Next]_vars => TypeOK'
  <2> SUFFICES ASSUME TypeOK, [Next]_vars PROVE TypeOK'
    OBVIOUS
  <2>1. ASSUME NEW m \in MR, NEW r \in Replica, RuntimeStep(m, r), UNCHANGED <<keys, secret>>
        PROVE  TypeOK'
    BY <2>1, RuntimeStepEffect DEF TypeOK
  <2>2. ASSUME NEW m \in MR, NEW r \in Replica, HandlerStep(m, r) PROVE TypeOK'
    BY <2>2, HandlerStepEffect
  <2>3. CASE UNCHANGED vars
    BY <2>3 DEF vars, runtimeVars, TypeOK, RuntimeTypeOK
  <2>4. QED
    BY <2>1, <2>2, <2>3, WorldStepType DEF Next
<1>3. QED
  BY <1>1, <1>2, PTL DEF Spec

-----------------------------------------------------------------------------
(* A rotation hits only keys that can no longer be used *)

\* DeletionIsReal and OutdatedIsDead, for worker state v of m.
Grounded(m, v) ==
  /\ v.cr.phase # "live" => mr[m].phase # "live"
  /\ v.pc = "update" => v.obs = "outdated"
  /\ v.obs = "outdated" =>
       /\ v.pc \in {"act", "update"}
       /\ v.cr.ext \in Id /\ keys[v.cr.ext].state \in {"dead", "deleted"}

GroundInv ==
  /\ \A m \in MR, r \in Replica : cache[m][r].phase # "live" => mr[m].phase # "live"
  /\ \A m \in MR, r \in Replica : Grounded(m, work[m][r])

LEMMA GroundInvIs == GroundInv <=> DeletionIsReal /\ OutdatedIsDead
BY DEF GroundInv, Grounded, DeletionIsReal, OutdatedIsDead

\* No step brings a dead or deleted key back.
DeathIsFinal ==
  \A k \in Id : keys[k].state \in {"dead", "deleted"} => keys'[k].state \in {"dead", "deleted"}

\* It is enough to look at the worker that moves.
LEMMA GroundedByOne ==
  ASSUME TypeOK, GroundInv, DeathIsFinal, NEW m \in MR, NEW r, Framed(m, r),
         r \in Replica => Grounded(m, work[m][r])'
  PROVE  GroundInv'
<1>1. ASSUME NEW l \in MR, NEW s \in Replica
      PROVE  cache'[l][s].phase # "live" => mr'[l].phase # "live"
  BY DEF Framed, GroundInv
<1>2. ASSUME NEW l \in MR, NEW s \in Replica, l # m \/ s # r
      PROVE  Grounded(l, work[l][s])'
  BY <1>2 DEF Framed, Overtaken, GroundInv, Grounded, DeathIsFinal
<1>3. QED
  BY <1>1, <1>2 DEF GroundInv

LEMMA RuntimeStepGrounded ==
  ASSUME TypeOK, GroundInv, NEW m \in MR, NEW r \in Replica, RuntimeStep(m, r), keys' = keys
  PROVE  GroundInv'
<1>1. Framed(m, r) /\ RuntimeMove(m, r)
  BY RuntimeStepEffect DEF TypeOK
<1>2. DeathIsFinal
  BY DEF DeathIsFinal
<1>3. Grounded(m, work[m][r]) /\ (cache[m][r].phase # "live" => mr[m].phase # "live")
  BY DEF GroundInv
<1>4. Grounded(m, work[m][r])'
  BY <1>1, <1>3 DEF Framed, RuntimeMove, Ends, Starts, Advances, Creates, Grounded
<1>5. QED
  BY <1>1, <1>2, <1>4, GroundedByOne

LEMMA HandlerStepGrounded ==
  ASSUME TypeOK, GroundInv, NEW m \in MR, NEW r \in Replica, HandlerStep(m, r)
  PROVE  GroundInv'
<1>1. Framed(m, r) /\ HandlerMove(m, r)
  BY HandlerStepEffect
<1>2. DeathIsFinal
  BY <1>1 DEF HandlerMove, Observes, Mints, Finishes, Removes, DeathIsFinal, TypeOK, Key
<1>3. Grounded(m, work[m][r])
  BY DEF GroundInv
<1>4. Grounded(m, work[m][r])'
  BY <1>1, <1>3 DEF Framed, HandlerMove, Observes, Mints, Finishes, Grounded
<1>5. QED
  BY <1>1, <1>2, <1>4, GroundedByOne

\* Users, operators and the clock, as a step of no worker at all.
LEMMA WorldStepFramed ==
  ASSUME TypeOK, NEW m \in MR, NEW r, r \notin Replica,
         \/ UserDeletes(m)
         \/ ClearPending(m)
  PROVE  Framed(m, r)
<1>1. RuntimeTypeOK /\ mr[m] \in Object
  BY DEF TypeOK, RuntimeTypeOK
<1>2. CASE UserDeletes(m)
  <2> DEFINE o == [mr[m] EXCEPT !.phase = IF mr[m].fin THEN "deleting" ELSE "gone"]
  <2>1. o \in Object /\ o.phase # "live"
    BY <1>1 DEF Object
  <2>2. Edit(m, o)
    BY <1>2 DEF UserDeletes, RequestDelete
  <2>3. QED
    BY <1>1, <2>1, <2>2, EditFramed
<1>3. CASE ClearPending(m)
  <2>1. /\ [mr[m] EXCEPT !.create = "never"] \in Object
        /\ [mr[m] EXCEPT !.create = "never"].phase = mr[m].phase
    BY <1>1 DEF Object
  <2>2. QED
    BY <1>1, <1>3, <2>1, EditFramed DEF ClearPending
<1>4. QED
  BY <1>2, <1>3

LEMMA WorldStepGrounded ==
  ASSUME TypeOK, GroundInv,
         \/ \E m \in MR : UserDeletes(m)
         \/ \E m \in MR : ClearPending(m) /\ UNCHANGED <<keys, secret>>
         \/ \E k \in Id : Die(k) \/ Vanish(k)
  PROVE  GroundInv'
<1>1. PICK r : r \notin Replica
  BY NoSetContainsEverything
<1>2. ASSUME NEW m \in MR, Framed(m, r), keys' = keys PROVE GroundInv'
  BY <1>1, <1>2, GroundedByOne DEF DeathIsFinal
<1>3. ASSUME NEW k \in Id, Die(k) \/ Vanish(k) PROVE GroundInv'
  <2>1. DeathIsFinal /\ mr' = mr /\ cache' = cache /\ work' = work
    BY <1>3 DEF Die, Vanish, runtimeVars, DeathIsFinal, TypeOK, Key
  <2>2. QED
    BY <2>1 DEF GroundInv, Grounded, DeathIsFinal
<1>4. QED
  BY <1>1, <1>2, <1>3, WorldStepFramed DEF UserDeletes

\* A worker about to rotate holds a dead key, and a worker that sees a deletion
\* sees a real one.
THEOREM RotationIsGrounded == Spec => [](DeletionIsReal /\ OutdatedIsDead)
<1>1. Init => GroundInv
  BY DEF Init, RuntimeInit, Idle, Fresh, GroundInv, Grounded
<1>2. TypeOK /\ GroundInv /\ [Next]_vars => GroundInv'
  <2> SUFFICES ASSUME TypeOK, GroundInv, [Next]_vars PROVE GroundInv'
    OBVIOUS
  <2>1. CASE UNCHANGED vars
    BY <2>1 DEF vars, runtimeVars, GroundInv, Grounded
  <2>2. QED
    BY <2>1, RuntimeStepGrounded, HandlerStepGrounded, WorldStepGrounded DEF Next
<1>3. QED
  BY <1>1, <1>2, TypeCorrect, GroundInvIs, PTL DEF Spec

\* Whatever the resources, replicas and names, and whatever is lost on the way,
\* a handler never destroys a usable key of a resource nobody deleted.
THEOREM RotationIsSafe == Spec => ValidKeyDiesOnlyWithItsResource
<1> DEFINE Step == \A m \in MR, r \in Replica :
                     work'[m][r] # work[m][r] /\ mr[m].phase = "live"
                       => \A k \in Id : Valid(k) => keys'[k].state # "deleted"
<1>1. TypeOK /\ GroundInv /\ [Next]_vars => Step
  <2> SUFFICES ASSUME TypeOK, GroundInv, [Next]_vars PROVE Step
    OBVIOUS
  <2>1. CASE keys' = keys \/ work' = work
    BY <2>1 DEF Valid
  <2>2. ASSUME NEW m \in MR, NEW r \in Replica, HandlerStep(m, r), keys' # keys
        PROVE  Step
    <3> DEFINE w == work[m][r]
               k == Lookup(w.cr)
    <3>1. w \in Work /\ RuntimeTypeOK /\ Grounded(m, w)
      BY DEF TypeOK, RuntimeTypeOK, GroundInv
    <3>2. ASSUME NEW heard \in BOOLEAN, Create(m, r, heard) PROVE Step
      BY <3>2 DEF Create, Valid, TypeOK, Key
    <3>3. ASSUME NEW heard \in BOOLEAN, Update(m, r, heard) PROVE Step
      <4>1. keys' = [keys EXCEPT ![k].state = "deleted"]
        BY <3>3 DEF Update
      <4>2. k = w.cr.ext /\ ~Valid(k)
        BY <3>1, <3>3, IdentityAssumption DEF Update, Grounded, Lookup, Valid
      <4>3. QED
        BY <4>1, <4>2 DEF Valid, TypeOK, Key
    <3>4. CASE Delete(m, r)
      <4>1. mr[m].phase # "live"
        BY <3>1, <3>4 DEF Delete, Grounded
      <4>2. Close(w) \in Work /\ Go(m, r, Close(w))
        BY <3>1, <3>4, WorkTypes DEF Delete
      <4>3. \A l \in MR, s \in Replica : l # m \/ s # r => work'[l][s] = work[l][s]
        BY <3>1, <4>2, GoEffect
      <4>4. QED
        BY <4>1, <4>3
    <3>5. QED
      BY <2>2, <3>2, <3>3, <3>4
      DEF HandlerStep, ObserveValid, ObserveDead, ObserveNotFound, Adopt, ObserveMissing,
          Publish, Dispose, UnpublishOnly
  <2>3. ASSUME NEW k \in Id, Die(k) \/ Vanish(k) PROVE work' = work
    BY <2>3 DEF Die, Vanish, runtimeVars
  <2>4. QED
    BY <2>1, <2>2, <2>3 DEF Next, UserDeletes, vars
<1>2. Spec => [][Step]_vars
  BY <1>1, TypeCorrect, RotationIsGrounded, GroundInvIs, PTL DEF Spec
<1>3. QED
  BY <1>2 DEF ValidKeyDiesOnlyWithItsResource

-----------------------------------------------------------------------------
(* A pending annotation fences off every other create of its resource *)

\* The resources that have no valid key.
Void == {m \in MR : NoValidKey(m)}

FenceInv == Fence(Void)

LEMMA FenceInvIs == FenceInv <=> MissingIsMissing /\ PendingFences
BY DEF FenceInv, Void, Fence, Fenced, Sole, Early, Minting, MissingIsMissing, PendingFences

\* No valid key of l appears.
NoneAppears(l) == NoValidKey(l) => NoValidKey(l)'

\* Nothing but a create makes one appear, and only for resources of its name.
LEMMA KeyMoves ==
  ASSUME TypeOK, keys' = keys \/ \E j \in Id : Removes(j), NEW l \in MR
  PROVE  NoneAppears(l)
BY DEF Removes, NoneAppears, NoValidKey, Valid, Named, TypeOK, Key

LEMMA MintMoves ==
  ASSUME TypeOK, DistinctNames, NEW m \in MR, NEW r \in Replica, Mints(m, r),
         NEW l \in MR, l # m
  PROVE  NoneAppears(l)
BY DEF Mints, NoneAppears, NoValidKey, Valid, Named, TypeOK, Key, DistinctNames

\* Resources have no key after a step that have none before it.
LEMMA VoidStays ==
  ASSUME \A l \in MR : NoneAppears(l)
  PROVE  Void \subseteq Void' /\ (FenceAfter(Void') => FenceInv')
BY DEF NoneAppears, Void, FenceInv, Fence, FenceAfter

LEMMA HandlerStepFenced ==
  ASSUME TypeOK, DistinctNames, FenceInv, NEW m \in MR, NEW r \in Replica, HandlerStep(m, r)
  PROVE  FenceInv'
<1>1. Framed(m, r) /\ HandlerMove(m, r)
  BY HandlerStepEffect
<1>2. FenceAfter(Void') => FenceInv'
  BY DEF Void, FenceInv, Fence, FenceAfter
<1>3. CASE Mints(m, r)
  <2>1. Makes(m, r)
    BY <1>3 DEF Mints, Makes
  <2>2. Void \ Void' \subseteq {m}
    BY <1>3, MintMoves DEF NoneAppears, Void
  <2>3. QED
    BY <1>1, <1>2, <2>1, <2>2, MakingFenced DEF FenceInv
<1>4. CASE Observes(m, r) \/ Finishes(m, r)
  <2>1. Void \subseteq Void' /\ (NoValidKey(m) => m \in Void')
    <3>1. \A l \in MR : NoneAppears(l)
      BY <1>4, KeyMoves DEF Observes, Finishes
    <3>2. QED
      BY <3>1, VoidStays DEF NoneAppears, Void
  <2>2. /\ mr'[m].create = mr[m].create
        /\ work'[m][r].pc \in Minting => work[m][r].pc \in Minting
    BY <1>4 DEF Observes, Finishes, Minting
  <2>3. Fenced(mr'[m], work'[m][r], m \in Void')
    <3>1. Fenced(mr[m], work[m][r], m \in Void)
      BY DEF FenceInv, Fence
    <3>2. QED
      BY <1>4, <2>1, <3>1 DEF Observes, Finishes, Fenced, Early, Minting
  <2>4. QED
    BY <1>1, <1>2, <2>1, <2>2, <2>3, QuietStepFenced DEF FenceInv
<1>5. QED
  BY <1>1, <1>3, <1>4 DEF HandlerMove

LEMMA WorldStepFenced ==
  ASSUME TypeOK, FenceInv,
         \/ \E m \in MR : UserDeletes(m)
         \/ \E m \in MR : ClearPending(m) /\ UNCHANGED <<keys, secret>>
         \/ \E k \in Id : Die(k) \/ Vanish(k)
  PROVE  FenceInv'
<1>1. ASSUME NEW m \in MR, RequestDelete(m) \/ ClearPending(m), keys' = keys
      PROVE  FenceInv'
  <2>1. Void \subseteq Void' /\ (FenceAfter(Void') => FenceInv')
    BY <1>1, KeyMoves, VoidStays
  <2>2. QED
    BY <1>1, <2>1, UserStepFenced DEF TypeOK, FenceInv
<1>2. ASSUME NEW k \in Id, Die(k) \/ Vanish(k) PROVE FenceInv'
  <2>1. mr' = mr /\ work' = work /\ \A l \in MR : NoneAppears(l)
    BY <1>2 DEF Die, Vanish, runtimeVars, NoneAppears, NoValidKey, Valid, Named, TypeOK, Key
  <2>2. QED
    BY <2>1, VoidStays, WorldFenced DEF FenceInv
<1>3. QED
  BY <1>1, <1>2 DEF UserDeletes

\* When no two resources share a key name, at most one worker of a resource is
\* creating at a time, and it creates only if no valid key is there.
THEOREM PendingIsAFence ==
  ASSUME DistinctNames
  PROVE  Spec => [](MissingIsMissing /\ PendingFences)
<1>1. Init => FenceInv
  BY DEF Init, RuntimeInit, Idle, Fresh, FenceInv, Fence, Sole, Fenced, Early, Minting
<1>2. TypeOK /\ FenceInv /\ [Next]_vars => FenceInv'
  <2> SUFFICES ASSUME TypeOK, FenceInv, [Next]_vars PROVE FenceInv'
    OBVIOUS
  <2>1. CASE UNCHANGED vars
    BY <2>1 DEF vars, runtimeVars, FenceInv, Void, Fence, Sole, Fenced, NoValidKey, Valid,
                Named
  <2>2. ASSUME NEW m \in MR, NEW r \in Replica, RuntimeStep(m, r), UNCHANGED <<keys, secret>>
        PROVE  FenceInv'
    <3>1. Void \subseteq Void' /\ (FenceAfter(Void') => FenceInv')
      BY <2>2, KeyMoves, VoidStays
    <3>2. QED
      BY <2>2, <3>1, RuntimeStepFenced DEF TypeOK, FenceInv
  <2>3. QED
    BY <2>1, <2>2, HandlerStepFenced, WorldStepFenced DEF Next
<1>3. QED
  BY <1>1, <1>2, FenceInvIs, TypeCorrect, PTL DEF Spec

\* One valid key per resource, in every reachable state: no crash, lost reply,
\* lagging cache or second replica makes the controller mint another.
THEOREM OneValidKey ==
  ASSUME DistinctNames
  PROVE  Spec => []AtMostOneValidKey
<1>1. Init => AtMostOneValidKey
  BY DEF Init, AtMostOneValidKey, Valid
<1>2. TypeOK /\ MissingIsMissing /\ AtMostOneValidKey /\ [Next]_vars => AtMostOneValidKey'
  <2> SUFFICES ASSUME TypeOK, MissingIsMissing, AtMostOneValidKey, [Next]_vars PROVE AtMostOneValidKey'
    OBVIOUS
  <2>1. CASE keys' = keys \/ \E k \in Id : Removes(k)
    BY <2>1 DEF Removes, AtMostOneValidKey, Valid, Named, TypeOK, Key
  <2>2. ASSUME NEW m \in MR, NEW r \in Replica, HandlerStep(m, r) PROVE AtMostOneValidKey'
    <3>1. HandlerMove(m, r)
      BY <2>2, HandlerStepEffect
    <3>2. CASE Mints(m, r)
      <4>1. NoValidKey(m)
        BY <3>2 DEF Mints, MissingIsMissing
      <4>2. QED
        BY <3>2, <4>1 DEF Mints, NoValidKey, AtMostOneValidKey, Valid, Named, TypeOK, Key
    <3>3. QED
      BY <2>1, <3>1, <3>2 DEF HandlerMove, Observes, Finishes
  <2>3. ASSUME NEW k \in Id, Die(k) \/ Vanish(k) PROVE AtMostOneValidKey'
    BY <2>3 DEF Die, Vanish, AtMostOneValidKey, Valid, Named, TypeOK, Key
  <2>4. QED
    BY <2>1, <2>2, <2>3 DEF Next, UserDeletes, vars
<1>3. QED
  BY <1>1, <1>2, TypeCorrect, PendingIsAFence, PTL DEF Spec

-----------------------------------------------------------------------------
(* What a worker knows of its object when it acts *)

LEMMA CurrentInvIs == CurrentInv <=> SeenIsCurrent
BY DEF CurrentInv, Current, Watching, Minting, SeenIsCurrent

LEMMA HandlerStepKeeps ==
  ASSUME NEW m \in MR, NEW r \in Replica, HandlerStep(m, r)
  PROVE  mr' = mr \/ Dispose(m, r)
BY DEF HandlerStep, ObserveValid, ObserveDead, ObserveNotFound, Adopt, ObserveMissing,
       Create, Update, Publish, Delete, UnpublishOnly, StepFails, Go

LEMMA KeyStepCurrent ==
  ASSUME TypeOK, MissingIsMissing /\ PendingFences, CurrentInv,
         NEW m \in MR, NEW r \in Replica, HandlerStep(m, r)
  PROVE  CurrentInv'
<1>1. Framed(m, r) /\ HandlerMove(m, r) /\ (mr' = mr \/ Dispose(m, r))
  BY HandlerStepEffect, HandlerStepKeeps
<1>2. CASE mr' = mr
  <2>1. Current(m, work[m][r])
    BY DEF CurrentInv
  <2>2. Current(m, work[m][r])'
    BY <1>1, <1>2, <2>1
    DEF HandlerMove, Observes, Mints, Finishes, Current, Watching, Minting
  <2>3. QED
    BY <1>1, <1>2, <2>2, CurrentByOne DEF TypeOK, StaysGuarded
<1>3. CASE Dispose(m, r)
  <2>1. work[m][r].pc = "act" /\ ~work[m][r].stale
    BY <1>3 DEF Dispose, Release
  <2>2. \A s \in Replica : work[m][s].pc \notin Minting
    BY <2>1 DEF PendingFences, Minting
  <2>3. work'[m][r] = Idle
    BY <1>3 DEF Dispose, Release, Commit, TypeOK, RuntimeTypeOK
  <2>4. Current(m, work[m][r])'
    BY <2>3 DEF Idle, Current, Watching, Minting
  <2>5. QED
    BY <1>1, <2>2, <2>4, CurrentByOne DEF TypeOK
<1>4. QED
  BY <1>1, <1>2, <1>3

LEMMA WorldStepCurrent ==
  ASSUME TypeOK, CurrentInv,
         \/ \E m \in MR : UserDeletes(m)
         \/ \E m \in MR : ClearPending(m) /\ UNCHANGED <<keys, secret>>
         \/ \E k \in Id : Die(k) \/ Vanish(k)
  PROVE  CurrentInv'
<1>1. CASE \E k \in Id : Die(k) \/ Vanish(k)
  BY <1>1 DEF Die, Vanish, runtimeVars, CurrentInv, Current
<1>2. QED
  BY <1>1, UserStepCurrent DEF UserDeletes, TypeOK

\* What a worker saw of its object is current unless its next write must fail.
THEOREM KnowledgeIsCurrent ==
  ASSUME DistinctNames
  PROVE  Spec => []SeenIsCurrent
<1>1. Init => CurrentInv
  BY DEF Init, RuntimeInit, Idle, CurrentInv, Current, Watching, Minting
<1>2. /\ TypeOK /\ MissingIsMissing /\ PendingFences /\ CurrentInv /\ [Next]_vars
      => CurrentInv'
  <2> SUFFICES ASSUME TypeOK, MissingIsMissing /\ PendingFences, CurrentInv, [Next]_vars
               PROVE  CurrentInv'
    OBVIOUS
  <2>1. CASE UNCHANGED vars
    BY <2>1 DEF vars, runtimeVars, CurrentInv, Current
  <2>2. QED
    BY <2>1, RuntimeStepCurrent, KeyStepCurrent, WorldStepCurrent DEF TypeOK, Next
<1>3. QED
  BY <1>1, <1>2, CurrentInvIs, TypeCorrect, PendingIsAFence, PTL DEF Spec

-----------------------------------------------------------------------------
(* The connection secret follows the identity of its resource *)

\* A key that exists keeps its name, and only gets worse.
KeysAge ==
  \A k \in Id : keys[k].state # "unborn" =>
    /\ keys'[k].state # "unborn" /\ keys'[k].name = keys[k].name
    /\ Valid(k)' => Valid(k)

LEMMA MovesAge ==
  ASSUME TypeOK,
         \/ keys' = keys \/ \E j \in Id : Removes(j)
         \/ \E m \in MR, r \in Replica : Mints(m, r)
         \/ \E k \in Id : Die(k) \/ Vanish(k)
  PROVE  KeysAge
<1>1. CASE keys' = keys \/ \E j \in Id : Removes(j)
  BY <1>1 DEF Removes, KeysAge, Valid, TypeOK, Key
<1>2. CASE \E m \in MR, r \in Replica : Mints(m, r)
  BY <1>2 DEF Mints, KeysAge, Valid, TypeOK, Key
<1>3. CASE \E k \in Id : Die(k) \/ Vanish(k)
  BY <1>3 DEF Die, Vanish, KeysAge, Valid, TypeOK, Key
<1>4. QED
  BY <1>1, <1>2, <1>3

\* A step of worker r of m (or, if r is none, of the world) that gives up nothing m
\* has: the finalizer stays until the object is gone, and while there is a valid key
\* of m's the external name stays and r does not set out to mint another.
Preserves(m, r) ==
  /\ mr[m].fin \/ mr[m].phase = "gone" => mr'[m].fin \/ mr'[m].phase = "gone"
  /\ \A k \in Id : Owned(m, k) /\ Valid(k) =>
       /\ mr'[m].ext = mr[m].ext
       /\ r \in Replica => work'[m][r].pc \notin Minting

LEMMA OwnedStays ==
  ASSUME KeysAge, NEW m \in MR, NEW r, Framed(m, r), Preserves(m, r),
         NEW l \in MR, NEW k, Owned(l, k)
  PROVE  Owned(l, k)'
<1>1. Minted(l, k)' /\ k \in Id
  BY DEF Owned, Minted, KeysAge, Named
<1>2. mr'[l].fin \/ mr'[l].phase = "gone"
  BY DEF Owned, Framed, Preserves
<1>3. ASSUME Valid(k)' PROVE mr'[l].ext = k
  BY <1>1, <1>3 DEF Owned, Minted, KeysAge, Framed, Preserves
<1>4. ASSUME Valid(k)', NEW s \in Replica PROVE work'[l][s].pc \notin Minting
  <2>1. Valid(k) /\ work[l][s].pc \notin Minting
    BY <1>1, <1>4 DEF Owned, Minted, KeysAge, Minting
  <2>2. QED
    BY <1>1, <2>1 DEF Framed, Overtaken, Preserves
<1>5. QED
  BY <1>1, <1>2, <1>3, <1>4 DEF Owned, Minting

\* It is enough to look at what the step itself puts into the secret, and at the
\* worker that moves.
LEMMA OwnedByOne ==
  ASSUME SecretIsOwned, KeysAge, NEW m \in MR, NEW r, Framed(m, r), Preserves(m, r),
         \A l \in MR : l # m => secret'[l] = secret[l],
         secret'[m] \in {NoId, secret[m]} \/ Owned(m, secret'[m]),
         r \in Replica => Carries(m, work[m][r])'
  PROVE  SecretIsOwned'
<1>1. ASSUME NEW l \in MR PROVE (secret[l] = NoId \/ Owned(l, secret[l]))'
  <2>1. PICK k : k = secret'[l]
    OBVIOUS
  <2>2. k = NoId \/ Owned(l, k)
    BY <2>1 DEF SecretIsOwned
  <2>3. k = NoId \/ Owned(l, k)'
    BY <2>2, OwnedStays
  <2>4. QED
    BY <2>1, <2>3 DEF Owned, Minted, Valid, Named
<1>2. ASSUME NEW l \in MR, NEW s \in Replica, l # m \/ s # r
      PROVE  Carries(l, work[l][s])'
  <2>1. PICK k : k = work[l][s].cr.ext
    OBVIOUS
  <2>2. Carries(l, work[l][s])
    BY DEF SecretIsOwned
  <2>3. work'[l][s].pc = work[l][s].pc /\ work'[l][s].cr = work[l][s].cr
    BY <1>2 DEF Framed, Overtaken
  <2>4. Owned(l, k) => Owned(l, k)'
    BY OwnedStays
  <2>5. Minted(l, k) => Minted(l, k)'
    BY DEF Minted, KeysAge, Named
  <2>6. QED
    BY <2>1, <2>2, <2>3, <2>4, <2>5 DEF Carries, Owned, Minted, Valid, Named
<1>3. QED
  BY <1>1, <1>2 DEF SecretIsOwned

LEMMA RuntimeStepOwned ==
  ASSUME TypeOK, MissingIsMissing, PendingFences, SeenIsCurrent, SecretIsOwned,
         NEW m \in MR, NEW r \in Replica, RuntimeStep(m, r), UNCHANGED <<keys, secret>>
  PROVE  SecretIsOwned'
<1> DEFINE w == work[m][r]
           v == work'[m][r]
<1>1. /\ Framed(m, r) /\ RuntimeMove(m, r)
      /\ mr'[m].phase = mr[m].phase /\ (mr[m].fin => mr'[m].fin)
  BY RuntimeStepEffect, RuntimeStepKeeps DEF TypeOK
<1>2. KeysAge
  BY MovesAge
<1>3. ASSUME NEW k \in Id, Owned(m, k), Valid(k)
      PROVE  mr'[m].ext = mr[m].ext /\ v.pc \notin Minting
  <2>1. w.pc \notin Minting /\ ~NoValidKey(m)
    BY <1>3 DEF Owned, Minted, NoValidKey, Minting
  <2>2. ~(w.pc = "pend" /\ ~w.stale)
    BY <2>1 DEF MissingIsMissing
  <2>3. ~(w.pc = "act" /\ w.cr.phase = "live" /\ ~w.cr.fin /\ ~w.stale)
    BY <1>3 DEF Owned, SeenIsCurrent
  <2>4. mr'[m].ext = mr[m].ext
    BY <2>1, <2>2, <2>3, RuntimeStepNames DEF Minting, TypeOK
  <2>5. v.pc \notin Minting
    BY <1>1, <2>1, <2>2 DEF RuntimeMove, Ends, Starts, Advances, Creates, Minting
  <2>6. QED
    BY <2>4, <2>5
<1>4. Preserves(m, r)
  BY <1>1, <1>3 DEF Preserves
<1>5. Carries(m, work[m][r])'
  <2>1. PICK k : k = w.cr.ext
    OBVIOUS
  <2>2. Carries(m, w)
    BY DEF SecretIsOwned
  <2>3. /\ Owned(m, k) => Owned(m, k)'
        /\ Minted(m, k) => Minted(m, k)'
    BY <1>1, <1>2, <1>4, OwnedStays DEF Minted, KeysAge, Named
  <2>4. CASE work' = work
    BY <2>1, <2>2, <2>3, <2>4 DEF Carries, Owned, Minted, Valid, Named
  <2>5. CASE w.pc = "annotate" /\ v.pc = "publish"
    <3>1. w.cr.create = "succeeded" /\ mr'[m].ext = k /\ v.cr.ext = k
      BY <1>1, <2>1, <2>5, RuntimeStepNames
      DEF RuntimeMove, Ends, Starts, Advances, Creates, TypeOK
    <3>2. Minted(m, k)'
      BY <2>1, <2>2, <2>3, <2>5, <3>1 DEF Carries
    <3>3. mr'[m].fin
      BY <1>1, <2>5 DEF SeenIsCurrent
    <3>4. \A s \in Replica : work'[m][s].pc \notin Minting
      BY <1>1, <2>5 DEF PendingFences, Framed, Overtaken, Minting
    <3>5. Owned(m, k)'
      BY <3>1, <3>2, <3>3, <3>4 DEF Owned, Minting
    <3>6. QED
      BY <2>5, <3>1, <3>5 DEF Carries, Owned, Minted, Valid, Named
  <2>6. CASE work' # work /\ ~(w.pc = "annotate" /\ v.pc = "publish")
    <3>1. v.pc # "publish" /\ ~(v.pc = "annotate" /\ v.cr.create = "succeeded")
      BY <1>1, <2>6 DEF RuntimeMove, Ends, Starts, Advances, Creates
    <3>2. QED
      BY <3>1 DEF Carries
  <2>7. QED
    BY <2>4, <2>5, <2>6
<1>6. QED
  BY <1>1, <1>2, <1>4, <1>5, OwnedByOne

\* What the handlers write to the connection secret.
LEMMA HandlerStepSecret ==
  ASSUME TypeOK, NEW m \in MR, NEW r \in Replica, HandlerStep(m, r)
  PROVE  /\ \A l \in MR : l # m => secret'[l] = secret[l]
         /\ \/ secret'[m] \in {NoId, secret[m]}
            \/ work[m][r].pc = "publish" /\ secret'[m] = work[m][r].cr.ext
BY DEF HandlerStep, ObserveValid, ObserveDead, ObserveNotFound, Adopt, ObserveMissing,
       Create, Update, Publish, Delete, Dispose, UnpublishOnly, TypeOK

LEMMA HandlerStepOwned ==
  ASSUME TypeOK, MissingIsMissing, SecretIsOwned,
         NEW m \in MR, NEW r \in Replica, HandlerStep(m, r)
  PROVE  SecretIsOwned'
<1> DEFINE w == work[m][r]
           v == work'[m][r]
<1>1. Framed(m, r) /\ HandlerMove(m, r)
  BY HandlerStepEffect
<1>2. KeysAge
  BY <1>1, MovesAge DEF HandlerMove, Observes, Finishes
<1>3. /\ mr[m].fin \/ mr[m].phase = "gone" => mr'[m].fin \/ mr'[m].phase = "gone"
      /\ mr'[m].ext = mr[m].ext
  <2>1. CASE mr' = mr
    BY <2>1
  <2>2. CASE Dispose(m, r)
    BY <2>2 DEF Dispose, Release, Commit, TypeOK, RuntimeTypeOK, Object
  <2>3. QED
    BY <2>1, <2>2, HandlerStepKeeps
<1>4. ASSUME NEW k \in Id, Owned(m, k), Valid(k) PROVE v.pc \notin Minting
  <2>1. w.pc # "create"
    BY <1>4 DEF Owned
  <2>2. QED
    BY <1>1, <2>1 DEF HandlerMove, Observes, Mints, Finishes, Minting
<1>5. Preserves(m, r)
  BY <1>3, <1>4 DEF Preserves
<1>6. Carries(m, work[m][r])'
  <2>1. v.pc # "publish"
    BY <1>1 DEF HandlerMove, Observes, Mints, Finishes
  <2>2. ASSUME v.pc = "annotate", v.cr.create = "succeeded"
        PROVE  Minted(m, work[m][r].cr.ext)'
    <3>1. Mints(m, r)
      BY <1>1, <2>2 DEF HandlerMove, Observes, Finishes
    <3>2. QED
      BY <2>2, <3>1 DEF Mints, Minted, Named, TypeOK
  <2>3. QED
    BY <2>1, <2>2 DEF Carries
<1>7. /\ \A l \in MR : l # m => secret'[l] = secret[l]
      /\ secret'[m] \in {NoId, secret[m]} \/ Owned(m, secret'[m])
  BY HandlerStepSecret DEF SecretIsOwned, Carries
<1>8. QED
  BY <1>1, <1>2, <1>5, <1>6, <1>7, OwnedByOne

LEMMA WorldStepOwned ==
  ASSUME TypeOK, SecretIsOwned,
         \/ \E m \in MR : UserDeletes(m)
         \/ \E m \in MR : ClearPending(m) /\ UNCHANGED <<keys, secret>>
         \/ \E k \in Id : Die(k) \/ Vanish(k)
  PROVE  SecretIsOwned'
<1>1. PICK r : r \notin Replica
  BY NoSetContainsEverything
<1>2. ASSUME NEW m \in MR,
             UserDeletes(m) \/ (ClearPending(m) /\ UNCHANGED <<keys, secret>>)
      PROVE  SecretIsOwned'
  <2>1. Framed(m, r) /\ KeysAge
    BY <1>1, <1>2, WorldStepFramed, MovesAge DEF UserDeletes
  <2>2. Preserves(m, r)
    BY <1>1, <1>2 DEF UserDeletes, RequestDelete, ClearPending, Edit, Preserves, TypeOK,
                      RuntimeTypeOK, Object
  <2>3. /\ \A l \in MR : l # m => secret'[l] = secret[l]
        /\ secret'[m] \in {NoId, secret[m]}
    BY <1>2 DEF UserDeletes, TypeOK
  <2>4. QED
    BY <1>1, <2>1, <2>2, <2>3, OwnedByOne
<1>3. ASSUME NEW k \in Id, Die(k) \/ Vanish(k) PROVE SecretIsOwned'
  <2>1. KeysAge /\ mr' = mr /\ work' = work /\ secret' = secret
    BY <1>3, MovesAge DEF Die, Vanish, runtimeVars
  <2>2. ASSUME NEW l \in MR, NEW j, Minted(l, j) PROVE Minted(l, j)'
    BY <2>1, <2>2 DEF Minted, KeysAge, Named
  <2>3. ASSUME NEW l \in MR, NEW j, Owned(l, j) PROVE Owned(l, j)'
    BY <2>1, <2>2, <2>3 DEF Owned, Minted, KeysAge
  <2>4. ASSUME NEW l \in MR PROVE (secret[l] = NoId \/ Owned(l, secret[l]))'
    <3>1. PICK j : j = secret[l]
      OBVIOUS
    <3>2. j = NoId \/ Owned(l, j)'
      BY <2>3, <3>1 DEF SecretIsOwned
    <3>3. QED
      BY <2>1, <3>1, <3>2 DEF Owned, Minted, Valid, Named
  <2>5. ASSUME NEW l \in MR, NEW s \in Replica PROVE Carries(l, work[l][s])'
    <3>1. PICK j : j = work[l][s].cr.ext
      OBVIOUS
    <3>2. /\ work[l][s].pc = "publish" => Owned(l, j)'
          /\ work[l][s].pc = "annotate" /\ work[l][s].cr.create = "succeeded"
               => Minted(l, j)'
      BY <2>2, <2>3, <3>1 DEF SecretIsOwned, Carries
    <3>3. QED
      BY <2>1, <3>1, <3>2 DEF Carries, Owned, Minted, Valid, Named
  <2>6. QED
    BY <2>4, <2>5 DEF SecretIsOwned
<1>4. QED
  BY <1>2, <1>3

\* The whole inductive invariant holds when no two resources share a key name.
THEOREM InvariantHolds ==
  ASSUME DistinctNames
  PROVE  Spec => []IInv
<1>1. Init => SecretIsOwned
  BY DEF Init, RuntimeInit, Idle, SecretIsOwned, Carries
<1>2. /\ TypeOK /\ MissingIsMissing /\ PendingFences /\ SeenIsCurrent /\ SecretIsOwned
      /\ [Next]_vars
      => SecretIsOwned'
  <2> SUFFICES ASSUME TypeOK, MissingIsMissing, PendingFences, SeenIsCurrent,
                      SecretIsOwned, [Next]_vars
               PROVE  SecretIsOwned'
    OBVIOUS
  <2>1. CASE UNCHANGED vars
    BY <2>1 DEF vars, runtimeVars, SecretIsOwned, Carries, Owned, Minted, Valid, Named
  <2>2. QED
    BY <2>1, RuntimeStepOwned, HandlerStepOwned, WorldStepOwned DEF Next
<1>3. IInv <=> /\ DeletionIsReal /\ OutdatedIsDead
               /\ MissingIsMissing /\ PendingFences /\ SeenIsCurrent /\ SecretIsOwned
  BY DEF IInv
<1>4. QED
  BY <1>1, <1>2, <1>3, TypeCorrect, RotationIsGrounded, PendingIsAFence,
     KnowledgeIsCurrent, PTL DEF Spec

\* While the key in the connection secret is valid, the resource's identity is that
\* very key, for any number of replicas: no late publication and no lost write
\* separates what the consumers use from what the controller looks after.
THEOREM SecretIsTheIdentity ==
  ASSUME DistinctNames
  PROVE  Spec => []SecretMatchesIdentity
<1>1. TypeOK /\ IInv => SecretMatchesIdentity
  <2> SUFFICES ASSUME TypeOK, IInv, NEW m \in MR, secret[m] # NoId, Valid(secret[m])
               PROVE  Lookup(mr[m]) = secret[m]
    BY DEF SecretMatchesIdentity
  <2>1. mr[m].ext = secret[m] /\ secret[m] \in Id
    BY DEF IInv, SecretIsOwned, Owned, Minted
  <2>2. QED
    BY <2>1, LookupType DEF TypeOK, RuntimeTypeOK
<1>2. QED
  BY <1>1, TypeCorrect, InvariantHolds, PTL

-----------------------------------------------------------------------------
(* The controller implements KeyCustody *)

phases == [m \in MR |-> mr[m].phase]

LEMMA NoneIsUnused == \A m \in MR : NoValidKey(m) <=> ~Custody!InUse(m)
BY DEF NoValidKey, Valid, Named, Custody!InUse

LEMMA RuntimeStepStutters ==
  ASSUME RuntimeTypeOK, NEW m \in MR, NEW r \in Replica, RuntimeStep(m, r)
  PROVE  phases' = phases
<1>1. mr'[m].phase = mr[m].phase /\ \A l \in MR : l # m => mr'[l] = mr[l]
  BY RuntimeStepKeeps, RuntimeStepEffect DEF Framed
<1>2. QED
  BY <1>1 DEF phases

LEMMA RemovalMaps ==
  ASSUME NEW k \in Id, Removes(k), phases' = phases
  PROVE  Custody!Remove(k)
BY DEF Removes, Listed, phases, Custody!Remove

\* A handler mints for a resource that is still there and has no valid key,
\* removes a key, lets a deleted resource without a valid key go, or stutters.
LEMMA HandlerStepMaps ==
  ASSUME TypeOK, MissingIsMissing, SeenIsCurrent, NEW m \in MR, NEW r \in Replica,
         HandlerStep(m, r)
  PROVE  \/ \E k \in Id : Custody!Mint(m, k) \/ Custody!Remove(k)
         \/ Custody!LetGo(m)
         \/ UNCHANGED <<keys, phases>>
<1> DEFINE w == work[m][r]
<1>1. HandlerMove(m, r) /\ (mr' = mr \/ Dispose(m, r))
  BY HandlerStepEffect, HandlerStepKeeps
<1>2. CASE mr' = mr /\ keys' = keys
  BY <1>2 DEF phases
<1>3. ASSUME mr' = mr, NEW k \in Id, Removes(k) PROVE Custody!Remove(k)
  BY <1>3, RemovalMaps DEF phases
<1>4. ASSUME mr' = mr, Mints(m, r) PROVE \E k \in Id : Custody!Mint(m, k)
  <2>1. PICK k \in Id :
          /\ keys[k].state = "unborn"
          /\ keys' = [keys EXCEPT ![k] = [state |-> "valid", name |-> NameOf[m]]]
    BY <1>4 DEF Mints
  <2>2. NoValidKey(m) /\ mr[m].phase # "gone"
    BY <1>4 DEF Mints, MissingIsMissing, SeenIsCurrent
  <2>3. Custody!Mint(m, k)
    BY <1>4, <2>1, <2>2, NoneIsUnused DEF Custody!Mint
  <2>4. QED
    BY <2>3
<1>5. CASE Dispose(m, r)
  <2>1. w.pc = "act" /\ w.obs = "missing" /\ ~w.stale /\ w.cr.phase = "deleting"
    BY <1>5 DEF Dispose, Release
  <2>2. mr[m].phase = "deleting" /\ NoValidKey(m)
    BY <2>1 DEF SeenIsCurrent, MissingIsMissing
  <2>3. mr' = [mr EXCEPT ![m] = [mr[m] EXCEPT !.phase = "gone", !.fin = FALSE]]
    BY <1>5 DEF Dispose, Release, Commit
  <2>4. phases' = [phases EXCEPT ![m] = "gone"] /\ keys' = keys
    BY <1>5, <2>3 DEF Dispose, phases, TypeOK, RuntimeTypeOK, Object
  <2>5. Custody!LetGo(m)
    BY <2>2, <2>4, NoneIsUnused DEF Custody!LetGo, phases
  <2>6. QED
    BY <2>5
<1>6. QED
  BY <1>1, <1>2, <1>3, <1>4, <1>5 DEF HandlerMove, Observes, Finishes

LEMMA WorldStepMaps ==
  ASSUME TypeOK,
         \/ \E m \in MR : UserDeletes(m)
         \/ \E m \in MR : ClearPending(m) /\ UNCHANGED <<keys, secret>>
         \/ \E k \in Id : Die(k) \/ Vanish(k)
  PROVE  Custody!Next \/ UNCHANGED <<keys, phases>>
<1>1. ASSUME NEW m \in MR, UserDeletes(m) PROVE Custody!Forget(m)
  <2> DEFINE p == IF mr[m].fin THEN "deleting" ELSE "gone"
  <2>1. mr' = [mr EXCEPT ![m] = [mr[m] EXCEPT !.phase = p]] /\ keys' = keys
    BY <1>1 DEF UserDeletes, RequestDelete, Edit
  <2>2. phases' = [phases EXCEPT ![m] = p] /\ p \in {"deleting", "gone"}
    BY <2>1 DEF phases, TypeOK, RuntimeTypeOK, Object
  <2>3. QED
    BY <1>1, <2>1, <2>2 DEF UserDeletes, RequestDelete, phases, Custody!Forget
<1>2. ASSUME NEW m \in MR, ClearPending(m), UNCHANGED <<keys, secret>>
      PROVE  UNCHANGED <<keys, phases>>
  BY <1>2 DEF ClearPending, Edit, phases, TypeOK, RuntimeTypeOK, Object
<1>3. ASSUME NEW k \in Id, Die(k) PROVE Custody!Lapse(k)
  BY <1>3 DEF Die, Valid, runtimeVars, Custody!Lapse
<1>4. ASSUME NEW k \in Id, Vanish(k) PROVE Custody!Remove(k)
  BY <1>4 DEF Vanish, Listed, runtimeVars, Custody!Remove
<1>5. QED
  BY <1>1, <1>2, <1>3, <1>4 DEF Custody!Next

LEMMA StepMaps ==
  ASSUME TypeOK, IInv, [Next]_vars
  PROVE  [Custody!Next]_(Custody!vars)
<1>1. ASSUME NEW m \in MR, NEW r \in Replica, RuntimeStep(m, r), UNCHANGED <<keys, secret>>
      PROVE  UNCHANGED <<keys, phases>>
  BY <1>1, RuntimeStepStutters DEF TypeOK
<1>2. ASSUME NEW m \in MR, NEW r \in Replica, HandlerStep(m, r)
      PROVE  Custody!Next \/ UNCHANGED <<keys, phases>>
  BY <1>2, HandlerStepMaps DEF IInv, Custody!Next
<1>3. ASSUME UNCHANGED vars PROVE UNCHANGED <<keys, phases>>
  BY <1>3 DEF vars, runtimeVars, phases
<1>4. Custody!Next \/ UNCHANGED <<keys, phases>>
  BY <1>1, <1>2, <1>3, WorldStepMaps DEF Next
<1>5. QED
  BY <1>4 DEF Custody!vars, phases

\* Step by step the controller keeps the promise of KeyCustody.
THEOREM ImplementsCustody ==
  ASSUME DistinctNames
  PROVE  Spec => CustodyKept
<1>1. Init => Custody!Init
  <2> SUFFICES ASSUME Init PROVE Custody!Init
    OBVIOUS
  <2>1. PICK born \in SUBSET Imported, n \in Name :
          /\ \A j, k \in born : j = k
          /\ RuntimeInit(born)
          /\ keys = [k \in Id |->
                      [state |-> IF k \in born THEN "valid" ELSE "unborn", name |-> n]]
    BY DEF Init
  <2>2. phases = [m \in MR |-> "live"]
    BY <2>1 DEF RuntimeInit, Fresh, phases
  <2>3. born \in SUBSET Id
    BY NamesAssumption
  <2>4. QED
    BY <2>1, <2>2, <2>3 DEF Custody!Init, phases
<1>2. TypeOK /\ IInv /\ [Next]_vars => [Custody!Next]_(Custody!vars)
  BY StepMaps
<1>3. QED
  BY <1>1, <1>2, TypeCorrect, InvariantHolds, PTL DEF Spec, CustodyKept, Custody!Spec

\* A deleted resource is let go only when no key of its name can be used.
THEOREM ReleaseIsSafe ==
  ASSUME DistinctNames
  PROVE  Spec => ReleasedWithoutValidKey
<1> DEFINE Step == \A m \in MR :
                     mr[m].phase = "deleting" /\ mr'[m].phase = "gone"
                       => \A k \in Id : ~(Valid(k) /\ Named(k, m))
<1>1. TypeOK /\ IInv /\ [Next]_vars => Step
  <2> SUFFICES ASSUME TypeOK, IInv, [Next]_vars,
                      NEW m \in MR, mr[m].phase = "deleting", mr'[m].phase = "gone"
               PROVE  NoValidKey(m)
    BY DEF NoValidKey
  <2>1. [Custody!Next]_(Custody!vars)
    BY StepMaps
  <2>2. phases[m] = "deleting" /\ phases'[m] = "gone"
    BY DEF phases
  <2>3. Custody!LetGo(m)
    BY <2>1, <2>2
    DEF phases, Custody!vars, Custody!Next, Custody!Forget, Custody!LetGo, Custody!Mint,
        Custody!Lapse, Custody!Remove
  <2>4. QED
    BY <2>3, NoneIsUnused DEF Custody!LetGo
<1>2. Spec => [][Step]_vars
  BY <1>1, TypeCorrect, InvariantHolds, PTL DEF Spec
<1>3. QED
  BY <1>2 DEF ReleasedWithoutValidKey
=============================================================================
