----------------------------- MODULE AnyKindProofs -----------------------------
(***************************************************************************)
(* Proofs about the kinds of AnyKind for any number of resources, replicas *)
(* and objects: what evolves as AnyKindSteps says keeps its types, never   *)
(* has two objects and is let go when nothing is left of it.               *)
(***************************************************************************)
EXTENDS AnyKindSteps

-----------------------------------------------------------------------------
(* One object for each resource *)

\* An administrator deleted an object of m.
Lost(m) == \E k \in Id : account[k].of = m /\ account[k].state = "lost"

\* Persons are not the provider's to count; what is looked up by identifier alone is
\* not adopted again after an administrator deleted it.
Excused(m) == kind = "person" \/ (kind \in {"group", "service user"} /\ Lost(m))

\* A router for a group that is gone is not looked for.
Dismissed == kind = "group router" /\ group = "deleted"

\* The resources of which a worker may truly say that they have nothing.
Void == {m \in MR : Excused(m) \/ Dismissed \/ Counted(m) = {}}

FenceInv == Fence(Void)

One == \A m \in MR : Excused(m) \/ \A j, k \in Counted(m) : j = k

OneInv == RuntimeTypeOK /\ FenceInv /\ CurrentInv /\ One

\* No object is released for any other.
LetsGoVoid == \A l \in MR : mr[l].phase = "deleting" /\ mr'[l].phase = "gone" => l \in Void

\* What a kind adds to Evolves.
Besides ==
  /\ kind' = kind
  /\ kind = "service user" => \A k \in Id :
       account'[k].state = "live" /\ account'[k].holds.named =>
         account[k].state = "unborn" \/ account[k].holds.named
  /\ kind = "group router" =>
       (group # "live" => Fades) /\ (group = "deleted" => group' = "deleted")

\* A resource that has nothing keeps having nothing when objects fade,
LEMMA FadesVoid ==
  ASSUME Besides, Fades, One
  PROVE  Void \subseteq Void' /\ One'
<1>1. ASSUME NEW m \in MR PROVE Counted(m)' \subseteq Counted(m)
  BY DEF Besides, Fades, Counted, Present
<1>2. ASSUME NEW m \in MR, Excused(m) PROVE Excused(m)'
  BY <1>2 DEF Besides, Fades, Excused, Lost
<1>3. Dismissed => Dismissed'
  BY DEF Besides, Dismissed
<1>4. QED
  BY <1>1, <1>2, <1>3 DEF Void, One

\* and all but one do when that one gets its object.
LEMMA GrowsVoid ==
  ASSUME Besides, One, NEW m \in Void, Grows(m)
  PROVE  Void \ Void' \subseteq {m} /\ One'
<1>1. PICK k \in Id :
        /\ account[k].state = "unborn"
        /\ account'[k].state = "live" /\ account'[k].of = m
        /\ \A j \in Id : j # k => account'[j] = account[j]
  BY DEF Grows
<1>2. ~Dismissed
  BY <1>1 DEF Besides, Dismissed, Fades
<1>3. ASSUME NEW l \in MR PROVE Counted(l)' \subseteq Counted(l) \cup {k}
  BY <1>1 DEF Besides, Counted, Present
<1>4. ASSUME NEW l \in MR, l # m PROVE Counted(l)' \subseteq Counted(l)
  BY <1>1, <1>4 DEF Besides, Counted, Present
<1>5. ASSUME NEW l \in MR, Excused(l) PROVE Excused(l)'
  BY <1>1, <1>5 DEF Besides, Excused, Lost
<1>6. m \in MR /\ (Excused(m) \/ Counted(m) = {})
  BY <1>2 DEF Void
<1>7. QED
  BY <1>2, <1>3, <1>4, <1>5, <1>6 DEF Void, One

LEMMA OpensOne == ASSUME Opens PROVE OneInv
<1>1. PICK born \in SUBSET Id, o \in MR :
        /\ \A j, k \in born : j = k
        /\ RuntimeInit(born)
        /\ \A k \in Id : /\ account[k].of = o
                         /\ account[k].state = IF k \in born THEN "live" ELSE "unborn"
  BY DEF Opens
<1>2. One
  BY <1>1 DEF One, Counted, Present
<1>3. FenceInv /\ CurrentInv
  BY <1>1 DEF RuntimeInit, Idle, Fresh, FenceInv, Fence, Sole, Fenced, CurrentInv, Current,
              Early, Minting, Watching
<1>4. QED
  BY <1>1, <1>2, <1>3, RuntimeInitTypes DEF OneInv

\* What evolves keeps the fence, makes no second object and lets go of nothing that
\* has one.
LEMMA OneStays ==
  ASSUME OneInv, Besides, Evolves(Void)
  PROVE  OneInv' /\ LetsGoVoid
<1>1. RuntimeTypeOK /\ FenceInv /\ CurrentInv /\ One /\ Fence(Void)
  BY DEF OneInv, FenceInv
<1>2. FenceAfter(Void') => FenceInv'
  BY DEF FenceAfter, FenceInv, Fence
<1>3. ASSUME NEW m \in MR, NEW r \in Replica, SecretlessStep(m, r), account' = account
      PROVE  OneInv' /\ LetsGoVoid
  <2>1. Void \subseteq Void' /\ One'
    BY <1>1, <1>3, SameFades, FadesVoid
  <2>2. CASE RuntimeStep(m, r)
    <3>1. RuntimeTypeOK' /\ FenceAfter(Void') /\ CurrentInv'
      BY <1>1, <2>1, <2>2, RuntimeStepEffect, RuntimeStepFenced, RuntimeStepCurrent
    <3>2. LetsGoVoid
      BY <1>1, <2>2, RuntimeStepEffect, RuntimeStepKeeps DEF Framed, LetsGoVoid
    <3>3. QED
      BY <1>2, <2>1, <3>1, <3>2 DEF OneInv
  <2>3. CASE Release(m, r)
    <3>1. m \in Void /\ FenceAfter(Void') /\ CurrentInv'
      BY <1>1, <2>1, <2>3, ReleaseFenced
    <3>2. RuntimeTypeOK' /\ Framed(m, r)
      BY <1>1, <2>3, ReleaseMoves
    <3>3. LetsGoVoid
      BY <3>1, <3>2 DEF Framed, LetsGoVoid
    <3>4. QED
      BY <1>2, <2>1, <3>1, <3>2, <3>3 DEF OneInv
  <2>4. QED
    BY <1>3, <2>2, <2>3 DEF SecretlessStep
<1>4. ASSUME NEW m \in MR, NEW r \in Replica, Handles(m, r, m \in Void)
      PROVE  OneInv' /\ LetsGoVoid
  <2>1. RuntimeTypeOK' /\ Framed(m, r) /\ mr' = mr
    BY <1>4 DEF Handles, Moved, Looks, Makes, Stops
  <2>2. CurrentInv'
    <3>1. Looks(m, r, m \in Void) => Looks(m, r, TRUE)
      BY DEF Looks
    <3>2. QED
      BY <1>1, <1>4, <2>1, <3>1, HandlerStepCurrent DEF Handles
  <2>3. LetsGoVoid
    BY <2>1 DEF LetsGoVoid
  <2>4. CASE Looks(m, r, m \in Void) /\ account' = account
    <3>1. Void \subseteq Void' /\ One'
      BY <1>1, <2>4, SameFades, FadesVoid
    <3>2. Looks(m, r, m \in Void')
      BY <2>4, <3>1 DEF Looks
    <3>3. FenceAfter(Void')
      BY <1>1, <2>1, <3>1, <3>2, RestFenced
    <3>4. QED
      BY <1>2, <2>1, <2>2, <2>3, <3>1, <3>3 DEF OneInv
  <2>5. CASE Makes(m, r) /\ (account' = account \/ Grows(m))
    <3>1. m \in Void
      BY <1>1, <2>1, <2>5, MakingFenced
    <3>2. Void \ Void' \subseteq {m} /\ One'
      BY <1>1, <2>5, <3>1, SameFades, FadesVoid, GrowsVoid
    <3>3. FenceAfter(Void')
      BY <1>1, <2>1, <2>5, <3>2, MakingFenced
    <3>4. QED
      BY <1>2, <2>1, <2>2, <2>3, <3>2, <3>3 DEF OneInv
  <2>6. CASE Stops(m, r) /\ Fades
    <3>1. Void \subseteq Void' /\ One'
      BY <1>1, <2>6, FadesVoid
    <3>2. FenceAfter(Void')
      BY <1>1, <2>1, <2>6, <3>1, RestFenced
    <3>3. QED
      BY <1>2, <2>1, <2>2, <2>3, <3>1, <3>2 DEF OneInv
  <2>7. QED
    BY <1>4, <2>4, <2>5, <2>6 DEF Handles
<1>5. ASSUME NEW m \in MR, RequestDelete(m) \/ Respecify(m) \/ ClearPending(m),
             account' = account
      PROVE  OneInv' /\ LetsGoVoid
  <2>1. Void \subseteq Void' /\ One'
    BY <1>1, <1>5, SameFades, FadesVoid
  <2>2. /\ RuntimeTypeOK' /\ FenceAfter(Void') /\ UserMove(m)
        /\ \A l \in MR : l # m => mr'[l] = mr[l]
    BY <1>1, <1>5, <2>1, UserStepFenced
  <2>3. CurrentInv'
    BY <1>1, <1>5, UserStepCurrent
  <2>4. LetsGoVoid
    BY <2>2 DEF UserMove, LetsGoVoid
  <2>5. QED
    BY <1>2, <2>1, <2>2, <2>3, <2>4 DEF OneInv
<1>6. CASE UNCHANGED runtimeVars /\ (Fades \/ kind = "person")
  <2>1. Void \subseteq Void' /\ One'
    <3>1. CASE kind = "person"
      BY <3>1 DEF Besides, Void, One, Excused
    <3>2. QED
      BY <1>1, <1>6, <3>1, FadesVoid
  <2>2. mr' = mr /\ work' = work /\ RuntimeTypeOK'
    BY <1>1, <1>6 DEF runtimeVars, RuntimeTypeOK
  <2>3. FenceAfter(Void') /\ CurrentInv'
    BY <1>1, <2>1, <2>2, WorldFenced
  <2>4. LetsGoVoid
    BY <2>2 DEF LetsGoVoid
  <2>5. QED
    BY <1>2, <2>1, <2>2, <2>3, <2>4 DEF OneInv
<1>7. QED
  BY <1>3, <1>4, <1>5, <1>6 DEF Evolves, Edits

-----------------------------------------------------------------------------
(* Where the identifiers lead that groups and service users are looked up by *)

\* What may identify an object of m, now or earlier.
Mine(m) == {k \in Id : account[k].of = m /\ account[k].state # "unborn"} \cup Hints

Owned(m, o) == o.ext \in Mine(m) /\ o.sid \in Mine(m)

OwnsInv ==
  \A m \in MR : /\ Owned(m, mr[m])
                /\ \A r \in Replica : Owned(m, cache[m][r]) /\ Owned(m, work[m][r].cr)

\* As long as m is live no copy of it is of another opinion, and no controller has
\* deleted an object of it.
GroundedInv ==
  \A m \in MR : mr[m].phase = "live" =>
    /\ \A k \in Id : account[k].of = m => account[k].state # "deleted"
    /\ \A r \in Replica : cache[m][r].phase = "live" /\ work[m][r].cr.phase = "live"

\* Besides k there is no object of m and none on its way.
Leads(m, k) ==
  \/ Lost(m)
  \/ Counted(m) \subseteq {k} /\ \A r \in Replica : work[m][r].pc # "create"

\* External name e and status s do not lead past an object of m.
Led(m, e, s) == Sought(e, s) \in Id => Leads(m, Sought(e, s))

\* They do not, whatever the status.
Firm(m, e) == (e = DispName /\ DispName # ObjName) \/ (e \in Id /\ Leads(m, e))

\* Worker state v holds the identifiers as the object does.
Unmoved(v) ==
  /\ ~v.stale
  /\ v.pc = "observe" \/ (v.pc \in {"act", "pend"} /\ v.obs = "missing")

\* What worker state v may still store does not lead past an object of m; and what is
\* about to be created for a live object has not been deleted by a controller.
Guided(m, v) ==
  /\ v.pc # "idle" /\ (~v.stale \/ v.pc \in Minting) => Led(m, mr[m].ext, v.cr.sid)
  /\ Unmoved(v) => v.cr.ext = mr[m].ext /\ v.cr.sid = mr[m].sid
  /\ Unmoved(v) /\ v.pc # "observe" /\ v.cr.phase = "live" =>
       (Sought(mr[m].ext, mr[m].sid) \in Id => Lost(m))
  /\ ~v.stale /\ v.pc = "act" /\ v.obs # "missing" => Firm(m, v.cr.ext)
  /\ v.pc = "annotate" /\ v.cr.create = "succeeded" => Firm(m, v.cr.ext)
  /\ v.pc = "create" \/ (v.pc = "annotate" /\ v.cr.create # "succeeded") =>
       v.cr.ext = mr[m].ext

GuidedInv ==
  \A m \in MR : /\ Led(m, mr[m].ext, mr[m].sid)
                /\ \A r \in Replica : Guided(m, work[m][r])

SeekInv == OneInv /\ OwnsInv /\ GroundedInv /\ GuidedInv

Seeking == kind \in {"group", "service user"}

\* An object gives no identifier of an object that is not its own.
ImportsItsOwn == \A m \in MR : mr[m].ext \in Id => account[mr[m].ext].of = m

LEMMA OpensSeek == ASSUME Opens, ImportsItsOwn PROVE SeekInv
<1>1. PICK born \in SUBSET Id, o \in MR :
        /\ \A j, k \in born : j = k
        /\ RuntimeInit(born)
        /\ \A k \in Id : /\ account[k].of = o
                         /\ account[k].state = IF k \in born THEN "live" ELSE "unborn"
  BY DEF Opens
<1>2. \A m \in MR : /\ mr[m].phase = "live" /\ mr[m].sid = NoId
                    /\ mr[m].ext \in Hints \cup born
  BY <1>1 DEF RuntimeInit, Fresh
<1>3. \A m \in MR, r \in Replica : cache[m][r] = mr[m] /\ work[m][r] = Idle
  BY <1>1 DEF RuntimeInit
<1>4. /\ Idle.pc = "idle" /\ Idle.cr.phase = "live"
      /\ Idle.cr.ext = NoId /\ Idle.cr.sid = NoId
  BY DEF Idle, Fresh
<1>5. \A m \in MR : Owned(m, mr[m]) /\ Owned(m, Idle.cr)
  BY <1>1, <1>2, <1>4, IdentityAssumption DEF ImportsItsOwn, Owned, Mine, Hints
<1>6. OwnsInv
  BY <1>3, <1>5 DEF OwnsInv
<1>7. GroundedInv
  BY <1>1, <1>2, <1>3, <1>4 DEF GroundedInv
<1>8. ASSUME NEW m \in MR PROVE Led(m, mr[m].ext, mr[m].sid)
  <2>1. CASE Sought(mr[m].ext, mr[m].sid) \notin Id
    BY <2>1 DEF Led
  <2>2. CASE Sought(mr[m].ext, mr[m].sid) \in Id
    <3>1. Sought(mr[m].ext, mr[m].sid) \in born
      BY <1>2, <2>2, IdentityAssumption DEF Sought, Hints
    <3>2. Counted(m) \subseteq born
      BY <1>1 DEF Counted, Present
    <3>3. QED
      BY <1>1, <1>3, <1>4, <3>1, <3>2 DEF Led, Leads
  <2>3. QED
    BY <2>1, <2>2
<1>9. \A m \in MR, r \in Replica : Guided(m, work[m][r])
  BY <1>3, <1>4 DEF Guided, Unmoved, Minting
<1>10. QED
  BY <1>6, <1>7, <1>8, <1>9, OpensOne DEF SeekInv, GuidedInv

-----------------------------------------------------------------------------
(* What is looked up is one's own *)

LEMMA SeeksMine ==
  ASSUME Seeks
  PROVE  \A l \in MR : Mine(l) \subseteq Mine(l)'
<1>1. CASE account' = account
  BY <1>1 DEF Mine
<1>2. CASE Fades
  BY <1>2 DEF Fades, Mine
<1>3. ASSUME NEW m \in MR, NEW r \in Replica, Mints(m, r)
      PROVE  \A l \in MR : Mine(l) \subseteq Mine(l)'
  <2>1. PICK k \in Id : /\ account[k].state = "unborn"
                        /\ \A j \in Id : j # k => account'[j] = account[j]
    BY <1>3 DEF Mints
  <2>2. QED
    BY <2>1 DEF Mine
<1>4. QED
  BY <1>1, <1>2, <1>3 DEF Seeks, Tells, Discovers, Ceases, Dwindles

LEMMA OwnsByOne ==
  ASSUME OwnsInv, \A l \in MR : Mine(l) \subseteq Mine(l)',
         NEW m \in MR, NEW r, Framed(m, r), Owned(m, mr[m])',
         r \in Replica => Owned(m, work[m][r].cr)'
  PROVE  OwnsInv'
<1>1. ASSUME NEW l \in MR, NEW o, Owned(l, o)
      PROVE  o.ext \in Mine(l)' /\ o.sid \in Mine(l)'
  BY <1>1 DEF Owned
<1>2. ASSUME NEW l \in MR PROVE Owned(l, mr[l])'
  BY <1>1 DEF OwnsInv, Framed, Owned
<1>3. ASSUME NEW l \in MR, NEW s \in Replica PROVE Owned(l, cache[l][s])'
  BY <1>1, <1>2 DEF OwnsInv, Framed, Owned
<1>4. ASSUME NEW l \in MR, NEW s \in Replica PROVE Owned(l, work[l][s].cr)'
  BY <1>1 DEF OwnsInv, Framed, Overtaken, Owned
<1>5. QED
  BY <1>2, <1>3, <1>4 DEF OwnsInv

LEMMA SeeksOwns ==
  ASSUME OneInv, OwnsInv, Seeks
  PROVE  OwnsInv'
<1>1. RuntimeTypeOK /\ \A l \in MR : Mine(l) \subseteq Mine(l)'
  BY SeeksMine DEF OneInv
<1>2. \A m \in MR : Hints \subseteq Mine(m)' /\ NoId \in Hints /\ DispName \in Hints
  BY DEF Mine, Hints
<1>3. ASSUME NEW m \in MR, NEW r \in Replica, SecretlessStep(m, r), account' = account
      PROVE  OwnsInv'
  <2>1. Framed(m, r)
    BY <1>1, <1>3, RuntimeStepEffect, ReleaseMoves DEF SecretlessStep
  <2>2. Owned(m, mr[m]) /\ Owned(m, cache[m][r]) /\ Owned(m, work[m][r].cr)
    BY DEF OwnsInv
  <2>3. Owned(m, mr[m])' /\ Owned(m, work[m][r].cr)'
    BY <1>1, <1>2, <1>3, <2>2, LoopIdentifiers
    DEF Drops, Takes, Conveys, Hands, Rereads, Owned
  <2>4. QED
    BY <1>1, <2>1, <2>3, OwnsByOne
<1>4. ASSUME NEW m \in MR, NEW r \in Replica, Tells(m, r)
      PROVE  OwnsInv'
  <2>1. Framed(m, r) /\ mr' = mr
    BY <1>4 DEF Tells, Moved, Discovers, Mints, Ceases, Looks, Makes, Stops
  <2>2. Owned(m, mr[m]) /\ Owned(m, work[m][r].cr)
    BY DEF OwnsInv
  <2>3. Owned(m, mr[m])'
    BY <1>1, <2>1, <2>2 DEF Owned
  <2>4. CASE Discovers(m, r)
    <3>1. LookedUp(work[m][r].cr) \in Mine(m)
      BY <2>2 DEF LookedUp, Sought, Owned
    <3>2. Counted(m) \subseteq Mine(m)
      BY DEF Counted, Present, Mine
    <3>3. Owned(m, work[m][r].cr)'
      BY <1>1, <1>2, <2>2, <2>4, <3>1, <3>2 DEF Discovers, Acts, Owned
    <3>4. QED
      BY <1>1, <2>1, <2>3, <3>3, OwnsByOne
  <2>5. CASE Mints(m, r)
    <3>1. PICK k \in Id :
            /\ account'[k].state = "live" /\ account'[k].of = m
            /\ \/ work'[m][r].cr.ext = k
               \/ work'[m][r].cr.ext = work[m][r].cr.ext
      BY <2>5 DEF Mints
    <3>2. k \in Mine(m)'
      BY <3>1 DEF Mine
    <3>3. work'[m][r].cr.sid = work[m][r].cr.sid
      BY <2>5 DEF Mints
    <3>4. Owned(m, work[m][r].cr)'
      BY <1>1, <2>2, <3>1, <3>2, <3>3 DEF Owned
    <3>5. QED
      BY <1>1, <2>1, <2>3, <3>4, OwnsByOne
  <2>6. CASE Ceases(m, r)
    <3>1. Owned(m, work[m][r].cr)'
      BY <1>1, <1>2, <2>2, <2>6 DEF Ceases, Owned
    <3>2. QED
      BY <1>1, <2>1, <2>3, <3>1, OwnsByOne
  <2>7. QED
    BY <1>4, <2>4, <2>5, <2>6 DEF Tells
<1>5. ASSUME NEW m \in MR, RequestDelete(m) \/ Respecify(m) \/ ClearPending(m)
      PROVE  OwnsInv'
  <2>1. PICK r : r \notin Replica
    BY NoSetContainsEverything
  <2>2. Framed(m, r) /\ mr'[m].ext = mr[m].ext /\ mr'[m].sid = mr[m].sid
    BY <1>1, <1>5, <2>1, UserMoves, UserIdentifiers
  <2>3. Owned(m, mr[m])'
    BY <1>1, <2>2 DEF OwnsInv, Owned
  <2>4. QED
    BY <1>1, <2>1, <2>2, <2>3, OwnsByOne
<1>6. CASE UNCHANGED runtimeVars
  BY <1>1, <1>6 DEF runtimeVars, OwnsInv, Owned
<1>7. QED
  BY <1>3, <1>4, <1>5, <1>6 DEF Seeks

-----------------------------------------------------------------------------
(* What a live object has is deleted by administrators only *)

LEMMA GroundedByOne ==
  ASSUME GroundedInv, NEW m \in MR, NEW r, Framed(m, r),
         r \in Replica =>
           work'[m][r].cr.phase \in {work[m][r].cr.phase, cache[m][r].phase, "live"},
         \A k \in Id : account'[k].state = "deleted" =>
           /\ account'[k].of = account[k].of
           /\ account[k].state = "deleted" \/ (account[k].of = m /\ mr[m].phase # "live")
  PROVE  GroundedInv'
<1>1. ASSUME NEW l \in MR, mr'[l].phase = "live"
      PROVE  /\ mr[l].phase = "live"
             /\ \A k \in Id : account[k].of = l => account[k].state # "deleted"
             /\ \A s \in Replica :
                  cache[l][s].phase = "live" /\ work[l][s].cr.phase = "live"
  BY <1>1 DEF Framed, GroundedInv
<1>2. ASSUME NEW l \in MR, mr'[l].phase = "live"
      PROVE  \A k \in Id : account'[k].of = l => account'[k].state # "deleted"
  BY <1>1, <1>2
<1>3. ASSUME NEW l \in MR, mr'[l].phase = "live", NEW s \in Replica
      PROVE  cache'[l][s].phase = "live" /\ work'[l][s].cr.phase = "live"
  <2>1. cache'[l][s].phase = "live"
    BY <1>1, <1>3 DEF Framed
  <2>2. CASE l = m /\ s = r
    <3>1. cache[m][r].phase = "live" /\ work[m][r].cr.phase = "live"
      BY <1>1, <1>3, <2>2
    <3>2. work'[m][r].cr.phase \in {work[m][r].cr.phase, cache[m][r].phase, "live"}
      BY <2>2
    <3>3. QED
      BY <2>1, <2>2, <3>1, <3>2
  <2>3. CASE l # m \/ s # r
    BY <1>1, <1>3, <2>3 DEF Framed, Overtaken
  <2>4. QED
    BY <2>1, <2>2, <2>3
<1>4. QED
  BY <1>2, <1>3 DEF GroundedInv

LEMMA SeeksGrounded ==
  ASSUME OneInv, OwnsInv, GroundedInv, Seeks
  PROVE  GroundedInv'
<1>1. RuntimeTypeOK
  BY DEF OneInv
<1>2. ASSUME NEW m \in MR, NEW r \in Replica, SecretlessStep(m, r), account' = account
      PROVE  GroundedInv'
  <2>1. Framed(m, r) /\ (RuntimeMove(m, r) \/ Releases(m, r))
    BY <1>1, <1>2, RuntimeStepEffect, ReleaseMoves DEF SecretlessStep
  <2>2. work'[m][r].cr.phase \in {work[m][r].cr.phase, cache[m][r].phase, "live"}
    BY <2>1 DEF RuntimeMove, Ends, Starts, Advances, Creates, Releases, Idle, Fresh
  <2>3. QED
    BY <1>2, <2>1, <2>2, GroundedByOne
<1>3. ASSUME NEW m \in MR, NEW r \in Replica, Tells(m, r)
      PROVE  GroundedInv'
  <2>1. Framed(m, r)
    BY <1>3 DEF Tells, Moved
  <2>2. work'[m][r].cr.phase \in {work[m][r].cr.phase, "live"}
    BY <1>3 DEF Tells, Discovers, Acts, Mints, Ceases, Stops
  <2>3. ASSUME NEW k \in Id, account'[k].state = "deleted"
        PROVE  /\ account'[k].of = account[k].of
               /\ \/ account[k].state = "deleted"
                  \/ account[k].of = m /\ mr[m].phase # "live"
    <3>1. CASE Discovers(m, r)
      BY <2>3, <3>1 DEF Discovers
    <3>2. CASE Mints(m, r)
      BY <2>3, <3>2 DEF Mints
    <3>3. CASE Ceases(m, r)
      <4>1. account'[k].of = account[k].of
        BY <3>3 DEF Ceases, Dwindles, Fades
      <4>2. CASE Spares
        BY <2>3, <4>1, <4>2 DEF Spares
      <4>3. CASE ~Spares
        <5> DEFINE i == LookedUp(work[m][r].cr)
        <5>1. /\ work[m][r].cr.phase = "deleting" /\ i \in Id
              /\ \A j \in Id : j # i => account'[j].state = account[j].state
          BY <3>3, <4>3 DEF Ceases
        <5>2. i \in Mine(m)
          BY DEF OwnsInv, Owned, LookedUp, Sought
        <5> HIDE DEF i
        <5>3. account[i].of = m /\ mr[m].phase # "live"
          BY <5>1, <5>2, IdentityAssumption DEF GroundedInv, Mine, Hints
        <5>4. QED
          BY <2>3, <4>1, <5>1, <5>3
      <4>4. QED
        BY <4>2, <4>3
    <3>4. QED
      BY <1>3, <3>1, <3>2, <3>3 DEF Tells
  <2>4. QED
    BY <2>1, <2>2, <2>3, GroundedByOne
<1>4. ASSUME NEW m \in MR, RequestDelete(m) \/ Respecify(m) \/ ClearPending(m),
             account' = account
      PROVE  GroundedInv'
  <2>1. PICK r : r \notin Replica
    BY NoSetContainsEverything
  <2>2. Framed(m, r)
    BY <1>1, <1>4, <2>1, UserMoves
  <2>3. QED
    BY <1>4, <2>1, <2>2, GroundedByOne
<1>5. CASE UNCHANGED runtimeVars /\ Fades /\ Spares
  BY <1>5 DEF runtimeVars, Fades, Spares, GroundedInv
<1>6. QED
  BY <1>2, <1>3, <1>4, <1>5 DEF Seeks, Dwindles

-----------------------------------------------------------------------------
(* No identifier that is stored leads past an object *)

LEMMA FirmLed ==
  ASSUME NEW m \in MR, NEW e, Firm(m, e), NEW s
  PROVE  Led(m, e, s)
BY IdentityAssumption DEF Firm, Led, Sought

\* Of a worker that is done, or whose next write will be refused, nothing is asked.
LEMMA GuidedBlind ==
  ASSUME NEW m \in MR, NEW v,
         v.pc = "idle" \/ (v.stale /\ v.pc \notin Minting)
  PROVE  Guided(m, v)
BY DEF Guided, Unmoved, Minting

\* What leads to the only object of m keeps doing so while no object of m comes to be.
Steady(m) ==
  /\ Lost(m) => Lost(m)'
  /\ Counted(m)' \subseteq Counted(m)
  /\ \A s \in Replica : work'[m][s].pc = "create" => work[m][s].pc = "create"

LEMMA LeadsStays ==
  ASSUME NEW m \in MR, Steady(m), NEW k, Leads(m, k)
  PROVE  Leads(m, k)'
BY DEF Steady, Leads

\* Other workers are not disturbed, unless the external name changes under one that
\* creates.
LEMMA GuidedBeside ==
  ASSUME NEW m \in MR, Steady(m), NEW s \in Replica, Guided(m, work[m][s]),
         Overtaken(work'[m][s], work[m][s], mr'[m] # mr[m]),
         work[m][s].pc \in Minting => mr'[m].ext = mr[m].ext
  PROVE  Guided(m, work[m][s])'
<1> DEFINE w == work[m][s]
           v == work'[m][s]
<1>1. v.pc = w.pc /\ v.cr = w.cr /\ v.obs = w.obs /\ (w.stale => v.stale)
  BY DEF Overtaken
<1>2. CASE v.pc = "idle" \/ (v.stale /\ v.pc \notin Minting)
  BY <1>2, GuidedBlind DEF Guided, Unmoved, Minting
<1>3. CASE v.pc # "idle" /\ (~v.stale \/ v.pc \in Minting)
  <2>1. mr'[m].ext = mr[m].ext /\ (v.pc \in Minting \/ mr'[m] = mr[m])
    BY <1>1, <1>3 DEF Overtaken
  <2>2. Led(m, mr[m].ext, w.cr.sid)
    BY <1>1, <1>3 DEF Guided
  <2>3. Led(m, mr[m].ext, work[m][s].cr.sid)'
    BY <1>1, <2>1, <2>2, LeadsStays DEF Led
  <2>4. \A e : Firm(m, e) => Firm(m, e)'
    BY LeadsStays DEF Firm
  <2>5. Lost(m) => Lost(m)'
    BY DEF Steady
  <2>6. Unmoved(v) => Unmoved(w) /\ mr'[m] = mr[m]
    BY <1>1, <2>1 DEF Unmoved, Minting
  <2>7. QED
    BY <1>1, <1>3, <2>1, <2>3, <2>4, <2>5, <2>6 DEF Guided, Unmoved, Minting
<1>4. QED
  BY <1>2, <1>3

\* It is enough to look at the resource whose worker moves,
Guides(m) == Led(m, mr[m].ext, mr[m].sid) /\ \A s \in Replica : Guided(m, work[m][s])

LEMMA GuidesElsewhere ==
  ASSUME GuidedInv, NEW l \in MR, Steady(l), mr'[l] = mr[l],
         \A s \in Replica : Overtaken(work'[l][s], work[l][s], FALSE)
  PROVE  Guides(l)'
<1>1. ASSUME NEW s \in Replica PROVE Guided(l, work[l][s])'
  <2>1. Guided(l, work[l][s]) /\ Overtaken(work'[l][s], work[l][s], mr'[l] # mr[l])
    BY DEF GuidedInv, Overtaken
  <2>2. QED
    BY <2>1, GuidedBeside
<1>2. Led(l, mr[l].ext, mr[l].sid)'
  BY LeadsStays DEF GuidedInv, Led
<1>3. QED
  BY <1>1, <1>2 DEF Guides

LEMMA GuidedByOne ==
  ASSUME GuidedInv, NEW m \in MR, NEW r, Framed(m, r),
         \A l \in MR : (Lost(l) => Lost(l)') /\ (l # m => Counted(l)' \subseteq Counted(l)),
         Guides(m)'
  PROVE  GuidedInv'
<1>1. ASSUME NEW l \in MR, l # m PROVE Guides(l)'
  <2>1. mr'[l] = mr[l] /\ \A s \in Replica : Overtaken(work'[l][s], work[l][s], FALSE)
    BY <1>1 DEF Framed, Overtaken
  <2>2. Steady(l)
    BY <1>1, <2>1 DEF Steady, Overtaken
  <2>3. QED
    BY <2>1, <2>2, GuidesElsewhere
<1>2. QED
  BY <1>1 DEF Guides, GuidedInv

\* and of its workers at the one that moves, if no object comes to be.
LEMMA GuidesBeside ==
  ASSUME GuidedInv, NEW m \in MR, NEW r, Framed(m, r), Steady(m),
         \/ mr'[m].ext = mr[m].ext
         \/ \A s \in Replica : s # r => work[m][s].pc \notin Minting,
         Led(m, mr[m].ext, mr[m].sid)', r \in Replica => Guided(m, work[m][r])'
  PROVE  Guides(m)'
<1>1. ASSUME NEW s \in Replica, s # r PROVE Guided(m, work[m][s])'
  <2>1. Guided(m, work[m][s]) /\ Overtaken(work'[m][s], work[m][s], mr'[m] # mr[m])
    BY <1>1 DEF GuidedInv, Framed
  <2>2. QED
    BY <1>1, <2>1, GuidedBeside
<1>2. QED
  BY <1>1 DEF Guides

\* The mover stores nothing.
LEMMA GuidesDropped ==
  ASSUME OneInv, GuidedInv, NEW m \in MR, NEW r \in Replica, Framed(m, r), Steady(m),
         Drops(m, r)
  PROVE  Guides(m)'
<1> DEFINE w == work[m][r]
           v == work'[m][r]
<1>1. Led(m, mr[m].ext, mr[m].sid) /\ Guided(m, w)
  BY DEF GuidedInv
<1>2. Led(m, mr'[m].ext, mr'[m].sid)
  BY <1>1 DEF Drops, Guided
<1>3. Led(m, mr[m].ext, mr[m].sid)'
  BY <1>2, LeadsStays DEF Led
<1>4. Guided(m, work[m][r])'
  BY DEF Drops, Guided, Unmoved, Minting
<1>5. QED
  BY <1>3, <1>4, GuidesBeside DEF Drops

LEMMA GuidesTaken ==
  ASSUME OneInv, GuidedInv, NEW m \in MR, NEW r \in Replica, Framed(m, r), Steady(m),
         Takes(m, r)
  PROVE  Guides(m)'
<1> DEFINE v == work'[m][r]
<1>1. Led(m, mr[m].ext, mr[m].sid) /\ mr' = mr
  BY DEF GuidedInv, Takes
<1>2. Led(m, mr[m].ext, mr[m].sid)'
  BY <1>1, LeadsStays DEF Led
<1>3. Guided(m, work[m][r])'
  <2>1. CASE cache[m][r] = mr[m]
    BY <1>1, <1>2, <2>1 DEF Takes, Guided, Unmoved, Minting
  <2>2. CASE cache[m][r] # mr[m]
    BY <2>2 DEF Takes, Guided, Unmoved, Minting
  <2>3. QED
    BY <2>1, <2>2
<1>4. QED
  BY <1>1, <1>2, <1>3, GuidesBeside

LEMMA GuidesCarried ==
  ASSUME OneInv, GuidedInv, NEW m \in MR, NEW r \in Replica, Framed(m, r), Steady(m),
         Conveys(m, r)
  PROVE  Guides(m)'
<1> DEFINE w == work[m][r]
           v == work'[m][r]
<1>1. Led(m, mr[m].ext, mr[m].sid) /\ Guided(m, w) /\ mr' = mr
  BY DEF GuidedInv, Conveys
<1>2. Led(m, mr[m].ext, mr[m].sid)'
  BY <1>1, LeadsStays DEF Led
<1>3. Guided(m, work[m][r])'
  <2>1. Led(m, mr[m].ext, w.cr.sid) => Led(m, mr[m].ext, work[m][r].cr.sid)'
    BY <1>1, LeadsStays DEF Conveys, Led
  <2>2. Lost(m) => Lost(m)'
    BY DEF Steady
  <2>3. CASE v.pc = "status"
    BY <1>1, <2>1, <2>3 DEF Conveys, Guided, Unmoved, Minting
  <2>4. CASE w.pc = "act" /\ v.pc \in {"pend", "update"} /\ v.obs = w.obs /\ v.cr = w.cr
    BY <1>1, <2>1, <2>2, <2>4 DEF Conveys, Guided, Unmoved, Minting
  <2>5. CASE /\ w.pc = "create" /\ v.pc = "annotate"
             /\ v.cr.create = "failed" /\ v.cr.ext = w.cr.ext
    BY <1>1, <2>1, <2>5 DEF Conveys, Guided, Unmoved, Minting
  <2>6. QED
    BY <2>3, <2>4, <2>5 DEF Conveys
<1>4. QED
  BY <1>1, <1>2, <1>3, GuidesBeside

\* Nobody else is creating when a worker whose copy is current goes on, or one that
\* creates.
LEMMA NobodyElse ==
  ASSUME FenceInv, NEW m \in MR, NEW r \in Replica,
         \/ work[m][r].pc \in Early /\ ~work[m][r].stale
         \/ work[m][r].pc \in Minting,
         NEW s \in Replica, s # r
  PROVE  work[m][s].pc \notin Minting
<1>1. /\ Sole(m)
      /\ Fenced(mr[m], work[m][r], m \in Void) /\ Fenced(mr[m], work[m][s], m \in Void)
  BY DEF FenceInv, Fence
<1>2. QED
  BY <1>1 DEF Sole, Fenced, Early, Minting

\* It stores an external name after an observation,
LEMMA GuidesActed ==
  ASSUME OneInv, GuidedInv, NEW m \in MR, NEW r \in Replica, Framed(m, r), Steady(m),
         Hands(m, r), work[m][r].pc = "act", ~work[m][r].stale,
         work'[m][r].pc \in {"pend", "update", "status"},
         work'[m][r].pc = "pend" => work[m][r].obs = "missing"
  PROVE  Guides(m)'
<1> DEFINE w == work[m][r]
           v == work'[m][r]
<1>1. Led(m, mr[m].ext, mr[m].sid) /\ Guided(m, w)
  BY DEF GuidedInv
<1>2. \A s \in Replica : s # r => work[m][s].pc \notin Minting
  BY NobodyElse DEF OneInv, Early
<1>3. Lost(m) => Lost(m)'
  BY DEF Steady
<1>4. CASE w.obs = "missing"
  <2>1. w.cr.ext = mr[m].ext /\ w.cr.sid = mr[m].sid
    BY <1>1, <1>4 DEF Guided, Unmoved
  <2>2. mr'[m].ext = mr[m].ext /\ mr'[m].sid = mr[m].sid /\ v.cr.sid = mr[m].sid
    BY <2>1 DEF Hands, Rereads
  <2>3. Led(m, mr[m].ext, mr[m].sid)'
    BY <1>1, <2>2, LeadsStays DEF Led
  <2>4. Guided(m, work[m][r])'
    BY <1>1, <1>3, <1>4, <2>1, <2>2, <2>3 DEF Hands, Guided, Unmoved, Minting
  <2>5. QED
    BY <2>2, <2>3, <2>4, GuidesBeside
<1>5. CASE w.obs # "missing"
  <2>1. Firm(m, w.cr.ext)
    BY <1>1, <1>5 DEF Guided
  <2>2. Firm(m, mr[m].ext)'
    BY <2>1, LeadsStays DEF Hands, Firm
  <2>3. Led(m, mr[m].ext, mr[m].sid)' /\ Led(m, mr[m].ext, work[m][r].cr.sid)'
    BY <2>2, IdentityAssumption DEF Firm, Led, Sought
  <2>4. Guided(m, work[m][r])'
    BY <1>5, <2>3 DEF Hands, Guided, Unmoved, Minting
  <2>5. QED
    BY <1>2, <2>3, <2>4, GuidesBeside
<1>6. QED
  BY <1>4, <1>5

\* after a create
LEMMA GuidesAnnotated ==
  ASSUME OneInv, GuidedInv, NEW m \in MR, NEW r \in Replica, Framed(m, r), Steady(m),
         Hands(m, r), work[m][r].pc = "annotate", work'[m][r].pc \in {"publish", "status"}
  PROVE  Guides(m)'
<1> DEFINE w == work[m][r]
           v == work'[m][r]
<1>1. Led(m, mr[m].ext, mr[m].sid) /\ Guided(m, w)
  BY DEF GuidedInv
<1>2. \A s \in Replica : s # r => work[m][s].pc \notin Minting
  BY NobodyElse DEF OneInv, Minting
<1>3. Led(m, mr[m].ext, mr[m].sid)' /\ Led(m, mr[m].ext, work[m][r].cr.sid)'
  <2>1. CASE w.cr.create = "succeeded"
    <3>1. Firm(m, w.cr.ext)
      BY <1>1, <2>1 DEF Guided
    <3>2. Firm(m, mr[m].ext)'
      BY <3>1, LeadsStays DEF Hands, Firm
    <3>3. QED
      BY <3>2, IdentityAssumption DEF Firm, Led, Sought
  <2>2. CASE w.cr.create # "succeeded"
    <3>1. mr'[m].ext = mr[m].ext /\ Led(m, mr[m].ext, w.cr.sid)
      BY <1>1, <2>2 DEF Hands, Guided, Minting
    <3>2. QED
      BY <1>1, <3>1, LeadsStays DEF Hands, Rereads, Led
  <2>3. QED
    BY <2>1, <2>2
<1>4. Guided(m, work[m][r])'
  BY <1>3 DEF Guided, Unmoved, Minting
<1>5. QED
  BY <1>2, <1>3, <1>4, GuidesBeside

\* or before one: from then on identifiers lead nowhere, and all other workers have
\* to start anew.
LEMMA GuidesPending ==
  ASSUME OneInv, GuidedInv, NEW m \in MR, NEW r \in Replica, Framed(m, r),
         Lost(m) => Lost(m)', Hands(m, r), mr'[m].create = "pending",
         work[m][r].pc = "pend", ~work[m][r].stale, work'[m][r].pc = "create"
  PROVE  Guides(m)'
<1> DEFINE w == work[m][r]
           v == work'[m][r]
<1>1. /\ Guided(m, w) /\ Current(m, w) /\ Fenced(mr[m], w, m \in Void)
  BY DEF GuidedInv, OneInv, CurrentInv, FenceInv, Fence
<1>2. /\ w.cr.ext = mr[m].ext /\ w.cr.sid = mr[m].sid
      /\ Sought(mr[m].ext, mr[m].sid) \in Id => Lost(m)
  BY <1>1 DEF Fenced, Current, Guided, Unmoved
<1>3. mr'[m].ext = mr[m].ext /\ mr'[m].sid = mr[m].sid /\ v.cr.sid = mr[m].sid
  BY <1>2 DEF Hands, Rereads
<1>4. Led(m, mr[m].ext, mr[m].sid)'
  BY <1>2, <1>3 DEF Led, Leads
<1>5. Guided(m, work[m][r])'
  BY <1>2, <1>3, <1>4 DEF Hands, Guided, Unmoved, Minting
<1>6. ASSUME NEW s \in Replica, s # r PROVE Guided(m, work[m][s])'
  <2>1. mr'[m] # mr[m]
    BY <1>1 DEF Fenced, Early
  <2>2. work[m][s].pc \notin Minting
    BY <1>6, NobodyElse DEF OneInv, Early
  <2>3. Overtaken(work'[m][s], work[m][s], TRUE)
    BY <1>6, <2>1 DEF Framed, Overtaken
  <2>4. QED
    BY <2>2, <2>3 DEF Overtaken, Guided, Unmoved, Minting
<1>7. QED
  BY <1>4, <1>5, <1>6 DEF Guides

LEMMA LoopGuided ==
  ASSUME OneInv, GuidedInv, kind' = kind, NEW m \in MR, NEW r \in Replica,
         SecretlessStep(m, r), account' = account
  PROVE  GuidedInv'
<1> DEFINE w == work[m][r]
           v == work'[m][r]
<1>1. RuntimeTypeOK /\ Framed(m, r) /\ (RuntimeMove(m, r) \/ Releases(m, r))
  BY RuntimeStepEffect, ReleaseMoves DEF SecretlessStep, OneInv
<1>2. \A l \in MR : (Lost(l) => Lost(l)') /\ Counted(l)' \subseteq Counted(l)
  BY DEF Lost, Counted, Present
<1>3. CASE w.pc = "pend" /\ v.pc = "create"
  <2>1. Hands(m, r) /\ ~w.stale
    BY <1>1, <1>3, LoopIdentifiers DEF Drops, Takes, Conveys, Hands
  <2>2. mr'[m].create = "pending"
    BY <1>1, <1>3
    DEF RuntimeMove, Ends, Starts, Advances, Creates, Releases
  <2>3. QED
    BY <1>1, <1>2, <1>3, <2>1, <2>2, GuidesPending, GuidedByOne
<1>4. CASE ~(w.pc = "pend" /\ v.pc = "create")
  <2>1. ASSUME NEW s \in Replica, work'[m][s].pc = "create" PROVE work[m][s].pc = "create"
    <3>1. CASE s # r
      BY <1>1, <2>1, <3>1 DEF Framed, Overtaken
    <3>2. CASE s = r
      BY <1>1, <1>4, <2>1, <3>2
      DEF RuntimeMove, Ends, Starts, Advances, Creates, Releases, Idle
    <3>3. QED
      BY <3>1, <3>2
  <2>2. Steady(m)
    BY <1>2, <2>1 DEF Steady
  <2>3. CASE Drops(m, r) \/ Takes(m, r) \/ Conveys(m, r)
    BY <1>1, <1>2, <2>2, <2>3, GuidesDropped, GuidesTaken, GuidesCarried, GuidedByOne
  <2>4. CASE Hands(m, r)
    <3>1. v.pc = "pend" => w.obs = "missing"
      BY <1>1, <2>4
      DEF RuntimeMove, Ends, Starts, Advances, Creates, Releases, Idle, Hands
    <3>2. Guides(m)'
      BY <1>1, <1>4, <2>2, <2>4, <3>1, GuidesActed, GuidesAnnotated DEF Hands
    <3>3. QED
      BY <1>1, <1>2, <3>2, GuidedByOne
  <2>5. CASE work' = work /\ mr' = mr
    <3>1. Led(m, mr[m].ext, mr[m].sid)'
      BY <2>2, <2>5, LeadsStays DEF GuidedInv, Led
    <3>2. \A s \in Replica : /\ Guided(m, work[m][s])
                             /\ Overtaken(work'[m][s], work[m][s], mr'[m] # mr[m])
      BY <2>5 DEF GuidedInv, Overtaken
    <3>3. \A s \in Replica : Guided(m, work[m][s])'
      BY <2>2, <2>5, <3>2, GuidedBeside
    <3>4. QED
      BY <1>1, <1>2, <3>1, <3>3, GuidedByOne DEF Guides
  <2>6. QED
    BY <1>1, <2>3, <2>4, <2>5, LoopIdentifiers
<1>5. QED
  BY <1>3, <1>4

\* What is at NetBird has one of the states of Thing.
States == \A k \in Id : account[k].state \in {"unborn", "live", "deleted", "lost"}

\* An object that is found is the only one;
LEMMA FoundGuided ==
  ASSUME SeekInv, Seeking, NEW m \in MR, NEW r \in Replica, Steady(m), Framed(m, r),
         work[m][r].pc = "observe", ~work[m][r].stale,
         NEW e, NEW s, Acts(m, r, e, s), work'[m][r].obs # "missing",
         Firm(m, e), Led(m, mr[m].ext, s)
  PROVE  Guides(m)'
<1>1. Led(m, mr[m].ext, mr[m].sid) /\ mr' = mr
  BY DEF SeekInv, GuidedInv, Acts
<1>2. Led(m, mr[m].ext, mr[m].sid)' /\ Led(m, mr[m].ext, work[m][r].cr.sid)'
  BY <1>1, LeadsStays DEF Acts, Led
<1>3. Firm(m, work[m][r].cr.ext)'
  BY LeadsStays DEF Acts, Firm
<1>4. work'[m][r].pc = "act" /\ work'[m][r].obs # "missing"
  BY DEF Acts
<1>5. Guided(m, work[m][r])'
  BY <1>2, <1>3, <1>4 DEF Guided, Unmoved, Minting
<1>6. QED
  BY <1>1, <1>2, <1>5, GuidesBeside DEF SeekInv

\* where nothing is found, an administrator deleted what was there, if anything.
LEMMA MissedGuided ==
  ASSUME SeekInv, States, Seeking, NEW m \in MR, NEW r \in Replica, Steady(m), Framed(m, r),
         work[m][r].pc = "observe", ~work[m][r].stale,
         Acts(m, r, work[m][r].cr.ext, work[m][r].cr.sid), work'[m][r].obs = "missing",
         LET k == LookedUp(work[m][r].cr) IN k \in Id => account[k].state # "live"
  PROVE  Guides(m)'
<1> DEFINE w == work[m][r]
           v == work'[m][r]
           k == Sought(mr[m].ext, mr[m].sid)
<1>1. /\ Led(m, mr[m].ext, mr[m].sid) /\ Guided(m, w) /\ mr' = mr
      /\ w.cr.ext = mr[m].ext /\ w.cr.sid = mr[m].sid
  BY DEF SeekInv, GuidedInv, Guided, Unmoved, Acts
<1>2. Led(m, mr[m].ext, mr[m].sid)'
  BY <1>1, LeadsStays DEF Led
<1>3. ASSUME k \in Id, w.cr.phase = "live" PROVE Lost(m)'
  <2>1. k \in Mine(m)
    BY <1>1 DEF SeekInv, OwnsInv, Owned, Sought
  <2>2. mr[m].phase = "live"
    BY <1>3 DEF SeekInv, OneInv, CurrentInv, Current, Watching
  <2>3. account[k].state # "live"
    BY <1>1, <1>3 DEF LookedUp
  <2> HIDE DEF k
  <2>4. account[k].of = m /\ account[k].state # "unborn"
    BY <1>3, <2>1, IdentityAssumption DEF Mine, Hints
  <2>5. account[k].state # "deleted"
    BY <1>3, <2>2, <2>4 DEF SeekInv, GroundedInv
  <2>6. Lost(m)
    BY <1>3, <2>3, <2>4, <2>5 DEF States, Lost
  <2>7. QED
    BY <2>6 DEF Steady
<1>4. Guided(m, work[m][r])'
  BY <1>1, <1>2, <1>3 DEF Acts, Guided, Unmoved, Minting
<1>5. QED
  BY <1>1, <1>2, <1>4, GuidesBeside DEF SeekInv

\* One that was found by name is the only one, too.
LEMMA CountedLeads ==
  ASSUME OneInv, Seeking, NEW m \in MR, NEW j \in Counted(m)
  PROVE  Leads(m, j)
<1>1. Excused(m) => Lost(m)
  BY DEF Seeking, Excused
<1>2. Lost(m) \/ Counted(m) \subseteq {j}
  BY <1>1 DEF OneInv, One
<1>3. ASSUME NEW s \in Replica, work[m][s].pc = "create" PROVE Lost(m)
  BY <1>1, <1>3 DEF OneInv, FenceInv, Fence, Fenced, Void, Dismissed, Seeking
<1>4. QED
  BY <1>2, <1>3 DEF Leads

LEMMA DiscoversGuided ==
  ASSUME SeekInv, States, Seeking, kind' = kind, NEW m \in MR, NEW r \in Replica,
         Moved(m, r), Discovers(m, r)
  PROVE  GuidedInv'
<1> DEFINE w == work[m][r]
           v == work'[m][r]
           k == LookedUp(w.cr)
<1>1. /\ Framed(m, r) /\ mr' = mr /\ account' = account
      /\ w.pc = "observe" /\ v.pc = "act" /\ (v.stale <=> w.stale)
  BY DEF Moved, Discovers, Acts
<1>2. \A l \in MR : (Lost(l) => Lost(l)') /\ Counted(l)' \subseteq Counted(l)
  BY <1>1 DEF Lost, Counted, Present
<1>3. Steady(m)
  BY <1>1, <1>2 DEF Steady, Framed, Overtaken
<1>4. Led(m, mr[m].ext, mr[m].sid) /\ Guided(m, w)
  BY DEF SeekInv, GuidedInv
<1>5. Guides(m)'
  <2>1. CASE w.stale
    <3>1. Led(m, mr[m].ext, mr[m].sid)'
      BY <1>1, <1>3, <1>4, LeadsStays DEF Led
    <3>2. Guided(m, work[m][r])'
      BY <1>1, <2>1 DEF Guided, Unmoved, Minting
    <3>3. QED
      BY <1>1, <1>3, <3>1, <3>2, GuidesBeside DEF SeekInv
  <2>2. CASE ~w.stale
    <3>1. w.cr.ext = mr[m].ext /\ w.cr.sid = mr[m].sid
      BY <1>1, <1>4, <2>2 DEF Guided, Unmoved
    <3>2. k \in Id => Leads(m, k)
      BY <1>4, <3>1 DEF LookedUp, Led
    <3>3. CASE v.obs # "missing" /\ k \in Id /\ Acts(m, r, k, k)
      <4>1. Firm(m, k)
        BY <3>2, <3>3 DEF Firm
      <4>2. mr[m].ext # NoId /\ mr[m].ext # ObjName => mr[m].ext = k
        BY <3>1 DEF LookedUp, Sought
      <4> HIDE DEF k
      <4>3. Led(m, mr[m].ext, k)
        BY <3>2, <3>3, <4>2, IdentityAssumption DEF Led, Sought
      <4>4. QED
        BY <1>1, <1>3, <2>2, <3>3, <4>1, <4>3, FoundGuided
    <3>4. ASSUME v.obs # "missing", NEW j \in Counted(m), NEW e, Acts(m, r, e, j),
                 e = j \/ (w.cr.ext = DispName /\ DispName # ObjName /\ e = DispName)
          PROVE  Guides(m)'
      <4>1. j \in Id /\ Leads(m, j)
        BY CountedLeads DEF SeekInv, Counted, Present
      <4>2. Firm(m, e)
        BY <3>4, <4>1 DEF Firm
      <4>3. Sought(mr[m].ext, j) \in {j, Sought(mr[m].ext, mr[m].sid)}
        BY <4>1, IdentityAssumption DEF Sought
      <4>4. Led(m, mr[m].ext, j)
        BY <1>4, <4>1, <4>3 DEF Led
      <4>5. QED
        BY <1>1, <1>3, <2>2, <3>4, <4>2, <4>4, FoundGuided
    <3>5. CASE /\ v.obs = "missing" /\ Acts(m, r, w.cr.ext, w.cr.sid)
               /\ k \in Id => account[k].state # "live"
      BY <1>1, <1>3, <2>2, <3>5, MissedGuided
    <3>6. QED
      BY <3>3, <3>4, <3>5 DEF Discovers
  <2>3. QED
    BY <2>1, <2>2
<1>6. QED
  BY <1>1, <1>2, <1>5, GuidedByOne DEF SeekInv

LEMMA MintsGuided ==
  ASSUME SeekInv, Seeking, kind' = kind, NEW m \in MR, NEW r \in Replica,
         Moved(m, r), Mints(m, r)
  PROVE  GuidedInv'
<1> DEFINE w == work[m][r]
           v == work'[m][r]
<1>1. /\ Framed(m, r) /\ mr' = mr /\ Makes(m, r) /\ FenceInv
      /\ w.pc = "create" /\ v.pc = "annotate" /\ v.cr.sid = w.cr.sid
  BY DEF Moved, Mints, Makes, SeekInv, OneInv
<1>2. m \in Void
  BY <1>1, MakingFenced DEF FenceInv
<1>3. PICK k \in Id :
        /\ account[k].state = "unborn"
        /\ account'[k].state = "live" /\ account'[k].of = m
        /\ \A j \in Id : j # k => account'[j] = account[j]
        /\ \/ v.cr.create = "succeeded" /\ v.cr.ext = k
           \/ v.cr.create = "failed" /\ v.cr.ext = w.cr.ext
  BY DEF Mints
<1>4. \A l \in MR : (Lost(l) => Lost(l)') /\ (l # m => Counted(l)' \subseteq Counted(l))
  BY <1>3 DEF Lost, Counted, Present
<1>5. Lost(m) \/ Counted(m)' \subseteq {k}
  BY <1>2, <1>3 DEF Void, Excused, Dismissed, Seeking, Counted, Present
<1>6. /\ Sole(m) /\ mr[m].create = "pending"
      /\ \A s \in Replica : work[m][s].pc \in Early => work[m][s].stale
  BY <1>1 DEF FenceInv, Fence, Fenced, Minting
<1>7. \A s \in Replica : s # r => work[m][s].pc \notin Minting
  BY <1>1, <1>6 DEF Sole, Minting
<1>8. \A s \in Replica : work'[m][s].pc # "create"
  BY <1>1, <1>7 DEF Framed, Overtaken, Minting
<1>9. Leads(m, k)'
  BY <1>4, <1>5, <1>8 DEF Leads
<1>10. Led(m, mr[m].ext, mr[m].sid) /\ \A s \in Replica : Guided(m, work[m][s])
  BY DEF SeekInv, GuidedInv
<1>11. ASSUME NEW e, NEW s, Led(m, e, s), Sought(e, s) \in Id PROVE Lost(m)'
  BY <1>1, <1>4, <1>11 DEF Led, Leads
<1>12. Led(m, mr[m].ext, mr[m].sid)'
  <2>1. Sought(mr[m].ext, mr[m].sid) \in Id => Lost(m)'
    BY <1>10, <1>11
  <2>2. QED
    BY <1>1, <2>1 DEF Led, Leads
<1>13. Guided(m, work[m][r])'
  <2>1. Led(m, mr[m].ext, w.cr.sid) /\ w.cr.ext = mr[m].ext
    BY <1>1, <1>10 DEF Guided, Minting
  <2>2. Sought(mr[m].ext, w.cr.sid) \in Id => Lost(m)'
    BY <1>11, <2>1
  <2>3. Led(m, mr[m].ext, work[m][r].cr.sid)'
    BY <1>1, <2>2 DEF Led, Leads
  <2>4. v.cr.create = "succeeded" => Firm(m, work[m][r].cr.ext)'
    BY <1>3, <1>9 DEF Firm
  <2>5. v.cr.create # "succeeded" => v.cr.ext = mr'[m].ext
    BY <1>1, <1>3, <2>1
  <2>6. QED
    BY <1>1, <2>3, <2>4, <2>5 DEF Guided, Unmoved
<1>14. ASSUME NEW s \in Replica, s # r PROVE Guided(m, work[m][s])'
  <2>1. /\ work'[m][s].pc = work[m][s].pc /\ work'[m][s].cr = work[m][s].cr
        /\ work[m][s].stale => work'[m][s].stale
    BY <1>1, <1>14 DEF Framed, Overtaken
  <2>2. CASE work'[m][s].stale \/ work'[m][s].pc = "idle"
    BY <1>7, <1>14, <2>1, <2>2 DEF Guided, Unmoved, Minting
  <2>3. CASE ~work'[m][s].stale /\ work'[m][s].pc # "idle"
    <3>1. work'[m][s].pc \notin Early \cup Minting
      BY <1>6, <1>7, <1>14, <2>1, <2>3
    <3>2. Led(m, mr[m].ext, work[m][s].cr.sid)
      BY <1>10, <2>1, <2>3 DEF Guided
    <3>3. Sought(mr[m].ext, work[m][s].cr.sid) \in Id => Lost(m)'
      BY <1>11, <3>2
    <3>4. Led(m, mr[m].ext, work[m][s].cr.sid)'
      BY <1>1, <2>1, <3>3 DEF Led, Leads
    <3>5. QED
      BY <3>1, <3>4 DEF Guided, Unmoved, Early, Minting
  <2>4. QED
    BY <2>2, <2>3
<1>15. Guides(m)'
  BY <1>12, <1>13, <1>14 DEF Guides
<1>16. QED
  BY <1>1, <1>4, <1>15, GuidedByOne DEF SeekInv

LEMMA DwindlesSteady ==
  ASSUME Dwindles, kind' = kind
  PROVE  \A l \in MR : (Lost(l) => Lost(l)') /\ Counted(l)' \subseteq Counted(l)
<1>1. ASSUME NEW l \in MR, Lost(l) PROVE Lost(l)'
  BY <1>1 DEF Lost, Dwindles, Fades
<1>2. ASSUME NEW l \in MR PROVE Counted(l)' \subseteq Counted(l)
  BY DEF Counted, Present, Dwindles, Fades
<1>3. QED
  BY <1>1, <1>2

LEMMA CeasesGuided ==
  ASSUME SeekInv, kind' = kind, NEW m \in MR, NEW r \in Replica, Moved(m, r), Ceases(m, r)
  PROVE  GuidedInv'
<1> DEFINE w == work[m][r]
           v == work'[m][r]
<1>1. /\ Framed(m, r) /\ mr' = mr /\ Dwindles
      /\ w.pc # "idle" /\ v.pc = "status" /\ (v.stale <=> w.stale) /\ v.cr.sid = w.cr.sid
  BY DEF Moved, Ceases, Stops
<1>2. \A l \in MR : (Lost(l) => Lost(l)') /\ Counted(l)' \subseteq Counted(l)
  BY <1>1, DwindlesSteady
<1>3. Steady(m)
  BY <1>1, <1>2 DEF Steady, Framed, Overtaken
<1>4. Led(m, mr[m].ext, mr[m].sid) /\ Guided(m, w)
  BY DEF SeekInv, GuidedInv
<1>5. Led(m, mr[m].ext, mr[m].sid)'
  BY <1>1, <1>3, <1>4, LeadsStays DEF Led
<1>6. ~v.stale => Led(m, mr[m].ext, work[m][r].cr.sid)'
  BY <1>1, <1>3, <1>4, LeadsStays DEF Guided, Led
<1>7. Guided(m, work[m][r])'
  BY <1>1, <1>6 DEF Guided, Unmoved, Minting
<1>8. Guides(m)'
  BY <1>1, <1>3, <1>5, <1>7, GuidesBeside DEF SeekInv
<1>9. QED
  BY <1>1, <1>2, <1>8, GuidedByOne DEF SeekInv

LEMMA SeeksGuided ==
  ASSUME SeekInv, States, Seeking, Seeks, kind' = kind
  PROVE  GuidedInv'
<1>1. RuntimeTypeOK /\ OneInv /\ GuidedInv
  BY DEF SeekInv, OneInv
<1>2. ASSUME NEW m \in MR, NEW r \in Replica, SecretlessStep(m, r), account' = account
      PROVE  GuidedInv'
  BY <1>1, <1>2, LoopGuided
<1>3. ASSUME NEW m \in MR, NEW r \in Replica, Tells(m, r)
      PROVE  GuidedInv'
  BY <1>3, DiscoversGuided, MintsGuided, CeasesGuided DEF Tells
<1>4. ASSUME NEW m \in MR, RequestDelete(m) \/ Respecify(m) \/ ClearPending(m),
             account' = account
      PROVE  GuidedInv'
  <2>1. PICK r : r \notin Replica
    BY NoSetContainsEverything
  <2>2. Framed(m, r) /\ mr'[m].ext = mr[m].ext /\ mr'[m].sid = mr[m].sid
    BY <1>1, <1>4, <2>1, UserMoves, UserIdentifiers
  <2>3. \A l \in MR : (Lost(l) => Lost(l)') /\ Counted(l)' \subseteq Counted(l)
    BY <1>4 DEF Lost, Counted, Present
  <2>4. Steady(m)
    BY <2>1, <2>2, <2>3 DEF Steady, Framed, Overtaken
  <2>5. Led(m, mr[m].ext, mr[m].sid)'
    BY <1>1, <2>2, <2>4, LeadsStays DEF GuidedInv, Led
  <2>6. Guides(m)'
    BY <1>1, <2>1, <2>2, <2>4, <2>5, GuidesBeside
  <2>7. QED
    BY <1>1, <2>2, <2>3, <2>6, GuidedByOne
<1>5. CASE UNCHANGED runtimeVars /\ Dwindles
  <2>1. \A l \in MR : (Lost(l) => Lost(l)') /\ Counted(l)' \subseteq Counted(l)
    BY <1>5, DwindlesSteady
  <2>2. mr' = mr /\ work' = work
    BY <1>5 DEF runtimeVars
  <2>3. ASSUME NEW l \in MR PROVE Guides(l)'
    <3>1. Steady(l) /\ \A s \in Replica : Overtaken(work'[l][s], work[l][s], FALSE)
      BY <2>1, <2>2 DEF Steady, Overtaken
    <3>2. QED
      BY <1>1, <2>2, <3>1, GuidesElsewhere
  <2>4. QED
    BY <2>3 DEF Guides, GuidedInv
<1>6. QED
  BY <1>2, <1>3, <1>4, <1>5 DEF Seeks

\* So what these kinds report as missing is missing, and they evolve as all others.
LEMMA SeeksEvolves ==
  ASSUME SeekInv, Seeking, Seeks, kind' = kind
  PROVE  Besides /\ Evolves(Void)
<1>1. ASSUME NEW m \in MR, NEW r \in Replica, Tells(m, r)
      PROVE  Handles(m, r, m \in Void)
  <2> DEFINE w == work[m][r]
             v == work'[m][r]
             k == LookedUp(w.cr)
  <2>1. CASE Discovers(m, r)
    <3>1. ASSUME v.obs = "missing", ~v.stale PROVE m \in Void
      <4>1. w.pc = "observe" /\ ~w.stale
        BY <2>1, <3>1 DEF Discovers, Acts
      <4>2. w.cr.ext = mr[m].ext /\ w.cr.sid = mr[m].sid /\ Led(m, mr[m].ext, mr[m].sid)
        BY <4>1 DEF SeekInv, GuidedInv, Guided, Unmoved
      <4>3. CASE k \notin Id
        BY <2>1, <3>1, <4>3 DEF Discovers, Void
      <4>4. CASE k \in Id
        <5>1. account[k].state # "live"
          BY <2>1, <3>1, <4>4 DEF Discovers
        <5>2. Leads(m, k)
          BY <4>2, <4>4 DEF LookedUp, Led
        <5> HIDE DEF k
        <5>3. Lost(m) \/ Counted(m) = {}
          BY <5>1, <5>2 DEF Leads, Counted, Present
        <5>4. QED
          BY <5>3 DEF Void, Excused, Seeking
      <4>5. QED
        BY <4>3, <4>4
    <3>2. Looks(m, r, m \in Void)
      BY <2>1, <3>1 DEF Discovers, Looks
    <3>3. QED
      BY <1>1, <2>1, <3>2 DEF Tells, Discovers, Handles
  <2>2. CASE Mints(m, r)
    BY <1>1, <2>2 DEF Tells, Mints, Grows, Handles
  <2>3. CASE Ceases(m, r)
    BY <1>1, <2>3 DEF Tells, Ceases, Dwindles, Handles
  <2>4. QED
    BY <1>1, <2>1, <2>2, <2>3 DEF Tells
<1>2. Evolves(Void)
  BY <1>1 DEF Seeks, Evolves, Edits, Dwindles
<1>3. Besides
  <2>1. CASE account' = account
    BY <2>1 DEF Besides, Seeking
  <2>2. CASE Dwindles
    BY <2>2 DEF Besides, Seeking, Dwindles
  <2>3. ASSUME NEW m \in MR, NEW r \in Replica, Mints(m, r) PROVE Besides
    <3>1. PICK k \in Id : /\ account[k].state = "unborn"
                          /\ \A j \in Id : j # k => account'[j] = account[j]
      BY <2>3 DEF Mints
    <3>2. QED
      BY <3>1 DEF Besides, Seeking
  <2>4. QED
    BY <2>1, <2>2, <2>3 DEF Seeks, Tells, Discovers, Ceases
<1>4. QED
  BY <1>2, <1>3

LEMMA SeekStays ==
  ASSUME SeekInv, States, Seeking, Seeks, kind' = kind
  PROVE  SeekInv' /\ LetsGoVoid
<1>1. OneInv' /\ LetsGoVoid
  BY SeeksEvolves, OneStays DEF SeekInv
<1>2. OwnsInv' /\ GroundedInv' /\ GuidedInv'
  BY SeeksOwns, SeeksGrounded, SeeksGuided DEF SeekInv
<1>3. QED
  BY <1>1, <1>2 DEF SeekInv

-----------------------------------------------------------------------------
(* All kinds together *)

\* The kinds of which an account has one, whatever the manifests say.
AlwaysThere == {"account", "dns setting"}

\* What is inside a network looks for its network by name, and finds one at most.
Parented == {"resource", "group router", "peer router"}

Unambiguous == kind \in Parented => LoneParent

\* The types of the kind that was chosen, and what they rest on.
KindTyped ==
  \/ /\ kind = "resource"
     /\ LoneParent /\ Typed(Desired, Names, Place(Net, Desired)) /\ Sheltered(Net)
  \/ /\ kind = "group router"
     /\ LoneParent /\ Typed({Spec0}, Names, Place(Initial, {Spec0}))
     /\ Sheltered(Initial) /\ group \in {"unborn", "live", "deleted"} /\ Sourced
  \/ /\ kind = "peer router"
     /\ LoneParent /\ Typed(Desired, Names, Place(Initial, Desired))
     /\ Sheltered(Initial) /\ group \in {"unborn", "live", "deleted"}
  \/ kind = "group" /\ Typed({Spec0}, ExtName, Thing({Spec0}))
  \/ kind = "name server" /\ Typed(Role, Names, Thing(Role))
  \/ kind = "policy" /\ Typed(Role, Names, Thing(PolicyRules))
  \/ kind = "mixed policy" /\ Typed({Spec0}, Names, Thing(MixedRules))
  \/ kind = "service user" /\ Typed(Role, ExtName, Thing(ServiceUsers))
  \/ kind = "person" /\ Typed({Spec0}, ExtName, Thing(Persons))
  \/ kind = "account" /\ RuntimeTypeOK /\ account \in Desired /\ Unmissed
  \/ kind = "dns setting" /\ RuntimeTypeOK /\ account \in Desired /\ Unmissed

\* What a step is to objects of the kind.
KindMoves ==
  /\ Seeking => Seeks
  /\ ~Seeking /\ kind \notin AlwaysThere => Besides /\ Evolves(Void)
  /\ kind = "account" => LetsGo(Desired \ {Spec0})
  /\ kind = "dns setting" => LetsGo(Odd)

\* The resources that have nothing, kind by kind.
LEMMA VoidByKind ==
  /\ kind \notin {"person", "group router", "group", "service user"} =>
       Void = {l \in MR : Present(l) = {}}
  /\ kind = "group router" => Void = {l \in MR : Present(l) = {} \/ group = "deleted"}
  /\ kind = "person" => Void = MR
<1>1. kind # "service user" => \A l \in MR : Counted(l) = Present(l)
  BY DEF Counted, Present
<1>2. QED
  BY <1>1 DEF Void, Excused, Dismissed

LEMMA KindTypes == KindTyped => TypeOK
<1> SUFFICES ASSUME KindTyped PROVE TypeOK
  OBVIOUS
<1>1. CASE kind = "resource"
  BY <1>1, NetResourceTypes DEF KindTyped, TypeOK, Sheltered
<1>2. CASE kind = "group router"
  BY <1>2, GroupRouterTypes DEF KindTyped, TypeOK, Sheltered
<1>3. CASE kind = "peer router"
  BY <1>3, PeerRouterTypes DEF KindTyped, TypeOK, Sheltered
<1>4. CASE kind = "group"
  BY <1>4, GroupTypes DEF KindTyped, TypeOK
<1>5. CASE kind = "name server"
  BY <1>5, NameServerTypes DEF KindTyped, TypeOK
<1>6. CASE kind = "policy"
  BY <1>6, PolicyTypes DEF KindTyped, TypeOK
<1>7. CASE kind = "mixed policy"
  BY <1>7, MixedPolicyTypes DEF KindTyped, TypeOK
<1>8. CASE kind = "service user"
  BY <1>8, ServiceUserTypes DEF KindTyped, TypeOK
<1>9. CASE kind = "person"
  BY <1>9, PersonTypes DEF KindTyped, TypeOK
<1>10. CASE kind = "account"
  BY <1>10, AccountTypes DEF KindTyped, TypeOK
<1>11. CASE kind = "dns setting"
  BY <1>11, DnsSettingTypes DEF KindTyped, TypeOK
<1>12. QED
  BY <1>1, <1>2, <1>3, <1>4, <1>5, <1>6, <1>7, <1>8, <1>9, <1>10, <1>11 DEF KindTyped

LEMMA KindOpens ==
  ASSUME Init, Unambiguous
  PROVE  /\ KindTyped /\ (kind \notin AlwaysThere => Opens)
         /\ kind = "service user" => Unimported
<1>1. CASE kind = "resource"
  BY <1>1, NetResourceOpens DEF Init, KindTyped, AlwaysThere, Unambiguous, Parented
<1>2. CASE kind = "group router"
  BY <1>2, GroupRouterOpens DEF Init, KindTyped, AlwaysThere, Unambiguous, Parented
<1>3. CASE kind = "peer router"
  BY <1>3, PeerRouterOpens DEF Init, KindTyped, AlwaysThere, Unambiguous, Parented
<1>4. CASE kind = "group"
  BY <1>4, GroupOpens DEF Init, KindTyped, AlwaysThere, Unambiguous, Parented
<1>5. CASE kind = "name server"
  BY <1>5, NameServerOpens DEF Init, KindTyped, AlwaysThere, Unambiguous, Parented
<1>6. CASE kind = "policy"
  BY <1>6, PolicyOpens DEF Init, KindTyped, AlwaysThere, Unambiguous, Parented
<1>7. CASE kind = "mixed policy"
  BY <1>7, MixedPolicyOpens DEF Init, KindTyped, AlwaysThere, Unambiguous, Parented
<1>8. CASE kind = "service user"
  BY <1>8, ServiceUserOpens DEF Init, KindTyped, AlwaysThere, Unambiguous, Parented
<1>9. CASE kind = "person"
  BY <1>9, PersonOpens DEF Init, KindTyped, AlwaysThere, Unambiguous, Parented
<1>10. CASE kind = "account"
  BY <1>10, AccountOpens DEF Init, KindTyped, AlwaysThere, Unambiguous, Parented
<1>11. CASE kind = "dns setting"
  BY <1>11, DnsSettingOpens DEF Init, KindTyped, AlwaysThere, Unambiguous, Parented
<1>12. QED
  BY <1>1, <1>2, <1>3, <1>4, <1>5, <1>6, <1>7, <1>8, <1>9, <1>10, <1>11 DEF Init

LEMMA KindSteps ==
  ASSUME KindTyped, Next
  PROVE  KindTyped' /\ KindMoves
<1>1. kind' = kind /\ KindNext
  BY DEF Next
<1>2. CASE kind = "resource"
  <2>1. NetResource!Next
    BY <1>1, <1>2 DEF KindNext
  <2>2. /\ Typed(Desired, Names, Place(Net, Desired))' /\ Sheltered(Net)'
        /\ Evolves({l \in MR : Present(l) = {}})
    BY <1>2, <2>1, NetResourceSteps DEF KindTyped
  <2>3. Besides /\ Evolves(Void)
    BY <1>1, <1>2, <2>2, VoidByKind DEF Besides
  <2>4. QED
    BY <1>1, <1>2, <2>2, <2>3 DEF KindTyped, KindMoves, Seeking, AlwaysThere
<1>3. CASE kind = "group router"
  <2>1. GroupRouter!Next
    BY <1>1, <1>3 DEF KindNext
  <2>2. /\ Typed({Spec0}, Names, Place(Initial, {Spec0}))' /\ Sheltered(Initial)'
        /\ (group \in {"unborn", "live", "deleted"})' /\ Sourced'
        /\ Evolves({l \in MR : Present(l) = {} \/ group = "deleted"})
        /\ (group # "live" => Fades) /\ (group = "deleted" => group' = "deleted")
    BY <1>3, <2>1, GroupRouterSteps DEF KindTyped
  <2>3. Besides /\ Evolves(Void)
    BY <1>1, <1>3, <2>2, VoidByKind DEF Besides
  <2>4. QED
    BY <1>1, <1>3, <2>2, <2>3 DEF KindTyped, KindMoves, Seeking, AlwaysThere
<1>4. CASE kind = "peer router"
  <2>1. PeerRouter!Next
    BY <1>1, <1>4 DEF KindNext
  <2>2. /\ Typed(Desired, Names, Place(Initial, Desired))' /\ Sheltered(Initial)'
        /\ (group \in {"unborn", "live", "deleted"})'
        /\ Evolves({l \in MR : Present(l) = {}})
    BY <1>4, <2>1, PeerRouterSteps DEF KindTyped
  <2>3. Besides /\ Evolves(Void)
    BY <1>1, <1>4, <2>2, VoidByKind DEF Besides
  <2>4. QED
    BY <1>1, <1>4, <2>2, <2>3 DEF KindTyped, KindMoves, Seeking, AlwaysThere
<1>5. CASE kind = "group"
  <2>1. Group!Next
    BY <1>1, <1>5 DEF KindNext
  <2>2. /\ Typed({Spec0}, ExtName, Thing({Spec0}))' /\ Seeks
    BY <1>5, <2>1, GroupSteps DEF KindTyped
  <2>3. QED
    BY <1>1, <1>5, <2>2 DEF KindTyped, KindMoves, Seeking, AlwaysThere
<1>6. CASE kind = "name server"
  <2>1. NameServer!Next
    BY <1>1, <1>6 DEF KindNext
  <2>2. /\ Typed(Role, Names, Thing(Role))' /\ Evolves({l \in MR : Present(l) = {}})
    BY <1>6, <2>1, NameServerSteps DEF KindTyped
  <2>3. Besides /\ Evolves(Void)
    BY <1>1, <1>6, <2>2, VoidByKind DEF Besides
  <2>4. QED
    BY <1>1, <1>6, <2>2, <2>3 DEF KindTyped, KindMoves, Seeking, AlwaysThere
<1>7. CASE kind = "policy"
  <2>1. Policy!Next
    BY <1>1, <1>7 DEF KindNext
  <2>2. /\ Typed(Role, Names, Thing(PolicyRules))'
        /\ Evolves({l \in MR : Present(l) = {}})
    BY <1>7, <2>1, PolicySteps DEF KindTyped
  <2>3. Besides /\ Evolves(Void)
    BY <1>1, <1>7, <2>2, VoidByKind DEF Besides
  <2>4. QED
    BY <1>1, <1>7, <2>2, <2>3 DEF KindTyped, KindMoves, Seeking, AlwaysThere
<1>8. CASE kind = "mixed policy"
  <2>1. MixedPolicy!Next
    BY <1>1, <1>8 DEF KindNext
  <2>2. /\ Typed({Spec0}, Names, Thing(MixedRules))'
        /\ Evolves({l \in MR : Present(l) = {}})
    BY <1>8, <2>1, MixedPolicySteps DEF KindTyped
  <2>3. Besides /\ Evolves(Void)
    BY <1>1, <1>8, <2>2, VoidByKind DEF Besides
  <2>4. QED
    BY <1>1, <1>8, <2>2, <2>3 DEF KindTyped, KindMoves, Seeking, AlwaysThere
<1>9. CASE kind = "service user"
  <2>1. ServiceUser!Next
    BY <1>1, <1>9 DEF KindNext
  <2>2. /\ Typed(Role, ExtName, Thing(ServiceUsers))' /\ Seeks
    BY <1>9, <2>1, ServiceUserSteps DEF KindTyped
  <2>3. QED
    BY <1>1, <1>9, <2>2 DEF KindTyped, KindMoves, Seeking, AlwaysThere
<1>10. CASE kind = "person"
  <2>1. Person!Next
    BY <1>1, <1>10 DEF KindNext
  <2>2. /\ Typed({Spec0}, ExtName, Thing(Persons))' /\ Evolves(MR)
    BY <1>10, <2>1, PersonSteps DEF KindTyped
  <2>3. Besides /\ Evolves(Void)
    BY <1>1, <1>10, <2>2, VoidByKind DEF Besides
  <2>4. QED
    BY <1>1, <1>10, <2>2, <2>3 DEF KindTyped, KindMoves, Seeking, AlwaysThere
<1>11. CASE kind = "account"
  <2>1. Account!Next
    BY <1>1, <1>11 DEF KindNext
  <2>2. /\ RuntimeTypeOK' /\ (account \in Desired)' /\ Unmissed'
        /\ LetsGo(Desired \ {Spec0})
    BY <1>11, <2>1, AccountSteps DEF KindTyped
  <2>3. QED
    BY <1>1, <1>11, <2>2 DEF KindTyped, KindMoves, Seeking, AlwaysThere
<1>12. CASE kind = "dns setting"
  <2>1. DnsSetting!Next
    BY <1>1, <1>12 DEF KindNext
  <2>2. /\ RuntimeTypeOK' /\ (account \in Desired)' /\ Unmissed' /\ LetsGo(Odd)
    BY <1>12, <2>1, DnsSettingSteps DEF KindTyped
  <2>3. QED
    BY <1>1, <1>12, <2>2 DEF KindTyped, KindMoves, Seeking, AlwaysThere
<1>13. QED
  BY <1>2, <1>3, <1>4, <1>5, <1>6, <1>7, <1>8, <1>9, <1>10, <1>11, <1>12 DEF KindTyped

\* So is a step of which nothing can be seen.
LEMMA KindStutters ==
  ASSUME KindTyped, UNCHANGED vars
  PROVE  KindTyped' /\ KindMoves
<1>1. /\ UNCHANGED runtimeVars /\ nets' = nets /\ parent' = parent
      /\ kind' = kind /\ account' = account /\ group' = group
  BY DEF vars, parentVars
<1>2. mr' = mr /\ cache' = cache /\ work' = work
  BY <1>1 DEF runtimeVars
<1>3. KindTyped'
  <2>1. RuntimeTypeOK <=> RuntimeTypeOK'
    BY <1>2 DEF RuntimeTypeOK
  <2>2. ASSUME NEW D, NEW E, NEW T, Typed(D, E, T) PROVE Typed(D, E, T)'
    BY <1>1, <1>2, <2>1, <2>2 DEF Typed, Narrow
  <2>3. ASSUME NEW N, Sheltered(N) PROVE Sheltered(N)'
    BY <1>1, <2>3 DEF Sheltered, Inside
  <2>4. (Sourced => Sourced') /\ (Unmissed => Unmissed')
    BY <1>1, <1>2 DEF Sourced, Unmissed
  <2>5. LoneParent => LoneParent'
    BY DEF LoneParent
  <2>6. account' = account /\ group' = group /\ kind' = kind
    BY <1>1
  <2>7. CASE kind \in Parented
    BY <2>2, <2>3, <2>4, <2>5, <2>6, <2>7 DEF KindTyped, Parented
  <2>8. CASE kind \in AlwaysThere
    BY <2>1, <2>4, <2>6, <2>8 DEF KindTyped, AlwaysThere
  <2>9. CASE kind \notin Parented \cup AlwaysThere
    BY <2>2, <2>6, <2>9 DEF KindTyped, Parented, AlwaysThere
  <2>10. QED
    BY <2>7, <2>8, <2>9
<1>4. Fades /\ Dwindles /\ Spares
  BY <1>1 DEF Fades, Dwindles, Spares
<1>5. Seeks /\ Evolves(Void) /\ Besides
  BY <1>1, <1>4 DEF Seeks, Evolves, Edits, Besides
<1>6. \A J : LetsGo(J)
  BY <1>2 DEF LetsGo
<1>7. QED
  BY <1>3, <1>5, <1>6 DEF KindMoves

-----------------------------------------------------------------------------
(* The inductive invariant, and what follows from it *)

\* Objects of a kind that is always there are not counted.
KindInv ==
  /\ KindTyped
  /\ kind \notin AlwaysThere => OneInv
  /\ Seeking => SeekInv

\* No manifest gives a group the identifier of another resource's group.  (It would be
\* adopted, and deleted with either resource, behind the back of the other.)
GroupsImportTheirOwn == kind = "group" => ImportsItsOwn

LEMMA KindInvOpens ==
  ASSUME Init, Unambiguous, GroupsImportTheirOwn
  PROVE  KindInv
<1>1. KindTyped /\ (kind \notin AlwaysThere => OneInv)
  BY KindOpens, OpensOne
<1>2. Seeking => ImportsItsOwn /\ Opens
  BY KindOpens DEF Seeking, AlwaysThere, GroupsImportTheirOwn, Unimported, ImportsItsOwn
<1>3. QED
  BY <1>1, <1>2, OpensSeek DEF KindInv

LEMMA KindInvStays ==
  ASSUME KindInv, [Next]_vars
  PROVE  KindInv' /\ KindMoves /\ (kind \notin AlwaysThere => LetsGoVoid)
<1>1. KindTyped' /\ KindMoves /\ kind' = kind
  <2>1. CASE Next
    BY <2>1, KindSteps DEF KindInv, Next
  <2>2. CASE UNCHANGED vars
    BY <2>2, KindStutters DEF KindInv, vars
  <2>3. QED
    BY <2>1, <2>2
<1>2. CASE Seeking
  <2>1. States
    <3>1. \E C : account \in [Id -> Thing(C)]
      BY <1>2 DEF KindInv, KindTyped, Seeking, Typed
    <3>2. QED
      BY <3>1 DEF Thing, States
  <2>2. SeekInv' /\ LetsGoVoid
    BY <1>1, <1>2, <2>1, SeekStays DEF KindInv, KindMoves
  <2>3. QED
    BY <1>1, <2>2 DEF KindInv, SeekInv
<1>3. CASE ~Seeking /\ kind \notin AlwaysThere
  <2>1. OneInv' /\ LetsGoVoid
    BY <1>1, <1>3, OneStays DEF KindInv, KindMoves
  <2>2. QED
    BY <1>1, <1>3, <2>1 DEF KindInv, Seeking
<1>4. CASE kind \in AlwaysThere
  BY <1>1, <1>4 DEF KindInv, Seeking, AlwaysThere
<1>5. QED
  BY <1>2, <1>3, <1>4

LEMMA KindInvOne == KindInv => AtMostOne
<1> SUFFICES ASSUME KindInv PROVE AtMostOne
  OBVIOUS
<1>1. kind \notin AlwaysThere => One
  BY DEF KindInv, OneInv
<1>2. CASE kind = "resource"
  BY <1>1, <1>2
  DEF AtMostOne, One, Excused, Counted, Present, AlwaysThere,
      NetResource!AtMostOneResource, NetResource!Live, NetResource!Named
<1>3. CASE kind = "group router"
  BY <1>1, <1>3
  DEF AtMostOne, One, Excused, Counted, Present, AlwaysThere,
      GroupRouter!AtMostOneRouter, GroupRouter!Live, GroupRouter!OwnedBy
<1>4. CASE kind = "peer router"
  BY <1>1, <1>4
  DEF AtMostOne, One, Excused, Counted, Present, AlwaysThere,
      PeerRouter!AtMostOneRouter, PeerRouter!Live, PeerRouter!OwnedBy
<1>5. CASE kind = "group"
  BY <1>1, <1>5
  DEF AtMostOne, One, Excused, Counted, Present, AlwaysThere, Group!AtMostOneGroup,
      Group!ObjectsOf, Group!Live, Group!Named, Group!Lost, Lost
<1>6. CASE kind = "name server"
  BY <1>1, <1>6
  DEF AtMostOne, One, Excused, Counted, Present, AlwaysThere,
      NameServer!AtMostOneObject, NameServer!ObjectsOf, NameServer!Live,
      NameServer!Named
<1>7. CASE kind = "policy"
  BY <1>1, <1>7
  DEF AtMostOne, One, Excused, Counted, Present, AlwaysThere,
      Policy!AtMostOneObject, Policy!ObjectsOf, Policy!Live, Policy!Named
<1>8. CASE kind = "mixed policy"
  BY <1>1, <1>8
  DEF AtMostOne, One, Excused, Counted, Present, AlwaysThere,
      MixedPolicy!AtMostOneObject, MixedPolicy!ObjectsOf, MixedPolicy!Live,
      MixedPolicy!Named
<1>9. CASE kind = "service user"
  BY <1>1, <1>9
  DEF AtMostOne, One, Excused, Counted, Present, AlwaysThere,
      ServiceUser!AtMostOneUser, ServiceUser!ObjectsOf, ServiceUser!Live,
      ServiceUser!Named, ServiceUser!Lost, ServiceUser!Renamed, Lost
<1>10. CASE kind = "person"
  BY <1>10 DEF AtMostOne
<1>11. CASE kind = "account"
  BY <1>11 DEF AtMostOne
<1>12. CASE kind = "dns setting"
  BY <1>12 DEF AtMostOne
<1>13. QED
  BY <1>2, <1>3, <1>4, <1>5, <1>6, <1>7, <1>8, <1>9, <1>10, <1>11, <1>12
  DEF KindInv, KindTyped

LEMMA KindInvRemains ==
  ASSUME KindInv, KindMoves, kind \notin AlwaysThere => LetsGoVoid,
         NEW m \in MR, mr[m].phase = "deleting", mr'[m].phase = "gone"
  PROVE  LeavesNothing(m)
<1>1. kind \notin AlwaysThere => m \in Void
  BY DEF LetsGoVoid
<1>2. CASE kind = "resource"
  BY <1>1, <1>2
  DEF LeavesNothing, Void, Excused, Dismissed, Counted, Present, AlwaysThere,
      NetResource!LeavesNothing, NetResource!Live, NetResource!Named
<1>3. CASE kind = "group router"
  BY <1>1, <1>3
  DEF LeavesNothing, Void, Excused, Dismissed, Counted, Present, AlwaysThere,
      GroupRouter!LeavesNothing, GroupRouter!Live, GroupRouter!OwnedBy,
      GroupRouter!Resolves
<1>4. CASE kind = "peer router"
  BY <1>1, <1>4
  DEF LeavesNothing, Void, Excused, Dismissed, Counted, Present, AlwaysThere,
      PeerRouter!LeavesNothing, PeerRouter!Live, PeerRouter!OwnedBy,
      PeerRouter!Resolves
<1>5. CASE kind = "group"
  BY <1>1, <1>5
  DEF LeavesNothing, Void, Excused, Dismissed, Counted, Present, AlwaysThere,
      Group!LeavesNothing, Group!ObjectsOf, Group!Live, Group!Named, Group!Lost,
      Lost
<1>6. CASE kind = "name server"
  BY <1>1, <1>6
  DEF LeavesNothing, Void, Excused, Dismissed, Counted, Present, AlwaysThere,
      NameServer!LeavesNothing, NameServer!ObjectsOf, NameServer!Live,
      NameServer!Named
<1>7. CASE kind = "policy"
  BY <1>1, <1>7
  DEF LeavesNothing, Void, Excused, Dismissed, Counted, Present, AlwaysThere,
      Policy!LeavesNothing, Policy!ObjectsOf, Policy!Live, Policy!Named
<1>8. CASE kind = "mixed policy"
  BY <1>1, <1>8
  DEF LeavesNothing, Void, Excused, Dismissed, Counted, Present, AlwaysThere,
      MixedPolicy!LeavesNothing, MixedPolicy!ObjectsOf, MixedPolicy!Live,
      MixedPolicy!Named
<1>9. CASE kind = "service user"
  BY <1>1, <1>9
  DEF LeavesNothing, Void, Excused, Dismissed, Counted, Present, AlwaysThere,
      ServiceUser!LeavesNothing, ServiceUser!ObjectsOf, ServiceUser!Live,
      ServiceUser!Named, ServiceUser!Lost, ServiceUser!Listed, Lost
<1>10. CASE kind = "person"
  BY <1>10 DEF LeavesNothing, Person!LeavesNothing
<1>11. CASE kind = "account"
  BY <1>11 DEF KindMoves, LetsGo, LeavesNothing, Account!LeavesNothing
<1>12. CASE kind = "dns setting"
  BY <1>12 DEF KindMoves, LetsGo, LeavesNothing, DnsSetting!LeavesNothing
<1>13. QED
  BY <1>2, <1>3, <1>4, <1>5, <1>6, <1>7, <1>8, <1>9, <1>10, <1>11, <1>12
  DEF KindInv, KindTyped

\* The declared types hold in every reachable state of each controller that netbird.go
\* sets up, whatever calls fail and whoever else edits.
THEOREM KindTypeCorrect ==
  Spec /\ Unambiguous => []TypeOK
<1>1. Init /\ Unambiguous => KindTyped
  BY KindOpens
<1>2. KindTyped /\ [Next]_vars => KindTyped'
  BY KindSteps, KindStutters
<1>3. KindTyped => TypeOK
  BY KindTypes
<1>4. QED
  BY <1>1, <1>2, <1>3, PTL DEF Spec

\* The inductive invariant: types, the fence of a pending create, what a worker with a
\* current copy knows, one object for each resource; and for groups and service users
\* that no identifier which is stored, or may still be, leads past an object.
THEOREM KindInvariant ==
  Spec /\ Unambiguous /\ GroupsImportTheirOwn => []KindInv
<1>1. Init /\ Unambiguous /\ GroupsImportTheirOwn => KindInv
  BY KindInvOpens
<1>2. KindInv /\ [Next]_vars => KindInv'
  BY KindInvStays
<1>3. QED
  BY <1>1, <1>2, PTL DEF Spec

\* An object never has two of what it manages at NetBird, in any of these controllers:
\* Create's announcement and the search by name keep a create whose outcome was lost
\* from being repeated, across restarts, lagging caches and a second replica.
THEOREM KindAtMostOne ==
  Spec /\ Unambiguous /\ GroupsImportTheirOwn => []AtMostOne
BY KindInvariant, KindInvOne, PTL

\* A deleted object is let go only when what it managed is gone, or may stay: no worker
\* with an old copy takes Observe's word for an object that another one is creating.
THEOREM KindReleased ==
  Spec /\ Unambiguous /\ GroupsImportTheirOwn => ReleasedWithoutRemains
<1> DEFINE Safely == \A m \in MR : mr[m].phase = "deleting" /\ mr'[m].phase = "gone" =>
                                     LeavesNothing(m)
<1>1. KindInv /\ [Next]_vars => [Safely]_vars
  BY KindInvStays, KindInvRemains
<1>2. QED
  BY <1>1, KindInvariant, PTL DEF Spec, ReleasedWithoutRemains
=============================================================================
