------------------------ MODULE ManagedReconcilerProofs ------------------------
(***************************************************************************)
(* What the steps of the managed reconciler do to the objects, caches and  *)
(* workers, for every kind and any number of resources and replicas.       *)
(***************************************************************************)
EXTENDS ManagedReconciler, TLAPS

(* How the three ways of writing change the state, point by point *)

\* A worker that moves on without a write changes nothing but itself.
LEMMA GoEffect ==
  ASSUME RuntimeTypeOK, NEW m \in MR, NEW r \in Replica, NEW w \in Work, Go(m, r, w)
  PROVE  /\ mr' = mr /\ cache' = cache
         /\ work' \in [MR -> [Replica -> Work]]
         /\ work'[m][r] = w
         /\ \A l \in MR, s \in Replica : l # m \/ s # r => work'[l][s] = work[l][s]
BY DEF RuntimeTypeOK, Go

\* v is w, or w with its "stale" flag raised; if the object changed under a
\* worker that is not idle, the flag is up.
Overtaken(v, w, changed) ==
  /\ v.pc = w.pc /\ v.cr = w.cr /\ v.obs = w.obs
  /\ w.stale => v.stale
  /\ changed /\ w.pc # "idle" => v.stale

LEMMA OutdateEffect ==
  ASSUME RuntimeTypeOK, NEW m \in MR, NEW s \in Replica, NEW o
  PROVE  /\ Outdate(work[m][s], o # mr[m]) \in Work
         /\ Overtaken(Outdate(work[m][s], o # mr[m]), work[m][s], o # mr[m])
<1>1. work[m][s] \in Work
  BY DEF RuntimeTypeOK
<1>2. CASE o # mr[m] /\ work[m][s].pc # "idle"
  BY <1>1, <1>2 DEF Outdate, Overtaken, Work
<1>3. CASE ~(o # mr[m] /\ work[m][s].pc # "idle")
  BY <1>1, <1>3 DEF Outdate, Overtaken, Work
<1>4. QED
  BY <1>2, <1>3

\* A worker's write replaces its object and overtakes the other workers of it.
LEMMA CommitEffect ==
  ASSUME RuntimeTypeOK, NEW m \in MR, NEW r \in Replica, NEW w \in Work,
         NEW o \in Object, Commit(m, r, o, w)
  PROVE  /\ cache' = cache
         /\ mr' = [mr EXCEPT ![m] = o]
         /\ work' \in [MR -> [Replica -> Work]]
         /\ work'[m][r] = w
         /\ \A s \in Replica : s # r => Overtaken(work'[m][s], work[m][s], o # mr[m])
         /\ \A l \in MR, s \in Replica : l # m => work'[l][s] = work[l][s]
<1>1. \A s \in Replica : /\ Outdate(work[m][s], o # mr[m]) \in Work
                         /\ Overtaken(Outdate(work[m][s], o # mr[m]), work[m][s], o # mr[m])
  BY OutdateEffect
<1>2. [s \in Replica |-> IF s = r THEN w ELSE Outdate(work[m][s], o # mr[m])]
        \in [Replica -> Work]
  BY <1>1
<1>3. QED
  BY <1>1, <1>2 DEF RuntimeTypeOK, Commit

\* So does the write of a user or an operator, for all workers.
LEMMA EditEffect ==
  ASSUME RuntimeTypeOK, NEW m \in MR, NEW o \in Object, Edit(m, o)
  PROVE  /\ cache' = cache
         /\ mr' = [mr EXCEPT ![m] = o]
         /\ work' \in [MR -> [Replica -> Work]]
         /\ \A s \in Replica : Overtaken(work'[m][s], work[m][s], o # mr[m])
         /\ \A l \in MR, s \in Replica : l # m => work'[l][s] = work[l][s]
<1>1. \A s \in Replica : /\ Outdate(work[m][s], o # mr[m]) \in Work
                         /\ Overtaken(Outdate(work[m][s], o # mr[m]), work[m][s], o # mr[m])
  BY OutdateEffect
<1>2. [s \in Replica |-> Outdate(work[m][s], o # mr[m])] \in [Replica -> Work]
  BY <1>1
<1>3. QED
  BY <1>1, <1>2 DEF RuntimeTypeOK, Edit

\* What a step of worker r of m leaves as it was: other objects, other workers
\* up to being overtaken, caches up to a refresh, and a deletion stays one.
Framed(m, r) ==
  /\ \A l \in MR : l # m => mr'[l] = mr[l]
  /\ \A l \in MR, s \in Replica : l # m \/ s # r =>
       Overtaken(work'[l][s], work[l][s], mr'[l] # mr[l])
  /\ \A l \in MR : mr[l].phase # "live" => mr'[l].phase # "live"
  /\ \A l \in MR, s \in Replica : cache'[l][s] \in {cache[l][s], mr'[l]}

LEMMA GoFramed ==
  ASSUME RuntimeTypeOK, NEW m \in MR, NEW r \in Replica, NEW w \in Work, Go(m, r, w)
  PROVE  RuntimeTypeOK' /\ Framed(m, r)
BY GoEffect DEF RuntimeTypeOK, Framed, Overtaken

LEMMA CommitFramed ==
  ASSUME RuntimeTypeOK, NEW m \in MR, NEW r \in Replica, NEW w \in Work,
         NEW o \in Object, Commit(m, r, o, w),
         mr[m].phase # "live" => o.phase # "live"
  PROVE  RuntimeTypeOK' /\ Framed(m, r)
<1>1. /\ mr' = [mr EXCEPT ![m] = o] /\ cache' = cache
      /\ work' \in [MR -> [Replica -> Work]]
      /\ \A s \in Replica : s # r => Overtaken(work'[m][s], work[m][s], o # mr[m])
      /\ \A l \in MR, s \in Replica : l # m => work'[l][s] = work[l][s]
  BY CommitEffect
<1>2. mr'[m] = o /\ \A l \in MR : l # m => mr'[l] = mr[l]
  BY <1>1 DEF RuntimeTypeOK
<1>3. QED
  BY <1>1, <1>2 DEF RuntimeTypeOK, Framed, Overtaken

LEMMA EditFramed ==
  ASSUME RuntimeTypeOK, NEW m \in MR, NEW o \in Object, Edit(m, o),
         mr[m].phase # "live" => o.phase # "live", NEW r, r \notin Replica
  PROVE  RuntimeTypeOK' /\ Framed(m, r)
<1>1. /\ mr' = [mr EXCEPT ![m] = o] /\ cache' = cache
      /\ work' \in [MR -> [Replica -> Work]]
      /\ \A s \in Replica : Overtaken(work'[m][s], work[m][s], o # mr[m])
      /\ \A l \in MR, s \in Replica : l # m => work'[l][s] = work[l][s]
  BY EditEffect
<1>2. mr'[m] = o /\ \A l \in MR : l # m => mr'[l] = mr[l]
  BY <1>1 DEF RuntimeTypeOK
<1>3. QED
  BY <1>1, <1>2 DEF RuntimeTypeOK, Framed, Overtaken

-----------------------------------------------------------------------------
(* Type correctness *)

\* Constructors of worker states stay within Work.
LEMMA WorkTypes ==
  /\ Fresh \in Object
  /\ Idle \in Work
  /\ \A w \in Work : Close(w) \in Work
  /\ \A w \in Work : Proceed(w) \in Work
<1>1. Fresh \in Object /\ Idle \in Work
  BY DesiredAssumption DEF Fresh, Idle, Work, Object, PC, ExtName, StatusId, Hints
<1>2. ASSUME NEW w \in Work PROVE Close(w) \in Work
  BY <1>1 DEF Close, Idle, Work, Object, PC
<1>3. ASSUME NEW w \in Work PROVE Proceed(w) \in Work
  BY <1>2 DEF Proceed, Work, PC
<1>4. QED
  BY <1>1, <1>2, <1>3

\* So do the initial states.
LEMMA RuntimeInitTypes ==
  ASSUME NEW born \in SUBSET Id, RuntimeInit(born)
  PROVE  RuntimeTypeOK
<1>1. \A e \in Hints \cup born : [Fresh EXCEPT !.ext = e] \in Object
  BY DesiredAssumption DEF Fresh, Object, ExtName, StatusId, Hints
<1>2. mr \in [MR -> Object]
  <2> DEFINE S == {[Fresh EXCEPT !.ext = e] : e \in Hints \cup born}
  <2>1. S \subseteq Object
    BY <1>1
  <2>2. mr \in [MR -> S]
    BY DEF RuntimeInit
  <2> HIDE DEF S
  <2>3. QED
    BY <2>1, <2>2
<1>3. cache \in [MR -> [Replica -> Object]] /\ work \in [MR -> [Replica -> Work]]
  BY <1>2, WorkTypes DEF RuntimeInit
<1>4. QED
  BY <1>2, <1>3 DEF RuntimeTypeOK

\* Worker values that end a reconcile.
LEMMA CloseFields ==
  ASSUME NEW w \in Work
  PROVE  /\ Close(w).pc = "status" /\ Close(w).obs = "none" /\ Close(w).cr.phase = "live"
         /\ Idle.pc = "idle" /\ Idle.obs = "none" /\ Idle.cr.phase = "live"
BY DEF Close, Idle, Fresh, Work, Object

\* A reconcile ends, or only the status write is left of it.
Ends(m, r) ==
  LET w == work[m][r]
      v == work'[m][r]
  IN
  /\ v.pc \in {"idle", "status"} /\ v.obs = "none" /\ v.cr.phase = "live"
  /\ \/ mr'[m].create = mr[m].create
     \/ w.pc = "annotate" /\ mr'[m].create = w.cr.create

\* It starts, from the cached object.
Starts(m, r) ==
  LET v == work'[m][r] IN
  /\ mr' = mr
  /\ v.pc = "observe" /\ v.obs = "none" /\ v.cr = cache[m][r]
  /\ v.cr.create # "pending"
  /\ cache[m][r] # mr[m] => v.stale

\* The observation stands and is acted on.
Advances(m, r) ==
  LET w == work[m][r]
      v == work'[m][r]
  IN
  /\ w.pc = "act" /\ w.cr.phase = "live"
  /\ \/ v.pc = "pend" /\ w.obs = "missing"
     \/ v.pc = "update" /\ w.obs = "outdated"
  /\ v.obs = w.obs /\ (v.stale <=> w.stale)
  /\ v.cr.ext = w.cr.ext /\ v.cr.phase = w.cr.phase /\ v.cr.fin
  /\ (mr' = mr /\ w.cr.fin) \/ mr'[m].fin
  /\ mr'[m].create = mr[m].create

\* A create is announced, refused, or its outcome recorded.
Creates(m, r) ==
  LET w == work[m][r]
      v == work'[m][r]
  IN
  /\ v.obs = w.obs /\ v.cr.ext = w.cr.ext /\ v.cr.phase = w.cr.phase
  /\ \/ /\ w.pc = "pend" /\ ~w.stale /\ v.pc = "create"
        /\ mr'[m].create = "pending"
     \/ /\ w.pc = "create" /\ v.pc = "annotate" /\ v.cr.create = "failed"
        /\ mr' = mr
     \/ /\ w.pc = "annotate" /\ v.pc = "publish"
        /\ mr'[m].create = w.cr.create

RuntimeMove(m, r) ==
  \/ Ends(m, r) \/ Starts(m, r) \/ Advances(m, r) \/ Creates(m, r)
  \/ work' = work /\ mr' = mr

\* What the runtime does on its own keeps its types and its frame, and is one
\* of these moves.
LEMMA RuntimeStepEffect ==
  ASSUME RuntimeTypeOK, NEW m \in MR, NEW r \in Replica, RuntimeStep(m, r)
  PROVE  RuntimeTypeOK' /\ Framed(m, r) /\ RuntimeMove(m, r)
<1> DEFINE w == work[m][r]
           v == work'[m][r]
           Goal == RuntimeTypeOK' /\ Framed(m, r) /\ RuntimeMove(m, r)
<1>1. w \in Work /\ mr[m] \in Object /\ cache[m][r] \in Object /\ w.cr \in Object
  BY DEF RuntimeTypeOK, Work
<1>2. ASSUME NEW x \in Work, Go(m, r, x)
      PROVE  RuntimeTypeOK' /\ Framed(m, r) /\ v = x /\ mr' = mr
  BY <1>2, GoFramed, GoEffect
<1>3. ASSUME NEW x \in Work, NEW o \in Object, Commit(m, r, o, x), o.phase = mr[m].phase
      PROVE  RuntimeTypeOK' /\ Framed(m, r) /\ v = x /\ mr'[m] = o
  <2>1. RuntimeTypeOK' /\ Framed(m, r) /\ v = x /\ mr' = [mr EXCEPT ![m] = o]
    BY <1>3, CommitFramed, CommitEffect
  <2>2. QED
    BY <2>1 DEF RuntimeTypeOK
<1>4. \A c \in Object : \A d \in Reloaded(m, c) :
        d \in Object /\ d.phase = c.phase /\ d.ext = c.ext /\ (d.fin <=> c.fin)
  BY <1>1 DEF Reloaded, Object
<1>a. CASE Begin(m, r)
  <2> DEFINE b == [Idle EXCEPT !.pc = "observe", !.cr = cache[m][r],
                               !.stale = cache[m][r] # mr[m]]
  <2>1. /\ b \in Work /\ b.obs = "none" /\ b.pc = "observe" /\ b.cr = cache[m][r]
        /\ cache[m][r] # mr[m] => b.stale
    BY <1>1, WorkTypes DEF Idle, Work, PC
  <2>2. CASE cache[m][r].create = "pending"
    <3>1. RuntimeTypeOK' /\ Framed(m, r) /\ v = Close(b) /\ mr' = mr
      BY <1>a, <1>2, <2>1, <2>2, WorkTypes DEF Begin
    <3>2. QED
      BY <2>1, <3>1, CloseFields DEF RuntimeMove, Ends
  <2>3. CASE cache[m][r].create # "pending"
    <3>1. RuntimeTypeOK' /\ Framed(m, r) /\ v = b /\ mr' = mr
      BY <1>a, <1>2, <2>1, <2>3 DEF Begin
    <3>2. QED
      BY <2>1, <2>3, <3>1 DEF RuntimeMove, Starts
  <2>4. QED
    BY <2>2, <2>3
<1>b. CASE AwaitGrace(m, r) \/ Abandon(m, r)
  <2>1. RuntimeTypeOK' /\ Framed(m, r) /\ v = Idle /\ mr' = mr
    BY <1>b, <1>2, WorkTypes DEF AwaitGrace, Abandon
  <2>2. QED
    BY <1>1, <2>1, CloseFields DEF RuntimeMove, Ends
<1>c. CASE EnsureFinalizer(m, r)
  <2>1. ASSUME NEW x \in Work, x.obs = w.obs, x.stale <=> w.stale, x.cr.ext = w.cr.ext,
               x.cr.phase = w.cr.phase, v = Proceed(x), mr'[m].create = mr[m].create,
               x.cr.fin, (mr' = mr /\ w.cr.fin) \/ mr'[m].fin
        PROVE  RuntimeMove(m, r)
    <3>1. CASE x.obs = "missing" \/ x.obs = "outdated"
      <4>1. /\ \/ v.pc = "pend" /\ x.obs = "missing"
               \/ v.pc = "update" /\ x.obs = "outdated"
            /\ v.obs = x.obs /\ v.cr = x.cr /\ (v.stale <=> x.stale)
        BY <2>1, <3>1 DEF Proceed, Work
      <4>2. QED
        BY <1>c, <2>1, <4>1 DEF RuntimeMove, Advances, EnsureFinalizer
    <3>2. CASE x.obs # "missing" /\ x.obs # "outdated"
      <4>1. v = Close(x)
        BY <2>1, <3>2 DEF Proceed
      <4>2. QED
        BY <2>1, <4>1, CloseFields DEF RuntimeMove, Ends
    <3>3. QED
      BY <3>1, <3>2
  <2>2. CASE Go(m, r, Proceed(w)) /\ w.cr.fin
    <3>1. RuntimeTypeOK' /\ Framed(m, r) /\ v = Proceed(w) /\ mr' = mr
      BY <1>1, <1>2, <2>2, WorkTypes
    <3>2. QED
      BY <1>1, <2>1, <2>2, <3>1
  <2>3. ASSUME NEW c \in Reloaded(m, [w.cr EXCEPT !.fin = TRUE]),
               Commit(m, r, [mr[m] EXCEPT !.fin = TRUE, !.ext = w.cr.ext],
                      Proceed([w EXCEPT !.cr = c]))
        PROVE  Goal
    <3>1. /\ [w.cr EXCEPT !.fin = TRUE] \in Object
          /\ [w.cr EXCEPT !.fin = TRUE].phase = w.cr.phase
          /\ [w.cr EXCEPT !.fin = TRUE].ext = w.cr.ext
          /\ [w.cr EXCEPT !.fin = TRUE].fin
      BY <1>1 DEF Object
    <3>2. c \in Object /\ c.phase = w.cr.phase /\ c.ext = w.cr.ext /\ c.fin
      BY <1>4, <3>1
    <3>3. /\ [w EXCEPT !.cr = c] \in Work /\ [w EXCEPT !.cr = c].cr = c
          /\ [w EXCEPT !.cr = c].obs = w.obs /\ ([w EXCEPT !.cr = c].stale <=> w.stale)
      BY <1>1, <3>2 DEF Work
    <3>4. /\ [mr[m] EXCEPT !.fin = TRUE, !.ext = w.cr.ext] \in Object
          /\ [mr[m] EXCEPT !.fin = TRUE, !.ext = w.cr.ext].phase = mr[m].phase
          /\ [mr[m] EXCEPT !.fin = TRUE, !.ext = w.cr.ext].create = mr[m].create
          /\ [mr[m] EXCEPT !.fin = TRUE, !.ext = w.cr.ext].fin
      BY <1>1 DEF Object
    <3>5. /\ RuntimeTypeOK' /\ Framed(m, r) /\ v = Proceed([w EXCEPT !.cr = c])
          /\ mr'[m].create = mr[m].create /\ mr'[m].fin
      BY <1>3, <2>3, <3>3, <3>4, WorkTypes
    <3>6. QED
      BY <2>1, <3>2, <3>3, <3>5
  <2>4. QED
    BY <1>c, <2>2, <2>3 DEF EnsureFinalizer
<1>d. CASE MarkPending(m, r)
  <2>1. PICK c \in Reloaded(m, [w.cr EXCEPT !.create = "pending"]) :
          Commit(m, r, [mr[m] EXCEPT !.create = "pending", !.ext = w.cr.ext],
                 [w EXCEPT !.pc = "create", !.cr = c])
    BY <1>d DEF MarkPending
  <2>2. /\ [w.cr EXCEPT !.create = "pending"] \in Object
        /\ [w.cr EXCEPT !.create = "pending"].phase = w.cr.phase
        /\ [w.cr EXCEPT !.create = "pending"].ext = w.cr.ext
    BY <1>1 DEF Object
  <2>3. c \in Object /\ c.phase = w.cr.phase /\ c.ext = w.cr.ext
    BY <1>4, <2>2
  <2>4. /\ [w EXCEPT !.pc = "create", !.cr = c] \in Work
        /\ [w EXCEPT !.pc = "create", !.cr = c].pc = "create"
        /\ [w EXCEPT !.pc = "create", !.cr = c].cr = c
        /\ [w EXCEPT !.pc = "create", !.cr = c].obs = w.obs
    BY <1>1, <2>3 DEF Work, PC
  <2>5. /\ [mr[m] EXCEPT !.create = "pending", !.ext = w.cr.ext] \in Object
        /\ [mr[m] EXCEPT !.create = "pending", !.ext = w.cr.ext].phase = mr[m].phase
        /\ [mr[m] EXCEPT !.create = "pending", !.ext = w.cr.ext].create = "pending"
    BY <1>1 DEF Object
  <2>6. /\ RuntimeTypeOK' /\ Framed(m, r)
        /\ v = [w EXCEPT !.pc = "create", !.cr = c] /\ mr'[m].create = "pending"
    BY <1>3, <2>1, <2>4, <2>5
  <2>7. QED
    BY <1>d, <2>3, <2>4, <2>6 DEF RuntimeMove, Creates, MarkPending
<1>e. CASE CreateRefused(m, r)
  <2> DEFINE x == [w EXCEPT !.pc = "annotate", !.cr.create = "failed"]
  <2>1. /\ x \in Work /\ x.pc = "annotate" /\ x.obs = w.obs /\ x.cr.create = "failed"
        /\ x.cr.ext = w.cr.ext /\ x.cr.phase = w.cr.phase
    BY <1>1 DEF Work, PC, Object
  <2>2. RuntimeTypeOK' /\ Framed(m, r) /\ v = x /\ mr' = mr
    BY <1>e, <1>2, <2>1 DEF CreateRefused
  <2>3. QED
    BY <1>e, <2>1, <2>2 DEF RuntimeMove, Creates, CreateRefused
<1>f. CASE Annotate(m, r)
  <2>1. PICK c \in Reloaded(m, w.cr) :
          Commit(m, r, [mr[m] EXCEPT !.ext = w.cr.ext, !.create = w.cr.create],
                 IF w.cr.create = "succeeded"
                   THEN [w EXCEPT !.pc = "publish", !.cr = c, !.stale = FALSE]
                   ELSE Close([w EXCEPT !.cr = c, !.stale = FALSE]))
    BY <1>f DEF Annotate
  <2> DEFINE x == [w EXCEPT !.pc = "publish", !.cr = c, !.stale = FALSE]
             y == [w EXCEPT !.cr = c, !.stale = FALSE]
  <2>2. c \in Object /\ c.phase = w.cr.phase /\ c.ext = w.cr.ext
    BY <1>1, <1>4
  <2>3. /\ x \in Work /\ x.pc = "publish" /\ x.obs = w.obs /\ x.cr = c
        /\ y \in Work
    BY <1>1, <2>2 DEF Work, PC
  <2>4. /\ [mr[m] EXCEPT !.ext = w.cr.ext, !.create = w.cr.create] \in Object
        /\ [mr[m] EXCEPT !.ext = w.cr.ext, !.create = w.cr.create].phase = mr[m].phase
        /\ [mr[m] EXCEPT !.ext = w.cr.ext, !.create = w.cr.create].create = w.cr.create
    BY <1>1 DEF Object
  <2>5. CASE w.cr.create = "succeeded"
    <3>1. RuntimeTypeOK' /\ Framed(m, r) /\ v = x /\ mr'[m].create = w.cr.create
      BY <1>3, <2>1, <2>3, <2>4, <2>5
    <3>2. QED
      BY <1>f, <2>2, <2>3, <3>1 DEF RuntimeMove, Creates, Annotate
  <2>6. CASE w.cr.create # "succeeded"
    <3>1. RuntimeTypeOK' /\ Framed(m, r) /\ v = Close(y) /\ mr'[m].create = w.cr.create
      BY <1>3, <2>1, <2>3, <2>4, <2>6, WorkTypes
    <3>2. QED
      BY <1>f, <2>3, <3>1, CloseFields DEF RuntimeMove, Ends, Annotate
  <2>7. QED
    BY <2>5, <2>6
<1>g. CASE StepFails(m, r)
  <2>1. RuntimeTypeOK' /\ Framed(m, r) /\ v = Close(w) /\ mr' = mr
    BY <1>g, <1>1, <1>2, WorkTypes DEF StepFails
  <2>2. QED
    BY <1>1, <2>1, CloseFields DEF RuntimeMove, Ends
<1>h. CASE ReportStatus(m, r)
  <2>1. /\ [mr[m] EXCEPT !.sid = w.cr.sid] \in Object
        /\ [mr[m] EXCEPT !.sid = w.cr.sid].phase = mr[m].phase
        /\ [mr[m] EXCEPT !.sid = w.cr.sid].create = mr[m].create
    BY <1>1 DEF Object
  <2>2. RuntimeTypeOK' /\ Framed(m, r) /\ v = Idle /\ mr'[m].create = mr[m].create
    BY <1>h, <1>2, <1>3, <2>1, WorkTypes DEF ReportStatus
  <2>3. QED
    BY <1>1, <2>2, CloseFields DEF RuntimeMove, Ends
<1>i. CASE SyncCache(m, r)
  BY <1>i, <1>1 DEF SyncCache, RuntimeTypeOK, Framed, Overtaken, RuntimeMove
<1>j. QED
  BY <1>a, <1>b, <1>c, <1>d, <1>e, <1>f, <1>g, <1>h, <1>i DEF RuntimeStep

-----------------------------------------------------------------------------
(* One create at a time *)

Early == {"observe", "list", "act", "pend", "update"}
Minting == {"create", "annotate"}

\* At most one worker of m is between the pending annotation and its outcome.
Sole(m) ==
  \A r, s \in Replica : work[m][r].pc \in Minting /\ work[m][s].pc \in Minting => s = r

\* A worker that is not announcing a create leaves at most the one that was.
LEMMA SoleStays ==
  ASSUME NEW m \in MR, Sole(m), NEW r, Framed(m, r),
         r \in Replica /\ work'[m][r].pc \in Minting => work[m][r].pc \in Minting
  PROVE  Sole(m)'
<1>1. Sole(m) /\ \A s \in Replica : s # r => work'[m][s].pc = work[m][s].pc
  BY DEF Framed, Overtaken
<1>2. QED
  BY <1>1 DEF Sole

-----------------------------------------------------------------------------
(* What a worker knows of its object when it acts *)

Watching == {"observe", "list", "act", "pend"}

\* What worker state v of m tells of the object, for lack of a newer version or
\* because a create is under way.
Current(m, v) ==
  /\ v.pc \in Watching /\ ~v.stale =>
       v.cr.phase = mr[m].phase /\ (v.cr.fin <=> mr[m].fin)
  /\ v.pc = "pend" => v.cr.fin /\ v.cr.phase = "live"
  /\ v.pc \in Minting => mr[m].fin /\ mr[m].phase # "gone"

CurrentInv == \A m \in MR, r \in Replica : Current(m, work[m][r])

\* The object of m stays guarded by its finalizer.
StaysGuarded(m) ==
  mr[m].fin /\ mr[m].phase # "gone" => mr'[m].fin /\ mr'[m].phase # "gone"

\* The runtime's own steps neither delete an object nor drop its finalizer, and
\* of the handlers' steps only the release of a deleted object does.
LEMMA RuntimeStepKeeps ==
  ASSUME RuntimeTypeOK, NEW m \in MR, NEW r \in Replica, RuntimeStep(m, r)
  PROVE  mr'[m].phase = mr[m].phase /\ (mr[m].fin => mr'[m].fin)
<1>1. mr[m] \in Object /\ work[m][r].cr \in Object
  BY DEF RuntimeTypeOK, Work
<1>2. ASSUME NEW x, Go(m, r, x) PROVE mr' = mr
  BY <1>2 DEF Go
<1>3. ASSUME NEW o \in Object, NEW x, Commit(m, r, o, x) PROVE mr'[m] = o
  BY <1>3 DEF Commit, RuntimeTypeOK
<1>4. CASE Begin(m, r) \/ AwaitGrace(m, r) \/ CreateRefused(m, r) \/ StepFails(m, r)
             \/ Abandon(m, r) \/ SyncCache(m, r)
  BY <1>2, <1>4 DEF Begin, AwaitGrace, CreateRefused, StepFails, Abandon, SyncCache
<1>5. CASE EnsureFinalizer(m, r)
  <2>1. /\ [mr[m] EXCEPT !.fin = TRUE, !.ext = work[m][r].cr.ext] \in Object
        /\ [mr[m] EXCEPT !.fin = TRUE, !.ext = work[m][r].cr.ext].phase = mr[m].phase
        /\ [mr[m] EXCEPT !.fin = TRUE, !.ext = work[m][r].cr.ext].fin
    BY <1>1 DEF Object
  <2>2. QED
    BY <1>2, <1>3, <1>5, <2>1 DEF EnsureFinalizer
<1>6. CASE MarkPending(m, r)
  BY <1>1, <1>6 DEF MarkPending, Commit, RuntimeTypeOK, Object
<1>7. CASE Annotate(m, r)
  <2> DEFINE o == [mr[m] EXCEPT !.ext = work[m][r].cr.ext,
                                !.create = work[m][r].cr.create]
  <2>1. o \in Object /\ o.phase = mr[m].phase /\ (o.fin <=> mr[m].fin)
    BY <1>1 DEF Object
  <2>2. QED
    BY <1>3, <1>7, <2>1 DEF Annotate
<1>8. CASE ReportStatus(m, r)
  <2> DEFINE o == [mr[m] EXCEPT !.sid = work[m][r].cr.sid]
  <2>1. o \in Object /\ o.phase = mr[m].phase /\ (o.fin <=> mr[m].fin)
    BY <1>1 DEF Object
  <2>2. QED
    BY <1>2, <1>3, <1>8, <2>1 DEF ReportStatus
<1>9. QED
  BY <1>4, <1>5, <1>6, <1>7, <1>8 DEF RuntimeStep

\* It is enough to look at the worker that moves, and at workers about to create
\* when the object changes hands.
LEMMA CurrentByOne ==
  ASSUME RuntimeTypeOK, CurrentInv, NEW m \in MR, NEW r, Framed(m, r),
         StaysGuarded(m) \/ \A s \in Replica : work[m][s].pc \notin Minting,
         r \in Replica => Current(m, work[m][r])'
  PROVE  CurrentInv'
<1>1. ASSUME NEW l \in MR, NEW s \in Replica, l # m \/ s # r
      PROVE  Current(l, work[l][s])'
  <2>1. /\ Current(l, work[l][s])
        /\ Overtaken(work'[l][s], work[l][s], mr'[l] # mr[l])
        /\ l = m \/ mr'[l] = mr[l]
    BY <1>1 DEF CurrentInv, Framed
  <2>2. QED
    BY <2>1 DEF Current, Overtaken, StaysGuarded, Watching, Minting
<1>2. QED
  BY <1>1 DEF CurrentInv

LEMMA RuntimeStepCurrent ==
  ASSUME RuntimeTypeOK, CurrentInv, NEW m \in MR, NEW r \in Replica, RuntimeStep(m, r)
  PROVE  CurrentInv'
<1>1. /\ Framed(m, r) /\ RuntimeMove(m, r)
      /\ mr'[m].phase = mr[m].phase /\ (mr[m].fin => mr'[m].fin)
  BY RuntimeStepEffect, RuntimeStepKeeps
<1>2. Current(m, work[m][r])
  BY DEF CurrentInv
<1>3. Current(m, work[m][r])'
  BY <1>1, <1>2
  DEF RuntimeMove, Ends, Starts, Advances, Creates, Current, Watching, Minting
<1>4. QED
  BY <1>1, <1>3, CurrentByOne DEF StaysGuarded

\* The external name changes hands with the finalizer, with the pending annotation
\* and with the outcome of a create.
LEMMA RuntimeStepNames ==
  ASSUME RuntimeTypeOK, NEW m \in MR, NEW r \in Replica, RuntimeStep(m, r)
  PROVE  LET w == work[m][r] IN
         /\ \/ mr'[m].ext = mr[m].ext
            \/ w.pc = "act" /\ w.cr.phase = "live" /\ ~w.cr.fin /\ ~w.stale
            \/ w.pc \in {"pend", "annotate"} /\ (w.pc = "pend" => ~w.stale)
         /\ w.pc = "annotate" /\ work'[m][r].pc = "publish" =>
              w.cr.create = "succeeded" /\ mr'[m].ext = w.cr.ext
<1> DEFINE w == work[m][r]
<1>1. mr[m] \in Object /\ w \in Work /\ w.cr \in Object
  BY DEF RuntimeTypeOK, Work
<1>2. ASSUME NEW x, Go(m, r, x) PROVE mr' = mr /\ work'[m][r] = x
  BY <1>2 DEF Go, RuntimeTypeOK
<1>3. ASSUME NEW o, NEW x, Commit(m, r, o, x) PROVE mr'[m] = o /\ work'[m][r] = x
  BY <1>3 DEF Commit, RuntimeTypeOK
<1>4. CASE Begin(m, r) \/ AwaitGrace(m, r) \/ CreateRefused(m, r) \/ SyncCache(m, r)
  BY <1>2, <1>4 DEF Begin, AwaitGrace, CreateRefused, SyncCache
<1>5. CASE StepFails(m, r) \/ Abandon(m, r)
  <2>1. mr' = mr /\ work'[m][r].pc # "publish"
    BY <1>1, <1>2, <1>5, CloseFields DEF StepFails, Abandon
  <2>2. QED
    BY <2>1
<1>6. CASE EnsureFinalizer(m, r) \/ MarkPending(m, r)
  BY <1>2, <1>6 DEF EnsureFinalizer, MarkPending
<1>7. CASE Annotate(m, r)
  <2>1. PICK c \in Reloaded(m, w.cr) :
          Commit(m, r, [mr[m] EXCEPT !.ext = w.cr.ext, !.create = w.cr.create],
                 IF w.cr.create = "succeeded"
                   THEN [w EXCEPT !.pc = "publish", !.cr = c, !.stale = FALSE]
                   ELSE Close([w EXCEPT !.cr = c, !.stale = FALSE]))
    BY <1>7 DEF Annotate
  <2> DEFINE o == [mr[m] EXCEPT !.ext = w.cr.ext, !.create = w.cr.create]
             x == [w EXCEPT !.pc = "publish", !.cr = c, !.stale = FALSE]
             y == Close([w EXCEPT !.cr = c, !.stale = FALSE])
  <2>2. mr'[m].ext = w.cr.ext
    <3>1. o.ext = w.cr.ext
      BY <1>1 DEF Object
    <3>2. mr'[m] = o
      BY <2>1 DEF Commit, RuntimeTypeOK
    <3>3. QED
      BY <3>1, <3>2
  <2>3. ASSUME w.cr.create # "succeeded" PROVE work'[m][r].pc # "publish"
    <3>1. y.pc = "status"
      BY DEF Close, Idle
    <3>2. work'[m][r] = IF w.cr.create = "succeeded" THEN x ELSE y
      BY <2>1 DEF Commit, RuntimeTypeOK
    <3>3. QED
      BY <2>3, <3>1, <3>2
  <2>4. QED
    BY <1>7, <2>2, <2>3 DEF Annotate
<1>8. CASE ReportStatus(m, r)
  BY <1>1, <1>2, <1>3, <1>8 DEF ReportStatus, Object
<1>9. QED
  BY <1>4, <1>5, <1>6, <1>7, <1>8 DEF RuntimeStep

-----------------------------------------------------------------------------
(* Users and operators *)

\* What a user or operator does to the object of m.
UserMove(m) ==
  /\ mr'[m].fin <=> mr[m].fin
  /\ \/ mr'[m].phase = mr[m].phase
     \/ mr[m].phase = "live" /\ mr'[m].phase = IF mr[m].fin THEN "deleting" ELSE "gone"
  /\ \/ mr'[m].create = mr[m].create
     \/ mr'[m].create = "never" /\ \A s \in Replica : work[m][s].pc \notin Minting

\* It is a step of no worker at all.
LEMMA UserMoves ==
  ASSUME RuntimeTypeOK, NEW m \in MR, NEW r, r \notin Replica,
         RequestDelete(m) \/ Respecify(m) \/ ClearPending(m)
  PROVE  RuntimeTypeOK' /\ Framed(m, r) /\ UserMove(m)
<1>1. mr[m] \in Object
  BY DEF RuntimeTypeOK
<1>2. ASSUME NEW o \in Object, Edit(m, o), mr[m].phase # "live" => o.phase # "live"
      PROVE  RuntimeTypeOK' /\ Framed(m, r) /\ mr'[m] = o
  BY <1>2, EditFramed, EditEffect DEF RuntimeTypeOK
<1>3. CASE RequestDelete(m)
  <2> DEFINE o == [mr[m] EXCEPT !.phase = IF mr[m].fin THEN "deleting" ELSE "gone"]
  <2>1. /\ o \in Object /\ (o.fin <=> mr[m].fin) /\ o.create = mr[m].create
        /\ o.phase = IF mr[m].fin THEN "deleting" ELSE "gone"
    BY <1>1 DEF Object
  <2>2. RuntimeTypeOK' /\ Framed(m, r) /\ mr'[m] = o
    BY <1>2, <1>3, <2>1 DEF RequestDelete
  <2>3. QED
    BY <1>3, <2>1, <2>2 DEF RequestDelete, UserMove
<1>4. CASE Respecify(m)
  <2>1. PICK d \in Desired : Edit(m, [mr[m] EXCEPT !.spec = d])
    BY <1>4 DEF Respecify
  <2> DEFINE o == [mr[m] EXCEPT !.spec = d]
  <2>2. /\ o \in Object /\ (o.fin <=> mr[m].fin) /\ o.create = mr[m].create
        /\ o.phase = mr[m].phase
    BY <1>1 DEF Object
  <2>3. RuntimeTypeOK' /\ Framed(m, r) /\ mr'[m] = o
    BY <1>2, <2>1, <2>2
  <2>4. QED
    BY <2>2, <2>3 DEF UserMove
<1>5. CASE ClearPending(m)
  <2> DEFINE o == [mr[m] EXCEPT !.create = "never"]
  <2>1. /\ o \in Object /\ (o.fin <=> mr[m].fin) /\ o.create = "never"
        /\ o.phase = mr[m].phase
    BY <1>1 DEF Object
  <2>2. RuntimeTypeOK' /\ Framed(m, r) /\ mr'[m] = o
    BY <1>2, <1>5, <2>1 DEF ClearPending
  <2>3. QED
    BY <1>5, <2>1, <2>2 DEF ClearPending, Unresolved, Minting, UserMove
<1>6. QED
  BY <1>3, <1>4, <1>5

-----------------------------------------------------------------------------
(* The fence a pending create puts up *)

\* For worker state v of a resource with object o: what it reports as missing is
\* missing while its copy is current, so that a create is announced and made only
\* when nothing is there ("void"); and the announcement outdates every other copy.
Fenced(o, v, void) ==
  /\ v.pc = "pend" => v.obs = "missing"
  /\ v.pc \in {"act", "pend"} /\ v.obs = "missing" /\ ~v.stale => void
  /\ v.pc = "create" => void
  /\ v.pc = "annotate" => v.cr.create # "pending"
  /\ v.pc \in Minting => o.create = "pending"
  /\ v.pc \in Early /\ o.create = "pending" => v.stale

\* V are the resources that have nothing at NetBird, before and after a step.
Fence(V) ==
  \A m \in MR : Sole(m) /\ \A r \in Replica : Fenced(mr[m], work[m][r], m \in V)

FenceAfter(V) ==
  \A m \in MR : Sole(m)' /\ \A r \in Replica : Fenced(mr'[m], work'[m][r], m \in V)

\* What handlers do to a worker.  An observation is made, or adoption by name is
\* still to be tried;
Looks(m, r, void) ==
  LET w == work[m][r]
      v == work'[m][r]
  IN
  /\ w.pc \in {"observe", "list"} /\ mr' = mr
  /\ v.cr.phase = w.cr.phase /\ (v.cr.fin <=> w.cr.fin) /\ (v.stale <=> w.stale)
  /\ \/ v.pc = "list" /\ v.obs = w.obs
     \/ v.pc = "act" /\ v.obs \in {"uptodate", "outdated"}
     \/ v.pc = "act" /\ v.obs = "missing" /\ (v.stale \/ void)

\* what is wanted has been created, heard of or not;
Makes(m, r) ==
  LET v == work'[m][r] IN
  /\ work[m][r].pc = "create" /\ mr' = mr
  /\ v.pc = "annotate" /\ v.cr.create # "pending"

\* or only the status write is left.
Stops(m, r) ==
  LET v == work'[m][r] IN
  /\ v.pc \in {"idle", "status"} /\ v.obs = "none" /\ v.cr.phase = "live"
  /\ mr' = mr

\* A step of one resource leaves the fences of the others standing, and its own
\* need be shown only for the worker that moves when neither the annotation nor
\* what is at NetBird gives the others reason to fall.
LEMMA FencedElsewhere ==
  ASSUME NEW V, NEW W, Fence(V), NEW m \in MR, NEW r, Framed(m, r),
         NEW l \in MR, l # m, l \in V => l \in W
  PROVE  Sole(l)' /\ \A s \in Replica : Fenced(mr'[l], work'[l][s], l \in W)
<1>1. /\ Sole(l) /\ mr'[l] = mr[l]
      /\ \A s \in Replica : /\ Fenced(mr[l], work[l][s], l \in V)
                            /\ Overtaken(work'[l][s], work[l][s], FALSE)
  BY DEF Fence, Framed, Overtaken
<1>2. Sole(l)'
  BY <1>1 DEF Sole, Overtaken
<1>3. ASSUME NEW s \in Replica PROVE Fenced(mr'[l], work'[l][s], l \in W)
  BY <1>1 DEF Fenced, Overtaken
<1>4. QED
  BY <1>2, <1>3

LEMMA FencedBeside ==
  ASSUME NEW V, NEW W, Fence(V), NEW m \in MR, NEW r, Framed(m, r), m \in V => m \in W,
         mr'[m].create = mr[m].create, NEW s \in Replica, s # r
  PROVE  Fenced(mr'[m], work'[m][s], m \in W)
<1>1. /\ Fenced(mr[m], work[m][s], m \in V)
      /\ Overtaken(work'[m][s], work[m][s], mr'[m] # mr[m])
  BY DEF Fence, Framed
<1>2. QED
  BY <1>1 DEF Fenced, Overtaken

\* The steps that touch no annotation, and announce no create.
LEMMA QuietStepFenced ==
  ASSUME NEW V, NEW W, Fence(V), NEW m \in MR, NEW r \in Replica, Framed(m, r),
         mr'[m].create = mr[m].create, V \subseteq W,
         work'[m][r].pc \in Minting => work[m][r].pc \in Minting,
         Fenced(mr'[m], work'[m][r], m \in W)
  PROVE  FenceAfter(W)
<1>1. ASSUME NEW s \in Replica PROVE Fenced(mr'[m], work'[m][s], m \in W)
  BY FencedBeside
<1>2. Sole(m)'
  BY SoleStays DEF Fence
<1>3. ASSUME NEW l \in MR, l # m
      PROVE  Sole(l)' /\ \A s \in Replica : Fenced(mr'[l], work'[l][s], l \in W)
  BY <1>3, FencedElsewhere
<1>4. QED
  BY <1>1, <1>2, <1>3 DEF FenceAfter

LEMMA RuntimeStepFenced ==
  ASSUME RuntimeTypeOK, NEW V, NEW W, V \subseteq W, Fence(V),
         NEW m \in MR, NEW r \in Replica, RuntimeStep(m, r)
  PROVE  FenceAfter(W)
<1> DEFINE w == work[m][r]
           v == work'[m][r]
<1>1. Framed(m, r) /\ RuntimeMove(m, r)
  BY RuntimeStepEffect
<1>2. /\ Sole(m) /\ Fenced(mr[m], w, m \in V) /\ (m \in V => m \in W)
      /\ \A s \in Replica : Fenced(mr[m], work[m][s], m \in V)
  BY DEF Fence
<1>3. Fenced(mr'[m], v, m \in W)
  BY <1>1, <1>2
  DEF Framed, RuntimeMove, Ends, Starts, Advances, Creates, Fenced, Early, Minting
<1>4. ASSUME NEW s \in Replica, s # r PROVE Fenced(mr'[m], work'[m][s], m \in W)
  <2>1. Overtaken(work'[m][s], work[m][s], mr'[m] # mr[m])
    BY <1>1, <1>4 DEF Framed
  <2>2. CASE mr'[m].create = mr[m].create
    BY <1>1, <1>4, <2>2, FencedBeside
  <2>3. CASE w.pc = "annotate"
    <3>1. work[m][s].pc \notin Minting
      BY <1>2, <1>4, <2>3 DEF Sole, Minting
    <3>2. mr'[m].create = mr[m].create \/ mr'[m].create # "pending"
      BY <1>1, <1>2, <2>3 DEF RuntimeMove, Ends, Starts, Advances, Creates, Fenced
    <3>3. QED
      BY <1>2, <2>1, <2>2, <3>1, <3>2 DEF Fenced, Overtaken, Minting
  <2>4. CASE w.pc = "pend" /\ ~w.stale /\ mr'[m].create = "pending"
    <3>1. mr[m].create # "pending" /\ mr'[m] # mr[m]
      BY <1>2, <2>4 DEF Fenced, Early
    <3>2. QED
      BY <1>2, <2>1, <2>4, <3>1 DEF Fenced, Overtaken, Early, Minting
  <2>5. QED
    BY <1>1, <2>2, <2>3, <2>4 DEF RuntimeMove, Ends, Starts, Advances, Creates
<1>5. Sole(m)'
  <2>1. CASE w.pc \in Minting \/ v.pc \notin Minting
    BY <1>1, <1>2, <2>1, SoleStays
  <2>2. CASE w.pc \notin Minting /\ v.pc \in Minting
    <3>1. w.pc = "pend" /\ ~w.stale
      BY <1>1, <2>2 DEF RuntimeMove, Ends, Starts, Advances, Creates, Minting
    <3>2. \A s \in Replica : s # r => work'[m][s].pc \notin Minting
      BY <1>1, <1>2, <3>1 DEF Fenced, Framed, Overtaken, Early, Minting
    <3>3. QED
      BY <3>2 DEF Sole
  <2>3. QED
    BY <2>1, <2>2
<1>6. ASSUME NEW l \in MR, l # m
      PROVE  Sole(l)' /\ \A s \in Replica : Fenced(mr'[l], work'[l][s], l \in W)
  BY <1>1, <1>6, FencedElsewhere
<1>7. QED
  BY <1>3, <1>4, <1>5, <1>6 DEF FenceAfter

\* An observation, or the end of a reconcile.
LEMMA RestFenced ==
  ASSUME NEW V, NEW W, V \subseteq W, Fence(V), NEW m \in MR, NEW r \in Replica,
         Framed(m, r), Looks(m, r, m \in W) \/ Stops(m, r)
  PROVE  FenceAfter(W)
<1>1. Fenced(mr[m], work[m][r], m \in V) /\ (m \in V => m \in W)
  BY DEF Fence
<1>2. Fenced(mr'[m], work'[m][r], m \in W)
  BY <1>1 DEF Looks, Stops, Fenced, Early, Minting
<1>3. QED
  BY <1>2, QuietStepFenced DEF Looks, Stops, Minting

\* A creation, by the only worker that may.
LEMMA MakingFenced ==
  ASSUME NEW V, NEW W, Fence(V), NEW m \in MR, NEW r \in Replica, V \ W \subseteq {m},
         Framed(m, r), Makes(m, r)
  PROVE  m \in V /\ FenceAfter(W)
<1>1. Sole(m) /\ \A s \in Replica : Fenced(mr[m], work[m][s], m \in V)
  BY DEF Fence
<1>2. m \in V /\ mr[m].create = "pending"
  BY <1>1 DEF Makes, Fenced, Minting
<1>3. Fenced(mr'[m], work'[m][r], m \in W)
  BY <1>2 DEF Makes, Fenced, Early, Minting
<1>4. ASSUME NEW s \in Replica, s # r PROVE Fenced(mr'[m], work'[m][s], m \in W)
  <2>1. work[m][s].pc \notin Minting
    BY <1>1, <1>4 DEF Makes, Sole, Minting
  <2>2. Overtaken(work'[m][s], work[m][s], FALSE)
    BY <1>4 DEF Framed, Overtaken
  <2>3. QED
    BY <1>1, <1>2, <2>1, <2>2 DEF Makes, Fenced, Overtaken, Early, Minting
<1>5. Sole(m)'
  BY <1>1, SoleStays DEF Makes, Minting
<1>6. ASSUME NEW l \in MR, l # m
      PROVE  Sole(l)' /\ \A s \in Replica : Fenced(mr'[l], work'[l][s], l \in W)
  BY <1>6, FencedElsewhere
<1>7. QED
  BY <1>2, <1>3, <1>4, <1>5, <1>6 DEF FenceAfter

\* A deleted object is released.
Releases(m, r) ==
  LET w == work[m][r] IN
  /\ w.pc = "act" /\ w.cr.phase = "deleting" /\ w.obs = "missing" /\ ~w.stale
  /\ work'[m][r] = Idle
  /\ mr'[m].phase = "gone" /\ mr'[m].create = mr[m].create

LEMMA ReleaseMoves ==
  ASSUME RuntimeTypeOK, NEW m \in MR, NEW r \in Replica, Release(m, r)
  PROVE  RuntimeTypeOK' /\ Framed(m, r) /\ Releases(m, r)
<1> DEFINE o == [mr[m] EXCEPT !.phase = "gone", !.fin = FALSE]
<1>1. o \in Object /\ o.phase = "gone" /\ o.create = mr[m].create
  BY DEF RuntimeTypeOK, Object
<1>2. Commit(m, r, o, Idle)
  BY DEF Release
<1>3. RuntimeTypeOK' /\ Framed(m, r)
  BY <1>1, <1>2, CommitFramed, WorkTypes
<1>4. work'[m][r] = Idle /\ mr'[m] = o
  BY <1>1, <1>2, CommitEffect, WorkTypes DEF RuntimeTypeOK
<1>5. QED
  BY <1>1, <1>3, <1>4 DEF Release, Releases

\* It is released when nothing of it is left, and nobody is creating for it.
LEMMA ReleaseFenced ==
  ASSUME RuntimeTypeOK, CurrentInv, NEW V, NEW W, V \subseteq W, Fence(V),
         NEW m \in MR, NEW r \in Replica, Release(m, r)
  PROVE  m \in V /\ mr[m].phase = "deleting" /\ FenceAfter(W) /\ CurrentInv'
<1>1. Framed(m, r) /\ Releases(m, r)
  BY ReleaseMoves
<1>2. /\ Current(m, work[m][r])
      /\ \A s \in Replica : Fenced(mr[m], work[m][s], m \in V)
  BY DEF CurrentInv, Fence
<1>3. m \in V /\ mr[m].phase = "deleting"
  BY <1>1, <1>2 DEF Releases, Fenced, Current, Watching
<1>4. Fenced(mr'[m], work'[m][r], m \in W) /\ work'[m][r].pc \notin Minting
  BY <1>1 DEF Releases, Idle, Fenced, Early, Minting
<1>5. FenceAfter(W)
  BY <1>1, <1>4, QuietStepFenced DEF Releases
<1>6. \A s \in Replica : work[m][s].pc \notin Minting
  BY <1>1, <1>2 DEF Releases, Fenced, Early, Minting
<1>7. Current(m, work[m][r])'
  BY <1>1 DEF Releases, Idle, Current, Watching, Minting
<1>8. CurrentInv'
  BY <1>1, <1>6, <1>7, CurrentByOne
<1>9. QED
  BY <1>3, <1>5, <1>8

\* What a worker knows of its object stays true in a handler.
LEMMA HandlerStepCurrent ==
  ASSUME RuntimeTypeOK, CurrentInv, NEW m \in MR, NEW r \in Replica, Framed(m, r),
         (\E void \in BOOLEAN : Looks(m, r, void)) \/ Makes(m, r) \/ Stops(m, r)
  PROVE  CurrentInv'
<1>1. mr' = mr /\ Current(m, work[m][r])
  BY DEF CurrentInv, Looks, Makes, Stops
<1>2. Current(m, work[m][r])'
  BY <1>1 DEF Looks, Makes, Stops, Current, Watching, Minting
<1>3. QED
  BY <1>1, <1>2, CurrentByOne DEF StaysGuarded

\* What users and operators do brings down no fence,
LEMMA UserStepFenced ==
  ASSUME RuntimeTypeOK, NEW V, NEW W, V \subseteq W, Fence(V), NEW m \in MR,
         RequestDelete(m) \/ Respecify(m) \/ ClearPending(m)
  PROVE  RuntimeTypeOK' /\ FenceAfter(W) /\ UserMove(m)
         /\ \A l \in MR : l # m => mr'[l] = mr[l]
<1>1. PICK r : r \notin Replica
  BY NoSetContainsEverything
<1>2. RuntimeTypeOK' /\ Framed(m, r) /\ UserMove(m)
  BY <1>1, UserMoves
<1>3. ASSUME NEW s \in Replica PROVE Fenced(mr'[m], work'[m][s], m \in W)
  <2>1. CASE mr'[m].create = mr[m].create
    BY <1>1, <1>2, <2>1, FencedBeside
  <2>2. CASE mr'[m].create = "never" /\ work[m][s].pc \notin Minting
    <3>1. /\ Fenced(mr[m], work[m][s], m \in V)
          /\ Overtaken(work'[m][s], work[m][s], FALSE)
      BY <1>1, <1>2 DEF Fence, Framed, Overtaken
    <3>2. QED
      BY <2>2, <3>1 DEF Fenced, Overtaken, Minting
  <2>3. QED
    BY <1>2, <2>1, <2>2 DEF UserMove
<1>4. Sole(m)'
  BY <1>1, <1>2, SoleStays DEF Fence
<1>5. ASSUME NEW l \in MR, l # m
      PROVE  Sole(l)' /\ \A s \in Replica : Fenced(mr'[l], work'[l][s], l \in W)
  BY <1>2, <1>5, FencedElsewhere
<1>6. QED
  BY <1>2, <1>3, <1>4, <1>5 DEF FenceAfter, Framed

\* and outdates what it makes untrue of a worker's copy.
LEMMA UserStepCurrent ==
  ASSUME RuntimeTypeOK, CurrentInv, NEW m \in MR,
         RequestDelete(m) \/ Respecify(m) \/ ClearPending(m)
  PROVE  CurrentInv'
<1>1. PICK r : r \notin Replica
  BY NoSetContainsEverything
<1>2. Framed(m, r) /\ StaysGuarded(m)
  BY <1>1, UserMoves DEF UserMove, StaysGuarded
<1>3. QED
  BY <1>1, <1>2, CurrentByOne

\* Nor does anything that leaves the runtime alone.
LEMMA WorldFenced ==
  ASSUME NEW V, NEW W, V \subseteq W, Fence(V), mr' = mr, work' = work
  PROVE  FenceAfter(W) /\ (CurrentInv => CurrentInv')
<1>1. \A m \in MR : m \in V => m \in W
  OBVIOUS
<1>2. QED
  BY <1>1 DEF Fence, FenceAfter, Fenced, Sole, CurrentInv, Current
-----------------------------------------------------------------------------
(* Kinds that ask for less, or whose external names are fewer *)

\* The specifications that are in use are those of D, the external names of E.
Narrow(D, E) ==
  \A m \in MR :
    /\ mr[m].spec \in D /\ mr[m].ext \in E
    /\ \A r \in Replica :
         /\ cache[m][r].spec \in D /\ cache[m][r].ext \in E
         /\ work[m][r].cr.spec \in D /\ work[m][r].cr.ext \in E

\* The types an instance declares.
ObjectOf(D, E) == [phase  : {"live", "deleting", "gone"},
                   fin    : BOOLEAN,
                   ext    : E,
                   create : {"never", "pending", "succeeded", "failed"},
                   sid    : StatusId,
                   spec   : D]

WorkOf(D, E) == [pc    : PC,
                 cr    : ObjectOf(D, E),
                 obs   : {"none", "missing", "outdated", "uptodate"},
                 stale : BOOLEAN]

TypedAs(D, E) ==
  /\ mr \in [MR -> ObjectOf(D, E)]
  /\ cache \in [MR -> [Replica -> ObjectOf(D, E)]]
  /\ work \in [MR -> [Replica -> WorkOf(D, E)]]

LEMMA NarrowTypes ==
  ASSUME NEW D, NEW E, D \subseteq Desired, E \subseteq ExtName
  PROVE  TypedAs(D, E) <=> RuntimeTypeOK /\ Narrow(D, E)
<1>1. \A o : o \in ObjectOf(D, E) <=> o \in Object /\ o.spec \in D /\ o.ext \in E
  BY DEF Object, ObjectOf
<1>2. \A w : w \in WorkOf(D, E) <=> w \in Work /\ w.cr.spec \in D /\ w.cr.ext \in E
  <2>1. ASSUME NEW w \in WorkOf(D, E)
        PROVE  w \in Work /\ w.cr.spec \in D /\ w.cr.ext \in E
    <3>1. w.cr \in Object /\ w.cr.spec \in D /\ w.cr.ext \in E
      BY <1>1 DEF WorkOf
    <3>2. QED
      BY <3>1 DEF WorkOf, Work
  <2>2. ASSUME NEW w \in Work, w.cr.spec \in D, w.cr.ext \in E
        PROVE  w \in WorkOf(D, E)
    <3>1. w.cr \in ObjectOf(D, E)
      BY <1>1, <2>2 DEF Work
    <3>2. QED
      BY <3>1 DEF WorkOf, Work
  <2>3. QED
    BY <2>1, <2>2
<1>3. ASSUME TypedAs(D, E) PROVE RuntimeTypeOK /\ Narrow(D, E)
  <2>1. \A m \in MR : mr[m] \in ObjectOf(D, E)
    BY <1>3 DEF TypedAs
  <2>2. \A m \in MR, r \in Replica :
          cache[m][r] \in ObjectOf(D, E) /\ work[m][r] \in WorkOf(D, E)
    BY <1>3 DEF TypedAs
  <2>3. ObjectOf(D, E) \subseteq Object /\ WorkOf(D, E) \subseteq Work
    BY <1>1, <1>2
  <2>4. RuntimeTypeOK
    BY <1>3, <2>3 DEF TypedAs, RuntimeTypeOK
  <2>5. QED
    BY <1>1, <1>2, <2>1, <2>2, <2>4 DEF Narrow
<1>4. ASSUME RuntimeTypeOK, Narrow(D, E) PROVE TypedAs(D, E)
  BY <1>1, <1>2, <1>4 DEF RuntimeTypeOK, Narrow, TypedAs
<1>5. QED
  BY <1>3, <1>4

\* What a step of worker r of m makes of them: no specification of another origin
\* than the object, the cache or a fresh start, no external name but those that
\* were there and the identifiers of NetBird.
Traced(m, r) ==
  LET w == work[m][r]
      v == work'[m][r]
  IN
  /\ mr'[m].spec = mr[m].spec
  /\ mr'[m].ext \in {mr[m].ext, w.cr.ext}
  /\ v.cr.spec \in {w.cr.spec, cache[m][r].spec, Spec0}
  /\ v.cr.ext \in {w.cr.ext, cache[m][r].ext, NoId} \cup Id

LEMMA NarrowStays ==
  ASSUME NEW D, NEW E, Spec0 \in D, Id \cup {NoId} \subseteq E,
         RuntimeTypeOK, Narrow(D, E), NEW m \in MR, NEW r \in Replica,
         Framed(m, r), Traced(m, r)
  PROVE  Narrow(D, E)'
<1>1. \A l \in MR : mr'[l].spec \in D /\ mr'[l].ext \in E
  BY DEF Narrow, Framed, Traced
<1>2. ASSUME NEW l \in MR, NEW s \in Replica
      PROVE  cache'[l][s].spec \in D /\ cache'[l][s].ext \in E
  BY <1>1 DEF Narrow, Framed
<1>3. ASSUME NEW l \in MR, NEW s \in Replica
      PROVE  work'[l][s].cr.spec \in D /\ work'[l][s].cr.ext \in E
  <2>1. CASE l = m /\ s = r
    BY <2>1 DEF Narrow, Traced
  <2>2. CASE l # m \/ s # r
    BY <2>2 DEF Narrow, Framed, Overtaken
  <2>3. QED
    BY <2>1, <2>2
<1>4. QED
  BY <1>1, <1>2, <1>3 DEF Narrow

\* The steps of the library loop are such.
LEMMA RuntimeStepTraced ==
  ASSUME RuntimeTypeOK, NEW m \in MR, NEW r \in Replica, SecretlessStep(m, r)
  PROVE  Traced(m, r)
<1> DEFINE w == work[m][r]
           v == work'[m][r]
<1>1. mr[m] \in Object /\ cache[m][r] \in Object /\ w \in Work /\ w.cr \in Object
  BY DEF RuntimeTypeOK, Work
<1>2. ASSUME NEW x, Go(m, r, x) PROVE mr' = mr /\ v = x
  BY <1>2 DEF Go, RuntimeTypeOK
<1>3. ASSUME NEW o, NEW x, Commit(m, r, o, x) PROVE mr'[m] = o /\ v = x
  BY <1>3 DEF Commit, RuntimeTypeOK
<1>4. /\ Idle.cr.spec = Spec0 /\ Idle.cr.ext = NoId
      /\ \A x : Close(x).cr.spec = Spec0 /\ Close(x).cr.ext = NoId
  BY DEF Idle, Fresh, Close
<1>5. \A o \in Object : \A c \in Reloaded(m, o) : c.spec = o.spec /\ c.ext = o.ext
  BY <1>1 DEF Reloaded, Object
<1>6. CASE Begin(m, r)
  <2> DEFINE b == [Idle EXCEPT !.pc = "observe", !.cr = cache[m][r],
                               !.stale = cache[m][r] # mr[m]]
  <2>1. b.cr = cache[m][r]
    BY DEF Idle
  <2>2. QED
    BY <1>1, <1>2, <1>4, <1>6, <2>1 DEF Begin, Traced
<1>7. CASE AwaitGrace(m, r) \/ Abandon(m, r) \/ StepFails(m, r)
  BY <1>1, <1>2, <1>4, <1>7 DEF AwaitGrace, Abandon, StepFails, Traced
<1>8. CASE CreateRefused(m, r)
  <2> DEFINE x == [w EXCEPT !.pc = "annotate", !.cr.create = "failed"]
  <2>1. x.cr.spec = w.cr.spec /\ x.cr.ext = w.cr.ext
    BY <1>1 DEF Work, Object
  <2>2. QED
    BY <1>1, <1>2, <1>8, <2>1 DEF CreateRefused, Traced
<1>9. CASE SyncCache(m, r)
  BY <1>9 DEF SyncCache, Traced
<1>10. CASE Release(m, r)
  <2> DEFINE o == [mr[m] EXCEPT !.phase = "gone", !.fin = FALSE]
  <2>1. o.spec = mr[m].spec /\ o.ext = mr[m].ext
    BY <1>1 DEF Object
  <2>2. QED
    BY <1>3, <1>4, <1>10, <2>1 DEF Release, Traced
<1>11. CASE ReportStatus(m, r)
  <2> DEFINE o == [mr[m] EXCEPT !.sid = w.cr.sid]
  <2>1. o.spec = mr[m].spec /\ o.ext = mr[m].ext
    BY <1>1 DEF Object
  <2>2. QED
    BY <1>2, <1>3, <1>4, <1>11, <2>1 DEF ReportStatus, Traced
<1>12. ASSUME NEW x \in Work
       PROVE  \/ Proceed(x).cr = x.cr
              \/ Proceed(x).cr.spec = Spec0 /\ Proceed(x).cr.ext = NoId
  BY <1>4 DEF Proceed, Work
<1>13. CASE EnsureFinalizer(m, r)
  <2> DEFINE o == [mr[m] EXCEPT !.fin = TRUE, !.ext = w.cr.ext]
             d == [w.cr EXCEPT !.fin = TRUE]
  <2>1. o.spec = mr[m].spec /\ o.ext = w.cr.ext
    BY <1>1 DEF Object
  <2>2. d \in Object /\ d.spec = w.cr.spec /\ d.ext = w.cr.ext
    BY <1>1 DEF Object
  <2>3. CASE Go(m, r, Proceed(w))
    BY <1>1, <1>2, <1>12, <2>3 DEF Traced
  <2>4. ASSUME NEW c \in Reloaded(m, d), Commit(m, r, o, Proceed([w EXCEPT !.cr = c]))
        PROVE  Traced(m, r)
    <3>1. c \in Object /\ c.spec = w.cr.spec /\ c.ext = w.cr.ext
      BY <1>1, <1>5, <2>2 DEF Reloaded, Object
    <3>2. [w EXCEPT !.cr = c] \in Work /\ [w EXCEPT !.cr = c].cr = c
      BY <1>1, <3>1 DEF Work
    <3>3. mr'[m] = o /\ v = Proceed([w EXCEPT !.cr = c])
      BY <1>3, <2>4
    <3>4. v.cr = c \/ (v.cr.spec = Spec0 /\ v.cr.ext = NoId)
      BY <1>12, <3>2, <3>3
    <3>5. QED
      BY <2>1, <3>1, <3>3, <3>4 DEF Traced
  <2>5. QED
    BY <1>13, <2>3, <2>4 DEF EnsureFinalizer
<1>14. CASE MarkPending(m, r)
  <2> DEFINE o == [mr[m] EXCEPT !.create = "pending", !.ext = w.cr.ext]
             d == [w.cr EXCEPT !.create = "pending"]
  <2>1. o.spec = mr[m].spec /\ o.ext = w.cr.ext
    BY <1>1 DEF Object
  <2>2. d \in Object /\ d.spec = w.cr.spec /\ d.ext = w.cr.ext
    BY <1>1 DEF Object
  <2>3. PICK c \in Reloaded(m, d) : Commit(m, r, o, [w EXCEPT !.pc = "create", !.cr = c])
    BY <1>14 DEF MarkPending
  <2>4. [w EXCEPT !.pc = "create", !.cr = c].cr = c
    BY <1>1 DEF Work
  <2>5. mr'[m] = o /\ v.cr = c
    BY <1>3, <2>3, <2>4
  <2>6. c.spec = w.cr.spec /\ c.ext = w.cr.ext
    BY <1>5, <2>2, <2>3
  <2>7. QED
    BY <2>1, <2>5, <2>6 DEF Traced
<1>15. CASE Annotate(m, r)
  <2> DEFINE o == [mr[m] EXCEPT !.ext = w.cr.ext, !.create = w.cr.create]
             x(c) == IF w.cr.create = "succeeded"
                       THEN [w EXCEPT !.pc = "publish", !.cr = c, !.stale = FALSE]
                       ELSE Close([w EXCEPT !.cr = c, !.stale = FALSE])
  <2>1. o.spec = mr[m].spec /\ o.ext = w.cr.ext
    BY <1>1 DEF Object
  <2>2. PICK c \in Reloaded(m, w.cr) : Commit(m, r, o, x(c))
    BY <1>15 DEF Annotate
  <2>3. x(c).cr = c \/ (x(c).cr.spec = Spec0 /\ x(c).cr.ext = NoId)
    BY <1>1, <1>4 DEF Work
  <2>4. mr'[m] = o /\ v = x(c)
    BY <1>3, <2>2
  <2>5. c.spec = w.cr.spec /\ c.ext = w.cr.ext
    BY <1>1, <1>5, <2>2
  <2>6. QED
    BY <2>1, <2>3, <2>4, <2>5 DEF Traced
<1>16. QED
  BY <1>6, <1>7, <1>8, <1>9, <1>10, <1>11, <1>13, <1>14, <1>15
  DEF SecretlessStep, RuntimeStep

LEMMA LoopNarrow ==
  ASSUME NEW D, NEW E, Spec0 \in D, Id \cup {NoId} \subseteq E,
         RuntimeTypeOK, Narrow(D, E), NEW m \in MR, NEW r \in Replica, SecretlessStep(m, r)
  PROVE  RuntimeTypeOK' /\ Framed(m, r) /\ Narrow(D, E)'
<1>1. RuntimeTypeOK' /\ Framed(m, r)
  BY RuntimeStepEffect, ReleaseMoves DEF SecretlessStep
<1>2. QED
  BY <1>1, RuntimeStepTraced, NarrowStays

\* The user edits the specification, within D.
Asks(m, D) ==
  /\ mr[m].phase = "live"
  /\ \E d \in D : Edit(m, [mr[m] EXCEPT !.spec = d])

LEMMA UserNarrow ==
  ASSUME NEW D, NEW E, D \subseteq Desired, RuntimeTypeOK, Narrow(D, E), NEW m \in MR,
         RequestDelete(m) \/ Asks(m, D) \/ ClearPending(m)
  PROVE  /\ RequestDelete(m) \/ Respecify(m) \/ ClearPending(m)
         /\ RuntimeTypeOK' /\ Narrow(D, E)'
<1>1. RequestDelete(m) \/ Respecify(m) \/ ClearPending(m)
  BY DEF Asks, Respecify
<1>2. PICK r : r \notin Replica
  BY NoSetContainsEverything
<1>3. RuntimeTypeOK' /\ Framed(m, r)
  BY <1>1, <1>2, UserMoves
<1>4. \E o \in Object : /\ Edit(m, o)
                        /\ o.spec \in D \cup {mr[m].spec} /\ o.ext = mr[m].ext
  <2>1. mr[m] \in Object
    BY DEF RuntimeTypeOK
  <2>2. CASE RequestDelete(m)
    <3> DEFINE o == [mr[m] EXCEPT !.phase = IF mr[m].fin THEN "deleting" ELSE "gone"]
    <3>1. o \in Object /\ o.spec = mr[m].spec /\ o.ext = mr[m].ext
      BY <2>1 DEF Object
    <3>2. QED
      BY <2>2, <3>1 DEF RequestDelete
  <2>3. CASE Asks(m, D)
    <3>1. PICK d \in D : Edit(m, [mr[m] EXCEPT !.spec = d])
      BY <2>3 DEF Asks
    <3> DEFINE o == [mr[m] EXCEPT !.spec = d]
    <3>2. o \in Object /\ o.spec = d /\ o.ext = mr[m].ext
      BY <2>1 DEF Object
    <3>3. QED
      BY <3>1, <3>2
  <2>4. CASE ClearPending(m)
    <3> DEFINE o == [mr[m] EXCEPT !.create = "never"]
    <3>1. o \in Object /\ o.spec = mr[m].spec /\ o.ext = mr[m].ext
      BY <2>1 DEF Object
    <3>2. QED
      BY <2>4, <3>1 DEF ClearPending
  <2>5. QED
    BY <2>2, <2>3, <2>4
<1>5. mr'[m].spec \in D /\ mr'[m].ext \in E
  BY <1>4, EditEffect DEF RuntimeTypeOK, Narrow
<1>6. \A l \in MR : mr'[l].spec \in D /\ mr'[l].ext \in E
  BY <1>3, <1>5 DEF Narrow, Framed
<1>7. \A l \in MR, s \in Replica : cache'[l][s].spec \in D /\ cache'[l][s].ext \in E
  BY <1>3, <1>6 DEF Narrow, Framed
<1>8. \A l \in MR, s \in Replica : work'[l][s].cr = work[l][s].cr
  BY <1>2, <1>3 DEF Framed, Overtaken
<1>9. QED
  BY <1>1, <1>3, <1>6, <1>7, <1>8 DEF Narrow

-----------------------------------------------------------------------------
(* What becomes of the identifiers *)

\* The status in memory is read anew, unless the server has none yet.
Rereads(m, w, v) ==
  v.cr.sid = mr[m].sid \/ (mr[m].sid = NoId /\ v.cr.sid = w.cr.sid)

\* Worker r of m is done, and may have stored the identifier in the status;
Drops(m, r) ==
  LET w == work[m][r]
      v == work'[m][r]
  IN
  /\ v.pc = "idle" /\ v.cr.ext = NoId /\ v.cr.sid = NoId
  /\ mr'[m].ext = mr[m].ext
  /\ \/ mr'[m].sid = mr[m].sid
     \/ w.pc = "status" /\ ~w.stale /\ mr'[m].sid = w.cr.sid

\* starts from the cache;
Takes(m, r) ==
  LET v == work'[m][r] IN
  /\ mr' = mr
  /\ v.stale <=> cache[m][r] # mr[m]
  /\ v.cr.sid = cache[m][r].sid
  /\ \/ v.pc = "observe" /\ v.cr.ext = cache[m][r].ext
     \/ v.pc = "status" /\ v.cr.ext = NoId

\* goes on or comes to its end with what it has;
Conveys(m, r) ==
  LET w == work[m][r]
      v == work'[m][r]
  IN
  /\ mr' = mr /\ w.pc # "idle" /\ (v.stale <=> w.stale) /\ v.cr.sid = w.cr.sid
  /\ \/ v.pc = "status" /\ v.cr.ext = NoId
     \/ /\ w.pc = "act" /\ v.pc \in {"pend", "update"}
        /\ v.obs = w.obs /\ v.cr = w.cr
     \/ /\ w.pc = "create" /\ v.pc = "annotate"
        /\ v.cr.create = "failed" /\ v.cr.ext = w.cr.ext

\* or stores the external name.
Hands(m, r) ==
  LET w == work[m][r]
      v == work'[m][r]
  IN
  /\ mr'[m].ext = w.cr.ext /\ mr'[m].sid = mr[m].sid /\ Rereads(m, w, v)
  /\ v.cr.ext \in {w.cr.ext, NoId}
  /\ v.pc # "status" => v.cr.ext = w.cr.ext /\ v.cr.phase = w.cr.phase /\ v.obs = w.obs
  /\ \/ w.pc = "act" /\ ~w.stale /\ v.pc \in {"pend", "update", "status"}
     \/ w.pc = "pend" /\ ~w.stale /\ v.pc = "create"
     \/ w.pc = "annotate" /\ w.cr.create = "succeeded" /\ v.pc = "publish"
     \/ w.pc = "annotate" /\ w.cr.create # "succeeded" /\ v.pc = "status"

LEMMA LoopIdentifiers ==
  ASSUME RuntimeTypeOK, NEW m \in MR, NEW r \in Replica, SecretlessStep(m, r)
  PROVE  \/ Drops(m, r) \/ Takes(m, r) \/ Conveys(m, r) \/ Hands(m, r)
         \/ work' = work /\ mr' = mr
<1> DEFINE w == work[m][r]
           v == work'[m][r]
<1>1. mr[m] \in Object /\ cache[m][r] \in Object /\ w \in Work /\ w.cr \in Object
  BY DEF RuntimeTypeOK, Work
<1>2. ASSUME NEW x, Go(m, r, x) PROVE mr' = mr /\ v = x
  BY <1>2 DEF Go, RuntimeTypeOK
<1>3. ASSUME NEW o, NEW x, Commit(m, r, o, x) PROVE mr'[m] = o /\ v = x
  BY <1>3 DEF Commit, RuntimeTypeOK
<1>4. /\ Idle.pc = "idle" /\ Idle.cr.ext = NoId /\ Idle.cr.sid = NoId
      /\ \A x : /\ Close(x).pc = "status" /\ Close(x).cr.ext = NoId
                /\ Close(x).cr.sid = x.cr.sid /\ Close(x).stale = x.stale
  BY DEF Idle, Fresh, Close
<1>5. \A o \in Object : \A c \in Reloaded(m, o) :
        /\ c \in Object /\ c.ext = o.ext /\ c.phase = o.phase /\ c.create = o.create
        /\ c.sid = mr[m].sid \/ (mr[m].sid = NoId /\ c.sid = o.sid)
  BY <1>1 DEF Reloaded, Object
<1>6. CASE Begin(m, r)
  <2> DEFINE b == [Idle EXCEPT !.pc = "observe", !.cr = cache[m][r],
                               !.stale = cache[m][r] # mr[m]]
  <2>1. /\ b.pc = "observe" /\ b.cr = cache[m][r]
        /\ b.stale <=> cache[m][r] # mr[m]
    BY DEF Idle
  <2>2. v = b \/ v = Close(b)
    BY <1>2, <1>6 DEF Begin
  <2>3. mr' = mr
    BY <1>2, <1>6 DEF Begin
  <2> HIDE DEF b
  <2>4. CASE v = b
    BY <2>1, <2>3, <2>4 DEF Takes
  <2>5. CASE v = Close(b)
    <3>1. /\ v.pc = "status" /\ v.cr.ext = NoId /\ v.cr.sid = cache[m][r].sid
          /\ v.stale = b.stale
      BY <1>4, <2>1, <2>5
    <3>2. QED
      BY <2>1, <2>3, <3>1 DEF Takes
  <2>6. QED
    BY <2>2, <2>4, <2>5
<1>7. CASE AwaitGrace(m, r) \/ Abandon(m, r)
  BY <1>2, <1>4, <1>7 DEF AwaitGrace, Abandon, Drops
<1>8. CASE StepFails(m, r)
  BY <1>2, <1>4, <1>8 DEF StepFails, Conveys
<1>9. CASE CreateRefused(m, r)
  <2> DEFINE x == [w EXCEPT !.pc = "annotate", !.cr.create = "failed"]
  <2>1. /\ x.pc = "annotate" /\ x.cr.create = "failed" /\ x.stale = w.stale
        /\ x.cr.ext = w.cr.ext /\ x.cr.sid = w.cr.sid
    BY <1>1 DEF Work, Object
  <2>2. mr' = mr /\ v = x
    BY <1>2, <1>9 DEF CreateRefused
  <2>3. QED
    BY <1>9, <2>1, <2>2 DEF CreateRefused, Conveys
<1>10. CASE SyncCache(m, r)
  BY <1>10 DEF SyncCache
<1>11. CASE Release(m, r)
  <2> DEFINE o == [mr[m] EXCEPT !.phase = "gone", !.fin = FALSE]
  <2>1. o.sid = mr[m].sid /\ o.ext = mr[m].ext
    BY <1>1 DEF Object
  <2>2. mr'[m] = o /\ v = Idle
    BY <1>3, <1>11 DEF Release
  <2>3. QED
    BY <1>4, <2>1, <2>2 DEF Drops
<1>12. CASE ReportStatus(m, r)
  <2> DEFINE o == [mr[m] EXCEPT !.sid = w.cr.sid]
  <2>1. o.sid = w.cr.sid /\ o.ext = mr[m].ext
    BY <1>1 DEF Object
  <2>2. CASE w.stale
    <3>1. mr' = mr /\ v = Idle
      BY <1>2, <1>12, <2>2 DEF ReportStatus
    <3>2. QED
      BY <1>4, <3>1 DEF Drops
  <2>3. CASE ~w.stale
    <3>1. mr'[m] = o /\ v = Idle
      BY <1>3, <1>12, <2>3 DEF ReportStatus
    <3>2. QED
      BY <1>4, <1>12, <2>1, <2>3, <3>1 DEF ReportStatus, Drops
  <2>4. QED
    BY <2>2, <2>3
<1>13. ASSUME NEW x \in Work
       PROVE  \/ /\ Proceed(x).pc = "pend" \/ Proceed(x).pc = "update"
                 /\ Proceed(x).cr = x.cr /\ Proceed(x).obs = x.obs
                 /\ Proceed(x).stale = x.stale
              \/ Proceed(x) = Close(x)
  BY DEF Proceed, Work
<1>14. CASE EnsureFinalizer(m, r)
  <2> DEFINE o == [mr[m] EXCEPT !.fin = TRUE, !.ext = w.cr.ext]
             d == [w.cr EXCEPT !.fin = TRUE]
  <2>1. o.sid = mr[m].sid /\ o.ext = w.cr.ext
    BY <1>1 DEF Object
  <2>2. d \in Object /\ d.ext = w.cr.ext /\ d.phase = w.cr.phase /\ d.sid = w.cr.sid
    BY <1>1 DEF Object
  <2>3. w.pc = "act"
    BY <1>14 DEF EnsureFinalizer
  <2>4. CASE Go(m, r, Proceed(w))
    <3>1. mr' = mr /\ v = Proceed(w)
      BY <1>2, <2>4
    <3>2. QED
      BY <1>1, <1>4, <1>13, <2>3, <3>1 DEF Conveys
  <2>5. ASSUME ~w.stale, NEW c \in Reloaded(m, d),
               Commit(m, r, o, Proceed([w EXCEPT !.cr = c]))
        PROVE  Hands(m, r)
    <3> DEFINE x == [w EXCEPT !.cr = c]
    <3>1. /\ c \in Object /\ c.ext = w.cr.ext /\ c.phase = w.cr.phase
          /\ c.sid = mr[m].sid \/ (mr[m].sid = NoId /\ c.sid = w.cr.sid)
      BY <1>5, <2>2
    <3>2. x \in Work /\ x.cr = c /\ x.obs = w.obs /\ x.stale = w.stale
      BY <1>1, <3>1 DEF Work
    <3> HIDE DEF x
    <3>3. mr'[m] = o /\ v = Proceed(x)
      BY <1>3, <2>5 DEF x
    <3>4. CASE v = Close(x)
      BY <1>4, <2>1, <2>3, <2>5, <3>1, <3>2, <3>3, <3>4 DEF Hands, Rereads
    <3>5. CASE v.pc \in {"pend", "update"} /\ v.cr = x.cr /\ v.obs = x.obs
      BY <2>1, <2>3, <2>5, <3>1, <3>2, <3>3, <3>5 DEF Hands, Rereads
    <3>6. QED
      BY <1>13, <3>2, <3>3, <3>4, <3>5
  <2>6. QED
    BY <1>14, <2>4, <2>5 DEF EnsureFinalizer
<1>15. CASE MarkPending(m, r)
  <2> DEFINE o == [mr[m] EXCEPT !.create = "pending", !.ext = w.cr.ext]
             d == [w.cr EXCEPT !.create = "pending"]
  <2>1. o.sid = mr[m].sid /\ o.ext = w.cr.ext
    BY <1>1 DEF Object
  <2>2. d \in Object /\ d.ext = w.cr.ext /\ d.phase = w.cr.phase /\ d.sid = w.cr.sid
    BY <1>1 DEF Object
  <2>3. PICK c \in Reloaded(m, d) : Commit(m, r, o, [w EXCEPT !.pc = "create", !.cr = c])
    BY <1>15 DEF MarkPending
  <2> DEFINE x == [w EXCEPT !.pc = "create", !.cr = c]
  <2>4. x.pc = "create" /\ x.cr = c /\ x.obs = w.obs
    BY <1>1 DEF Work
  <2>5. mr'[m] = o /\ v = x
    BY <1>3, <2>3
  <2>6. /\ c.ext = w.cr.ext /\ c.phase = w.cr.phase
        /\ c.sid = mr[m].sid \/ (mr[m].sid = NoId /\ c.sid = w.cr.sid)
    BY <1>5, <2>2
  <2>7. QED
    BY <1>15, <2>1, <2>4, <2>5, <2>6 DEF MarkPending, Hands, Rereads
<1>16. CASE Annotate(m, r)
  <2> DEFINE o == [mr[m] EXCEPT !.ext = w.cr.ext, !.create = w.cr.create]
             x(c) == [w EXCEPT !.pc = "publish", !.cr = c, !.stale = FALSE]
             y(c) == [w EXCEPT !.cr = c, !.stale = FALSE]
  <2>1. o.sid = mr[m].sid /\ o.ext = w.cr.ext
    BY <1>1 DEF Object
  <2>2. PICK c \in Reloaded(m, w.cr) :
          Commit(m, r, o, IF w.cr.create = "succeeded" THEN x(c) ELSE Close(y(c)))
    BY <1>16 DEF Annotate
  <2>3. /\ x(c).pc = "publish" /\ x(c).cr = c /\ x(c).obs = w.obs
        /\ y(c).cr = c
    BY <1>1 DEF Work
  <2>4. mr'[m] = o /\ v = IF w.cr.create = "succeeded" THEN x(c) ELSE Close(y(c))
    BY <1>3, <2>2
  <2>5. /\ c.ext = w.cr.ext /\ c.phase = w.cr.phase
        /\ c.sid = mr[m].sid \/ (mr[m].sid = NoId /\ c.sid = w.cr.sid)
    BY <1>1, <1>5
  <2>6. w.pc = "annotate"
    BY <1>16 DEF Annotate
  <2> HIDE DEF x, y, o
  <2>7. CASE w.cr.create = "succeeded"
    BY <2>1, <2>3, <2>4, <2>5, <2>6, <2>7 DEF Hands, Rereads
  <2>8. CASE w.cr.create # "succeeded"
    BY <1>4, <2>1, <2>3, <2>4, <2>5, <2>6, <2>8 DEF Hands, Rereads
  <2>9. QED
    BY <2>7, <2>8
<1>17. QED
  BY <1>6, <1>7, <1>8, <1>9, <1>10, <1>11, <1>12, <1>14, <1>15, <1>16
  DEF SecretlessStep, RuntimeStep

\* Users and operators leave the identifiers alone.
LEMMA UserIdentifiers ==
  ASSUME RuntimeTypeOK, NEW m \in MR,
         RequestDelete(m) \/ Respecify(m) \/ ClearPending(m)
  PROVE  mr'[m].ext = mr[m].ext /\ mr'[m].sid = mr[m].sid
BY DEF RuntimeTypeOK, Object, RequestDelete, Respecify, ClearPending, Edit

-----------------------------------------------------------------------------
(* What handlers make of a worker *)

\* A handler never writes to the API server.
Moved(m, r) == RuntimeTypeOK' /\ Framed(m, r) /\ Traced(m, r)

LEMMA GoMoved ==
  ASSUME RuntimeTypeOK, NEW m \in MR, NEW r \in Replica, NEW x \in Work, Go(m, r, x),
         x.cr.spec \in {work[m][r].cr.spec, Spec0},
         x.cr.ext \in {work[m][r].cr.ext, NoId} \cup Id
  PROVE  Moved(m, r) /\ work'[m][r] = x /\ mr' = mr
<1>1. RuntimeTypeOK' /\ Framed(m, r) /\ work'[m][r] = x /\ mr' = mr
  BY GoFramed, GoEffect
<1>2. QED
  BY <1>1 DEF Moved, Traced

\* Worker r of m goes on to act, with e and s as the identifiers in memory.
Acts(m, r, e, s) ==
  LET w == work[m][r]
      v == work'[m][r]
  IN
  /\ mr' = mr /\ v.pc = "act" /\ (v.stale <=> w.stale)
  /\ v.cr.ext = e /\ v.cr.sid = s
  /\ v.cr.phase = w.cr.phase /\ v.cr.create = w.cr.create

\* Something is found.
LEMMA Reported ==
  ASSUME RuntimeTypeOK, NEW m \in MR, NEW r \in Replica,
         work[m][r].pc \in {"observe", "list"},
         NEW e \in Id, NEW s \in StatusId, NEW verdict \in {"uptodate", "outdated"},
         Go(m, r, [work[m][r] EXCEPT !.pc = "act", !.obs = verdict,
                                     !.cr.ext = e, !.cr.sid = s])
  PROVE  /\ Moved(m, r) /\ Looks(m, r, FALSE) /\ Acts(m, r, e, s)
         /\ work'[m][r].obs # "missing"
<1> DEFINE w == work[m][r]
           x == [w EXCEPT !.pc = "act", !.obs = verdict, !.cr.ext = e, !.cr.sid = s]
<1>1. w \in Work
  BY DEF RuntimeTypeOK
<1>2. /\ x \in Work /\ x.pc = "act" /\ x.obs = verdict
      /\ x.cr.ext = e /\ x.cr.sid = s /\ x.cr.spec = w.cr.spec
      /\ x.cr.phase = w.cr.phase /\ x.cr.create = w.cr.create
      /\ (x.cr.fin <=> w.cr.fin) /\ (x.stale <=> w.stale)
  BY <1>1 DEF Work, PC, Object, ExtName
<1>3. Moved(m, r) /\ work'[m][r] = x /\ mr' = mr
  BY <1>2, GoMoved
<1>4. QED
  BY <1>2, <1>3 DEF Looks, Acts

\* It is, and the external name stays what it is.
LEMMA ReportedNamed ==
  ASSUME RuntimeTypeOK, NEW m \in MR, NEW r \in Replica,
         work[m][r].pc \in {"observe", "list"},
         NEW s \in StatusId, NEW verdict \in {"uptodate", "outdated"},
         Go(m, r, [work[m][r] EXCEPT !.pc = "act", !.obs = verdict, !.cr.sid = s])
  PROVE  /\ Moved(m, r) /\ Looks(m, r, FALSE) /\ Acts(m, r, work[m][r].cr.ext, s)
         /\ work'[m][r].obs # "missing"
<1> DEFINE w == work[m][r]
           x == [w EXCEPT !.pc = "act", !.obs = verdict, !.cr.sid = s]
<1>1. w \in Work
  BY DEF RuntimeTypeOK
<1>2. /\ x \in Work /\ x.pc = "act" /\ x.obs = verdict
      /\ x.cr.ext = w.cr.ext /\ x.cr.sid = s /\ x.cr.spec = w.cr.spec
      /\ x.cr.phase = w.cr.phase /\ x.cr.create = w.cr.create
      /\ (x.cr.fin <=> w.cr.fin) /\ (x.stale <=> w.stale)
  BY <1>1 DEF Work, PC, Object
<1>3. Moved(m, r) /\ work'[m][r] = x /\ mr' = mr
  BY <1>2, GoMoved
<1>4. QED
  BY <1>2, <1>3 DEF Looks, Acts

\* Nothing is found.
LEMMA ReportedMissing ==
  ASSUME RuntimeTypeOK, NEW m \in MR, NEW r \in Replica,
         work[m][r].pc \in {"observe", "list"},
         Go(m, r, [work[m][r] EXCEPT !.pc = "act", !.obs = "missing"])
  PROVE  /\ Moved(m, r) /\ Looks(m, r, TRUE)
         /\ Acts(m, r, work[m][r].cr.ext, work[m][r].cr.sid)
         /\ work'[m][r].obs = "missing"
<1> DEFINE w == work[m][r]
           x == [w EXCEPT !.pc = "act", !.obs = "missing"]
<1>1. w \in Work
  BY DEF RuntimeTypeOK
<1>2. x \in Work /\ x.pc = "act" /\ x.obs = "missing" /\ x.cr = w.cr /\ x.stale = w.stale
  BY <1>1 DEF Work, PC
<1>3. Moved(m, r) /\ work'[m][r] = x /\ mr' = mr
  BY <1>1, <1>2, GoMoved
<1>4. QED
  BY <1>2, <1>3 DEF Looks, Acts

\* It is still to be listed.
LEMMA ListedNext ==
  ASSUME RuntimeTypeOK, NEW m \in MR, NEW r \in Replica, work[m][r].pc = "observe",
         Go(m, r, [work[m][r] EXCEPT !.pc = "list"])
  PROVE  /\ Moved(m, r) /\ Looks(m, r, FALSE) /\ work'[m][r].pc = "list"
<1> DEFINE w == work[m][r]
           x == [w EXCEPT !.pc = "list"]
<1>1. w \in Work
  BY DEF RuntimeTypeOK
<1>2. /\ x \in Work /\ x.pc = "list" /\ x.obs = w.obs /\ x.cr = w.cr
      /\ x.stale = w.stale
  BY <1>1 DEF Work, PC
<1>3. Moved(m, r) /\ work'[m][r] = x /\ mr' = mr
  BY <1>1, <1>2, GoMoved
<1>4. QED
  BY <1>2, <1>3 DEF Looks

\* Create has been called; its reply may be lost, or tell of nobody.
LEMMA Created ==
  ASSUME RuntimeTypeOK, NEW m \in MR, NEW r \in Replica, work[m][r].pc = "create",
         NEW k \in Id, NEW heard \in BOOLEAN,
         Go(m, r, IF heard
                    THEN [work[m][r] EXCEPT !.pc = "annotate", !.cr.ext = k,
                                            !.cr.create = "succeeded"]
                    ELSE [work[m][r] EXCEPT !.pc = "annotate", !.cr.create = "failed"])
  PROVE  /\ Moved(m, r) /\ Makes(m, r)
         /\ work'[m][r].cr.sid = work[m][r].cr.sid
         /\ work'[m][r].cr.phase = work[m][r].cr.phase
         /\ \/ work'[m][r].cr.create = "succeeded" /\ work'[m][r].cr.ext = k
            \/ work'[m][r].cr.create = "failed" /\ work'[m][r].cr.ext = work[m][r].cr.ext
<1> DEFINE w == work[m][r]
           x == [w EXCEPT !.pc = "annotate", !.cr.ext = k, !.cr.create = "succeeded"]
           y == [w EXCEPT !.pc = "annotate", !.cr.create = "failed"]
<1>1. w \in Work
  BY DEF RuntimeTypeOK
<1>2. /\ x \in Work /\ x.pc = "annotate" /\ x.cr.create = "succeeded" /\ x.cr.ext = k
      /\ x.cr.sid = w.cr.sid /\ x.cr.spec = w.cr.spec /\ x.cr.phase = w.cr.phase
  BY <1>1 DEF Work, PC, Object, ExtName
<1>3. /\ y \in Work /\ y.pc = "annotate" /\ y.cr.create = "failed"
      /\ y.cr.ext = w.cr.ext
      /\ y.cr.sid = w.cr.sid /\ y.cr.spec = w.cr.spec /\ y.cr.phase = w.cr.phase
  BY <1>1 DEF Work, PC, Object
<1>4. CASE heard
  <2>1. Moved(m, r) /\ work'[m][r] = x /\ mr' = mr
    BY <1>2, <1>4, GoMoved
  <2>2. QED
    BY <1>2, <2>1 DEF Makes
<1>5. CASE ~heard
  <2>1. Moved(m, r) /\ work'[m][r] = y /\ mr' = mr
    BY <1>3, <1>5, GoMoved
  <2>2. QED
    BY <1>3, <2>1 DEF Makes
<1>6. QED
  BY <1>4, <1>5

LEMMA CreatedNobody ==
  ASSUME RuntimeTypeOK, NEW m \in MR, NEW r \in Replica, work[m][r].pc = "create",
         Go(m, r, [work[m][r] EXCEPT !.pc = "annotate", !.cr.create = "succeeded"])
  PROVE  Moved(m, r) /\ Makes(m, r)
<1> DEFINE w == work[m][r]
           x == [w EXCEPT !.pc = "annotate", !.cr.create = "succeeded"]
<1>1. w \in Work
  BY DEF RuntimeTypeOK
<1>2. /\ x \in Work /\ x.pc = "annotate" /\ x.cr.create = "succeeded"
      /\ x.cr.ext = w.cr.ext /\ x.cr.spec = w.cr.spec
  BY <1>1 DEF Work, PC, Object
<1>3. Moved(m, r) /\ work'[m][r] = x /\ mr' = mr
  BY <1>2, GoMoved
<1>4. QED
  BY <1>2, <1>3 DEF Makes

\* The last call of a reconcile is over.
LEMMA Closed ==
  ASSUME RuntimeTypeOK, NEW m \in MR, NEW r \in Replica, Go(m, r, Close(work[m][r]))
  PROVE  /\ Moved(m, r) /\ Stops(m, r)
         /\ work'[m][r].pc = "status" /\ work'[m][r].cr.sid = work[m][r].cr.sid
         /\ work'[m][r].cr.ext = NoId /\ (work'[m][r].stale <=> work[m][r].stale)
<1> DEFINE w == work[m][r]
<1>1. w \in Work /\ Close(w) \in Work
  BY WorkTypes DEF RuntimeTypeOK
<1>2. /\ Close(w).cr.spec = Spec0 /\ Close(w).cr.ext = NoId
      /\ Close(w).cr.sid = w.cr.sid /\ Close(w).stale = w.stale
  BY DEF Close, Idle, Fresh
<1>3. Moved(m, r) /\ work'[m][r] = Close(w) /\ mr' = mr
  BY <1>1, <1>2, GoMoved
<1>4. QED
  BY <1>1, <1>2, <1>3, CloseFields DEF Stops
=============================================================================
