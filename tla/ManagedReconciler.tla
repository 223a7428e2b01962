------------------------- MODULE ManagedReconciler -------------------------
(***************************************************************************)
(* The runtime loop that drives every controller of the provider: the      *)
(* managed reconciler of crossplane-runtime v1.16, as the controllers      *)
(* under internal/controller use it.  The library is not part of the       *)
(* repository; what is here is the contract the controllers' own comments  *)
(* and Setup functions rely on:                                            *)
(*                                                                         *)
(*   read the object from a cache that may lag                             *)
(*   -> stop if an earlier create never reported its outcome               *)
(*   -> Observe -> (delete) | (finalizer -> create | update | nothing)     *)
(*   -> write the status.                                                  *)
(*                                                                         *)
(* Every write but one is conditional on the resource version the worker   *)
(* read ("stale" below).  A status write persists the status and never     *)
(* the annotations; a full write persists the annotations and never the    *)
(* status.  The one unconditional write is Annotate, which retries on a    *)
(* conflict and merges the annotations into the newest object.             *)
(*                                                                         *)
(* A kind's module EXTENDS this one, adds the NetBird side and conjoins    *)
(* its effect to the steps below.                                          *)
(***************************************************************************)
EXTENDS FiniteSets

CONSTANTS
  MR,        \* managed resources of one kind
  Replica,   \* provider processes; leader election is off by default
  Id,        \* identifiers NetBird hands out
  NoId,      \* the empty string
  ObjName,   \* metadata.name, what the default initializer once annotated
  DispName,  \* spec.forProvider.name, the NetBird display name
  Spec0,     \* what spec.forProvider asks for when the object is created
  Desired    \* everything it may be edited to ask for

ASSUME IdentityAssumption ==
  /\ NoId \notin Id
  /\ ObjName \notin Id \cup {NoId}
  /\ DispName \notin Id \cup {NoId}

ASSUME DesiredAssumption == Spec0 \in Desired

VARIABLES
  mr,        \* mr[m]: the object the API server holds
  cache,     \* cache[m][r]: the informer copy replica r reads
  work       \* work[m][r]: the reconcile of m in progress at replica r

runtimeVars == <<mr, cache, work>>

-----------------------------------------------------------------------------
(* State *)

Hints    == {NoId, ObjName, DispName}
StatusId == Id \cup {NoId}
ExtName  == Id \cup Hints

\* "ext" is the crossplane.io/external-name annotation, "create" the newest of
\* the external-create-* annotations and "sid" status.atProvider.id, all the
\* rest of the status that a handler ever reads back.  "spec" stands for the
\* fields of spec.forProvider that Update sends.
Object == [phase  : {"live", "deleting", "gone"},
           fin    : BOOLEAN,
           ext    : ExtName,
           create : {"never", "pending", "succeeded", "failed"},
           sid    : StatusId,
           spec   : Desired]

PC == {"idle", "observe", "list", "act", "pend", "create", "annotate",
       "publish", "update", "status"}

\* "cr" is the in-memory object the handlers mutate, "obs" what Observe
\* returned, "stale" whether the API server's copy has moved on since "cr" was
\* read or last written.
Work == [pc    : PC,
         cr    : Object,
         obs   : {"none", "missing", "outdated", "uptodate"},
         stale : BOOLEAN]

Fresh == [phase |-> "live", fin |-> FALSE, ext |-> NoId, create |-> "never",
          sid |-> NoId, spec |-> Spec0]

Idle == [pc |-> "idle", cr |-> Fresh, obs |-> "none", stale |-> FALSE]

RuntimeTypeOK ==
  /\ mr \in [MR -> Object]
  /\ cache \in [MR -> [Replica -> Object]]
  /\ work \in [MR -> [Replica -> Work]]

\* The user's manifest may carry an external name: none, the object name (an
\* older provider defaulted it), a display name or an identifier to import.
RuntimeInit(importable) ==
  /\ mr \in [MR -> {[Fresh EXCEPT !.ext = e] : e \in Hints \cup importable}]
  /\ cache = [m \in MR |-> [r \in Replica |-> mr[m]]]
  /\ work = [m \in MR |-> [r \in Replica |-> Idle]]

-----------------------------------------------------------------------------
(* Writing to the API server *)

Outdate(w, changed) ==
  IF changed /\ w.pc # "idle" THEN [w EXCEPT !.stale = TRUE] ELSE w

\* Worker r of m stores obj and continues as w; every other worker of m now
\* holds an old resource version.
Commit(m, r, obj, w) ==
  /\ mr' = [mr EXCEPT ![m] = obj]
  /\ work' = [work EXCEPT ![m] = [s \in Replica |->
                IF s = r THEN w ELSE Outdate(work[m][s], obj # mr[m])]]
  /\ UNCHANGED cache

\* A user or operator stores obj.
Edit(m, obj) ==
  /\ mr' = [mr EXCEPT ![m] = obj]
  /\ work' = [work EXCEPT ![m] = [s \in Replica |->
                Outdate(work[m][s], obj # mr[m])]]
  /\ UNCHANGED cache

\* Worker r of m continues as w without a write.
Go(m, r, w) ==
  /\ work' = [work EXCEPT ![m] = [work[m] EXCEPT ![r] = w]]
  /\ UNCHANGED <<mr, cache>>

\* The response of a full write is decoded over the in-memory object: its
\* status replaces the one in memory, unless the server has none yet.
Reloaded(m, cr) ==
  {[cr EXCEPT !.sid = mr[m].sid]} \cup (IF mr[m].sid = NoId THEN {cr} ELSE {})

\* All that is left of w is to write the status it holds in memory.
Close(w) == [Idle EXCEPT !.pc = "status", !.cr.sid = w.cr.sid, !.stale = w.stale]

-----------------------------------------------------------------------------
(* Steps every kind shares *)

\* Reconcile starts from the cached object.  A pending create whose outcome
\* was never recorded stops the reconcile, deleted or not.
Begin(m, r) ==
  LET c == cache[m][r]
      w == [Idle EXCEPT !.pc = "observe", !.cr = c, !.stale = c # mr[m]]
  IN
  /\ work[m][r].pc = "idle"
  /\ c.phase # "gone"
  /\ Go(m, r, IF c.create = "pending" THEN Close(w) ELSE w)

\* Within the grace period after a successful create, "missing" is not trusted.
AwaitGrace(m, r) ==
  /\ work[m][r].pc = "act"
  /\ work[m][r].obs = "missing"
  /\ work[m][r].cr.create = "succeeded"
  /\ Go(m, r, Idle)

Proceed(w) ==
  CASE w.obs = "missing"  -> [w EXCEPT !.pc = "pend"]
    [] w.obs = "outdated" -> [w EXCEPT !.pc = "update"]
    [] OTHER              -> Close(w)

\* A live object gets its finalizer; the write also stores the external name
\* Observe left in memory.  With the finalizer in place nothing is written.
EnsureFinalizer(m, r) ==
  LET w == work[m][r] IN
  /\ w.pc = "act"
  /\ w.cr.phase = "live"
  /\ \/ /\ w.cr.fin
        /\ Go(m, r, Proceed(w))
     \/ /\ ~w.cr.fin
        /\ ~w.stale
        /\ \E c \in Reloaded(m, [w.cr EXCEPT !.fin = TRUE]) :
             Commit(m, r, [mr[m] EXCEPT !.fin = TRUE, !.ext = w.cr.ext],
                    Proceed([w EXCEPT !.cr = c]))

\* external-create-pending is stored before Create is called.
MarkPending(m, r) ==
  LET w == work[m][r] IN
  /\ w.pc = "pend"
  /\ ~w.stale
  /\ \E c \in Reloaded(m, [w.cr EXCEPT !.create = "pending"]) :
       Commit(m, r, [mr[m] EXCEPT !.create = "pending", !.ext = w.cr.ext],
              [w EXCEPT !.pc = "create", !.cr = c])

\* Create returned an error: external-create-failed is recorded.
CreateRefused(m, r) ==
  LET w == work[m][r] IN
  /\ w.pc = "create"
  /\ Go(m, r, [w EXCEPT !.pc = "annotate", !.cr.create = "failed"])

\* The outcome of Create and the external name are merged into the newest
\* object, whatever its version.
Annotate(m, r) ==
  LET w == work[m][r] IN
  /\ w.pc = "annotate"
  /\ mr[m].phase # "gone"
  /\ \E c \in Reloaded(m, w.cr) :
       Commit(m, r, [mr[m] EXCEPT !.ext = w.cr.ext, !.create = w.cr.create],
              IF w.cr.create = "succeeded"
                THEN [w EXCEPT !.pc = "publish", !.cr = c, !.stale = FALSE]
                ELSE Close([w EXCEPT !.cr = c, !.stale = FALSE]))

\* A call of the step failed before it had any effect, or lost the race on the
\* resource version: the error becomes a condition and the status is written.
\* A failing Create is CreateRefused; after a create only Annotate and the
\* publication are left to fail.
StepFails(m, r) ==
  /\ work[m][r].pc \in {"observe", "list", "act", "pend", "annotate", "publish", "update"}
  /\ Go(m, r, Close(work[m][r]))

\* The closing status write; on a conflict the reconcile is simply retried.
ReportStatus(m, r) ==
  LET w == work[m][r] IN
  /\ w.pc = "status"
  /\ IF w.stale
       THEN Go(m, r, Idle)
       ELSE Commit(m, r, [mr[m] EXCEPT !.sid = w.cr.sid], Idle)

\* A deleted object whose external resource is gone loses its finalizer.
Release(m, r) ==
  LET w == work[m][r] IN
  /\ w.pc = "act"
  /\ w.cr.phase = "deleting"
  /\ w.obs = "missing"
  /\ ~w.stale
  /\ Commit(m, r, [mr[m] EXCEPT !.phase = "gone", !.fin = FALSE], Idle)

\* The process dies or the reconcile's context expires: what was in memory is
\* lost.  The closing status write may be lost the same way.
Abandon(m, r) ==
  /\ work[m][r].pc # "idle"
  /\ Go(m, r, Idle)

\* The watch delivers the newest object.
SyncCache(m, r) ==
  /\ cache[m][r] # mr[m]
  /\ cache' = [cache EXCEPT ![m] = [cache[m] EXCEPT ![r] = mr[m]]]
  /\ UNCHANGED <<mr, work>>

\* What a replica does between the calls of the handlers, short of letting go of
\* an object: that is for a kind with a connection secret to refine.
RuntimeStep(m, r) ==
  \/ Begin(m, r) \/ AwaitGrace(m, r) \/ EnsureFinalizer(m, r)
  \/ MarkPending(m, r) \/ CreateRefused(m, r) \/ Annotate(m, r)
  \/ StepFails(m, r) \/ ReportStatus(m, r) \/ Abandon(m, r)
  \/ SyncCache(m, r)

SecretlessStep(m, r) == RuntimeStep(m, r) \/ Release(m, r)

\* A deleted object whose management policies leave out Delete loses its finalizer
\* before anything is observed.
LetGo(m, r) ==
  /\ work[m][r].pc = "idle"
  /\ cache[m][r] = mr[m]
  /\ Commit(m, r, [mr[m] EXCEPT !.phase = "gone", !.fin = FALSE], work[m][r])

\* "kept" are the specifications with such policies.
PolicyStep(m, r, kept) ==
  LET c == cache[m][r] IN
  IF work[m][r].pc = "idle" /\ c.phase = "deleting" /\ c.spec \in kept
    THEN LetGo(m, r) \/ SyncCache(m, r)
    ELSE SecretlessStep(m, r)

\* Steps that fail or stop half-way, or do not count the external resource of a
\* recent create as lost yet.
Breakdown(m, r) ==
  Abandon(m, r) \/ AwaitGrace(m, r) \/ StepFails(m, r) \/ CreateRefused(m, r)

\* The user deletes the object; without a finalizer it disappears at once.
RequestDelete(m) ==
  /\ mr[m].phase = "live"
  /\ Edit(m, [mr[m] EXCEPT !.phase = IF mr[m].fin THEN "deleting" ELSE "gone"])

\* The user edits the specification.
Respecify(m) ==
  /\ mr[m].phase = "live"
  /\ \E d \in Desired : Edit(m, [mr[m] EXCEPT !.spec = d])

\* The operator clears a pending annotation nobody is going to resolve.
Unresolved(m) ==
  /\ mr[m].create = "pending"
  /\ \A r \in Replica : work[m][r].pc \notin {"create", "annotate"}

ClearPending(m) ==
  /\ Unresolved(m)
  /\ Edit(m, [mr[m] EXCEPT !.create = "never"])
=============================================================================
