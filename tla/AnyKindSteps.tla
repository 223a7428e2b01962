----------------------------- MODULE AnyKindSteps -----------------------------
(***************************************************************************)
(* What the steps of each kind of AnyKind do, for any number of resources, *)
(* replicas and objects.                                                   *)
(***************************************************************************)
EXTENDS AnyKind, ManagedReconcilerProofs

-----------------------------------------------------------------------------
(* What is at NetBird, and what becomes of it *)

\* Most kinds take the object and the display name for the same.
Names == Id \cup {NoId, ObjName}

\* What a kind of the account may have there.
Thing(C) == [state : {"unborn", "live", "deleted", "lost"}, of : MR, holds : C]

\* The objects of m that exist.
Present(m) == {k \in Id : account[k].state = "live" /\ account[k].of = m}

\* An object of m comes to be;
Grows(m) ==
  \E k \in Id : /\ account[k].state = "unborn"
                /\ account'[k].state = "live" /\ account'[k].of = m
                /\ \A j \in Id : j # k => account'[j] = account[j]

\* or objects are overwritten and go.
Fades ==
  \A k \in Id : /\ account'[k].of = account[k].of
                /\ \/ account'[k].state = account[k].state
                   \/ /\ account[k].state = "live"
                      /\ account'[k].state \in {"deleted", "lost"}

LEMMA SameFades == account' = account => Fades
BY DEF Fades

LEMMA PostGrows ==
  ASSUME NEW C, account \in [Id -> Thing(C)], NEW k \in Id, account[k].state = "unborn",
         NEW m \in MR, NEW c \in C,
         account' = [account EXCEPT ![k] = [state |-> "live", of |-> m, holds |-> c]]
  PROVE  account' \in [Id -> Thing(C)] /\ Grows(m)
BY DEF Thing, Grows

LEMMA PutFades ==
  ASSUME NEW C, account \in [Id -> Thing(C)], NEW k \in Id, NEW c \in C,
         account' = [account EXCEPT ![k].holds = c]
  PROVE  account' \in [Id -> Thing(C)] /\ Fades
<1> DEFINE o == [account[k] EXCEPT !.holds = c]
<1>1. o \in Thing(C) /\ o.of = account[k].of /\ o.state = account[k].state
  BY DEF Thing
<1>2. account' = [account EXCEPT ![k] = o]
  OBVIOUS
<1>3. QED
  BY <1>1, <1>2 DEF Fades

LEMMA RemoveFades ==
  ASSUME NEW C, account \in [Id -> Thing(C)], NEW k \in Id, account[k].state = "live",
         NEW c \in C, NEW left \in {"deleted", "lost"},
         account' = [account EXCEPT ![k] = [account[k] EXCEPT !.state = left, !.holds = c]]
  PROVE  account' \in [Id -> Thing(C)] /\ Fades
<1> DEFINE o == [account[k] EXCEPT !.state = left, !.holds = c]
<1>1. o \in Thing(C) /\ o.of = account[k].of /\ o.state = left
  BY DEF Thing
<1>2. QED
  BY <1>1 DEF Fades

-----------------------------------------------------------------------------
(* What all kinds have in common but those that are always there *)

\* At the start one object may be there, and its identifier known.
Opens ==
  \E born \in SUBSET Id, o \in MR :
    /\ \A j, k \in born : j = k
    /\ RuntimeInit(born)
    /\ \A k \in Id : /\ account[k].of = o
                     /\ account[k].state = IF k \in born THEN "live" ELSE "unborn"

\* A handler's step of worker r of m, which may take m to have nothing at NetBird
\* if "void".
Handles(m, r, void) ==
  /\ Moved(m, r)
  /\ \/ Looks(m, r, void) /\ account' = account
     \/ Makes(m, r) /\ (account' = account \/ Grows(m))
     \/ Stops(m, r) /\ Fades

\* A step of any other origin; persons come, too.
Edits ==
  \/ /\ \E m \in MR : RequestDelete(m) \/ Respecify(m) \/ ClearPending(m)
     /\ account' = account
  \/ UNCHANGED runtimeVars /\ (Fades \/ kind = "person")

\* V are the resources with nothing at NetBird.
Evolves(V) ==
  \/ \E m \in MR, r \in Replica : SecretlessStep(m, r) /\ account' = account
  \/ \E m \in MR, r \in Replica : Handles(m, r, m \in V)
  \/ Edits

\* What the types of a kind come to: its specifications, its external names and
\* what it has at NetBird.
Typed(D, E, T) == RuntimeTypeOK /\ Narrow(D, E) /\ account \in [Id -> T]

LEMMA LoopTyped ==
  ASSUME NEW D, NEW E, NEW T, Spec0 \in D, Id \cup {NoId} \subseteq E, Typed(D, E, T),
         NEW m \in MR, NEW r \in Replica, SecretlessStep(m, r), account' = account
  PROVE  Typed(D, E, T)'
BY LoopNarrow DEF Typed

LEMMA HandlerTyped ==
  ASSUME NEW D, NEW E, NEW T, Spec0 \in D, Id \cup {NoId} \subseteq E, Typed(D, E, T),
         NEW m \in MR, NEW r \in Replica, Moved(m, r), account' \in [Id -> T]
  PROVE  Typed(D, E, T)'
BY NarrowStays DEF Typed, Moved

LEMMA UserTyped ==
  ASSUME NEW D, NEW E, NEW T, D \subseteq Desired, Typed(D, E, T), account' = account,
         NEW m \in MR, RequestDelete(m) \/ Asks(m, D) \/ ClearPending(m)
  PROVE  Typed(D, E, T)' /\ Edits
BY UserNarrow DEF Typed, Edits

LEMMA WorldTyped ==
  ASSUME NEW D, NEW E, NEW T, Typed(D, E, T), UNCHANGED runtimeVars, account' \in [Id -> T]
  PROVE  Typed(D, E, T)'
BY DEF Typed, runtimeVars, RuntimeTypeOK, Narrow

LEMMA OpenNarrow ==
  ASSUME NEW D, Spec0 \in D, NEW H, H \subseteq Hints, NEW E, NoId \in E,
         H \cup Id \subseteq E,
         NEW born \in SUBSET Id,
         mr \in [MR -> {[Fresh EXCEPT !.ext = e] : e \in H \cup born}],
         cache = [m \in MR |-> [r \in Replica |-> mr[m]]],
         work = [m \in MR |-> [r \in Replica |-> Idle]]
  PROVE  RuntimeInit(born) /\ Narrow(D, E)
<1> DEFINE S(G) == {[Fresh EXCEPT !.ext = e] : e \in G \cup born}
<1>1. S(H) \subseteq S(Hints)
  OBVIOUS
<1>2. mr \in [MR -> S(Hints)]
  BY <1>1
<1>3. RuntimeInit(born)
  BY <1>2 DEF RuntimeInit
<1>4. \A o \in S(H) : o.spec = Spec0 /\ o.ext \in E
  BY DEF Fresh
<1>5. \A m \in MR : mr[m].spec = Spec0 /\ mr[m].ext \in E
  BY <1>4
<1>6. Idle.cr.spec = Spec0 /\ Idle.cr.ext \in E
  BY DEF Idle, Fresh
<1>7. QED
  BY <1>3, <1>5, <1>6 DEF Narrow

-----------------------------------------------------------------------------
(* Name servers *)

LEMMA NameServerRuntime ==
  ASSUME NEW m, NEW r
  PROVE  /\ NameServer!SecretlessStep(m, r) <=> SecretlessStep(m, r)
         /\ \A x : NameServer!Go(m, r, x) <=> Go(m, r, x)
         /\ \A w : NameServer!Close(w) = Close(w)
         /\ NameServer!RequestDelete(m) <=> RequestDelete(m)
         /\ NameServer!Respecify(m) <=> Asks(m, Role)
         /\ NameServer!ClearPending(m) <=> ClearPending(m)
         /\ NameServer!runtimeVars = runtimeVars
<1>1. NameServer!SecretlessStep(m, r) <=> SecretlessStep(m, r)
  BY DEF NameServer!SecretlessStep, NameServer!RuntimeStep, NameServer!Release,
         NameServer!Commit, NameServer!Go, NameServer!Outdate, NameServer!Reloaded,
         NameServer!Close, NameServer!Begin, NameServer!AwaitGrace,
         NameServer!Proceed, NameServer!EnsureFinalizer, NameServer!MarkPending,
         NameServer!CreateRefused, NameServer!Annotate, NameServer!StepFails,
         NameServer!ReportStatus, NameServer!Abandon, NameServer!SyncCache,
         NameServer!Idle, NameServer!Fresh, SecretlessStep, RuntimeStep, Release,
         Commit, Go, Outdate, Reloaded, Close, Begin, AwaitGrace, Proceed,
         EnsureFinalizer, MarkPending, CreateRefused, Annotate, StepFails,
         ReportStatus, Abandon, SyncCache, Idle, Fresh
<1>2. \A x : NameServer!Go(m, r, x) <=> Go(m, r, x)
  BY DEF NameServer!Go, Go
<1>3. \A w : NameServer!Close(w) = Close(w)
  BY DEF NameServer!Close, NameServer!Idle, NameServer!Fresh, Close, Idle, Fresh
<1>4. NameServer!RequestDelete(m) <=> RequestDelete(m)
  BY DEF NameServer!RequestDelete, NameServer!Edit, NameServer!Outdate,
         RequestDelete, Edit, Outdate
<1>5. NameServer!Respecify(m) <=> Asks(m, Role)
  BY DEF NameServer!Respecify, NameServer!Edit, NameServer!Outdate, Asks, Edit,
         Outdate
<1>6. NameServer!ClearPending(m) <=> ClearPending(m)
  BY DEF NameServer!ClearPending, NameServer!Unresolved, NameServer!Edit,
         NameServer!Outdate, ClearPending, Unresolved, Edit, Outdate
<1>7. NameServer!runtimeVars = runtimeVars
  BY DEF NameServer!runtimeVars, runtimeVars
<1>8. QED
  BY <1>1, <1>2, <1>3, <1>4, <1>5, <1>6, <1>7

LEMMA NameServerTypes == NameServer!TypeOK <=> Typed(Role, Names, Thing(Role))
<1>1. NameServer!RuntimeTypeOK <=> TypedAs(Role, Names)
  BY DEF NameServer!RuntimeTypeOK, NameServer!Object, NameServer!Work,
         NameServer!PC, NameServer!ExtName, NameServer!StatusId, NameServer!Hints,
         TypedAs, ObjectOf, WorkOf, PC, StatusId, Names
<1>2. Role \subseteq Desired /\ Names \subseteq ExtName
  BY BoundsAssumption, DesiredAssumption DEF Role, Names, ExtName, Hints
<1>3. QED
  BY <1>1, <1>2, NarrowTypes
  DEF NameServer!TypeOK, NameServer!NetBirdObject, Thing, Typed

LEMMA NameServerOpens == NameServer!Init => Opens /\ Typed(Role, Names, Thing(Role))
<1> SUFFICES ASSUME NameServer!Init PROVE Opens /\ Typed(Role, Names, Thing(Role))
  OBVIOUS
<1>1. PICK born \in SUBSET Imported, o \in MR, c \in Role :
        /\ \A j, k \in born : j = k
        /\ NameServer!RuntimeInit(born)
        /\ account = [k \in Id |-> IF k \in born
                        THEN [state |-> "live", of |-> o, holds |-> c]
                        ELSE [state |-> "unborn", of |-> o, holds |-> NameServer!Blank]]
  BY DEF NameServer!Init
<1>2. born \in SUBSET Id
  BY BoundsAssumption
<1>3. RuntimeInit(born) /\ Narrow(Role, Names)
  <2>1. /\ mr \in [MR -> {[Fresh EXCEPT !.ext = e] : e \in {NoId, ObjName} \cup born}]
        /\ cache = [m \in MR |-> [r \in Replica |-> mr[m]]]
        /\ work = [m \in MR |-> [r \in Replica |-> Idle]]
    BY <1>1
    DEF NameServer!RuntimeInit, NameServer!Hints, NameServer!Fresh, NameServer!Idle,
        Idle, Fresh
  <2>2. {NoId, ObjName} \subseteq Hints /\ NoId \in Names
                                        /\ {NoId, ObjName} \cup Id \subseteq Names
    BY DEF Hints, Names
  <2>3. Spec0 \in Role
    BY DEF Role
  <2>4. QED
    BY <1>2, <2>1, <2>2, <2>3, OpenNarrow
<1>4. account \in [Id -> Thing(Role)]
  <2>1. NameServer!Blank \in Role
    BY <1>1 DEF NameServer!Blank
  <2>2. QED
    BY <1>1, <2>1 DEF Thing
<1>5. Opens
  BY <1>1, <1>2, <1>3 DEF Opens
<1>6. QED
  BY <1>2, <1>3, <1>4, <1>5, RuntimeInitTypes DEF Typed

\* The handlers take m to have nothing only if no name server group of the name is
\* there.
LEMMA NameServerHandles ==
  ASSUME Typed(Role, Names, Thing(Role)), NEW m \in MR, NEW r \in Replica,
         NameServer!HandlerStep(m, r)
  PROVE  Handles(m, r, Present(m) = {}) /\ account' \in [Id -> Thing(Role)]
<1> DEFINE w == work[m][r]
           Goal == Handles(m, r, Present(m) = {}) /\ account' \in [Id -> Thing(Role)]
<1>1. /\ w \in Work /\ w.cr.spec \in Role /\ w.cr.sid \in StatusId
      /\ RuntimeTypeOK /\ account \in [Id -> Thing(Role)]
  BY DEF Typed, Narrow, RuntimeTypeOK, Work, Object
<1>2. NameServer!ObjectsOf(m) = Present(m)
  BY DEF NameServer!ObjectsOf, NameServer!Live, NameServer!Named, Present
<1>3. NameServer!Blank \in Role
  BY DEF NameServer!Blank, Role
<1>4. CASE NameServer!ObserveFound(m, r)
  <2> DEFINE k == NameServer!Lookup(w.cr)
             verdict == NameServer!Comparison(w.cr, k)
  <2>1. verdict \in {"uptodate", "outdated"}
    BY DEF NameServer!Comparison
  <2>2. /\ w.pc \in {"observe", "list"} /\ k \in Id /\ account' = account
        /\ Go(m, r, [w EXCEPT !.pc = "act", !.obs = verdict, !.cr.ext = k, !.cr.sid = k])
    BY <1>4, NameServerRuntime
    DEF NameServer!ObserveFound, NameServer!Find, NameServer!Live, NameServer!Report
  <2>3. QED
    BY <1>1, <2>1, <2>2, Reported DEF Handles, Looks, StatusId
<1>5. CASE NameServer!ObserveNotFound(m, r)
  <2>1. /\ w.pc = "observe" /\ account' = account
        /\ Go(m, r, [w EXCEPT !.pc = "list"])
    BY <1>5, NameServerRuntime DEF NameServer!ObserveNotFound, NameServer!FindNot
  <2>2. QED
    BY <1>1, <2>1, ListedNext DEF Handles, Looks
<1>6. CASE NameServer!Adopt(m, r)
  <2>1. PICK k \in Id :
          Go(m, r, [w EXCEPT !.pc = "act", !.obs = "outdated", !.cr.ext = k,
                             !.cr.sid = IF @ = NoId THEN NoId ELSE k])
    BY <1>2, <1>6, NameServerRuntime DEF NameServer!Adopt, Present
  <2> DEFINE s == IF w.cr.sid = NoId THEN NoId ELSE k
  <2>2. /\ w.pc \in {"observe", "list"} /\ account' = account /\ s \in StatusId
        /\ Go(m, r, [w EXCEPT !.pc = "act", !.obs = "outdated", !.cr.ext = k, !.cr.sid = s])
    <3>1. w.pc \in {"observe", "list"} /\ account' = account /\ s \in StatusId
      BY <1>6 DEF NameServer!Adopt, NameServer!Listing, StatusId
    <3>2. QED
      BY <1>1, <2>1, <3>1 DEF Work, Object
  <2>3. QED
    BY <1>1, <2>2, Reported DEF Handles, Looks
<1>7. CASE NameServer!ObserveMissing(m, r)
  <2>1. /\ w.pc \in {"observe", "list"} /\ account' = account /\ Present(m) = {}
        /\ Go(m, r, [w EXCEPT !.pc = "act", !.obs = "missing"])
    BY <1>2, <1>7, NameServerRuntime
    DEF NameServer!ObserveMissing, NameServer!ListNone, NameServer!Listing,
        NameServer!ReportMissing
  <2>2. QED
    BY <1>1, <2>1, ReportedMissing DEF Handles, Looks
<1>8. ASSUME NEW heard \in BOOLEAN, NEW c \in Role, NameServer!Post(m, r, heard, c)
      PROVE  Goal
  <2> DEFINE k == NameServer!NextIdent
  <2>1. /\ w.pc = "create" /\ k \in Id /\ account[k].state = "unborn"
        /\ account' = [account EXCEPT ![k] = [state |-> "live", of |-> m, holds |-> c]]
        /\ Go(m, r, IF heard
                      THEN [w EXCEPT !.pc = "annotate", !.cr.ext = k,
                                     !.cr.create = "succeeded"]
                      ELSE [w EXCEPT !.pc = "annotate", !.cr.create = "failed"])
    BY <1>8, NameServerRuntime DEF NameServer!Post, NameServer!Unborn
  <2> HIDE DEF k
  <2>2. account' \in [Id -> Thing(Role)] /\ Grows(m)
    BY <1>1, <2>1, PostGrows
  <2>3. QED
    BY <1>1, <2>1, <2>2, Created DEF Handles
<1>9. ASSUME NEW k, NEW c \in Role, NameServer!Put(m, r, k, c) PROVE Goal
  <2>1. /\ k \in Id /\ account' = [account EXCEPT ![k].holds = c]
        /\ Go(m, r, Close(w))
    BY <1>9, NameServerRuntime DEF NameServer!Put, NameServer!Live
  <2>2. QED
    BY <1>1, <2>1, PutFades, Closed DEF Handles
<1>10. ASSUME NEW k, NameServer!Remove(m, r, k) PROVE Goal
  <2>1. /\ k \in Id /\ account[k].state = "live"
        /\ account' = [account EXCEPT ![k] =
                         [account[k] EXCEPT !.state = "deleted", !.holds = NameServer!Blank]]
        /\ Go(m, r, Close(w))
    BY <1>10, NameServerRuntime DEF NameServer!Remove, NameServer!Live, NameServer!Remains
  <2>2. QED
    BY <1>1, <1>3, <2>1, RemoveFades, Closed DEF Handles
<1>11. CASE NameServer!Publish(m, r)
  <2>1. Go(m, r, Close(w)) /\ account' = account
    BY <1>11, NameServerRuntime DEF NameServer!Publish, NameServer!PublishNothing
  <2>2. QED
    BY <1>1, <2>1, SameFades, Closed DEF Handles
<1>12. QED
  BY <1>1, <1>4, <1>5, <1>6, <1>7, <1>8, <1>9, <1>10, <1>11
  DEF NameServer!HandlerStep, NameServer!Create, NameServer!Update, NameServer!Delete

LEMMA NameServerUserTyped ==
  ASSUME Typed(Role, Names, Thing(Role)), NameServer!UserStep
  PROVE  Edits /\ Typed(Role, Names, Thing(Role))'
<1>1. PICK m \in MR : RequestDelete(m) \/ Asks(m, Role) \/ ClearPending(m)
  BY NameServerRuntime DEF NameServer!UserStep
<1>2. Role \subseteq Desired /\ account' = account
  BY BoundsAssumption, DesiredAssumption DEF Role, NameServer!UserStep
<1>3. QED
  BY <1>1, <1>2, UserTyped

LEMMA NameServerWorldTyped ==
  ASSUME Typed(Role, Names, Thing(Role)), NEW k \in Id,
         NameServer!Tamper(k) \/ \E left \in {"deleted", "lost"} : NameServer!Vanish(k, left)
  PROVE  Edits /\ Typed(Role, Names, Thing(Role))'
<1>1. account \in [Id -> Thing(Role)] /\ NameServer!Blank \in Role
  <2>1. NameServer!Blank \in Role
    BY DEF NameServer!Blank, Role
  <2>2. QED
    BY <2>1 DEF Typed
<1>2. UNCHANGED runtimeVars
  BY DEF NameServer!Tamper, NameServer!Vanish, NameServer!runtimeVars, runtimeVars
<1>3. CASE NameServer!Tamper(k)
  <2>1. PICK c \in Role : account' = [account EXCEPT ![k].holds = c]
    BY <1>3 DEF NameServer!Tamper
  <2>2. Fades /\ account' \in [Id -> Thing(Role)]
    BY <1>1, <2>1, PutFades
  <2>3. QED
    BY <1>2, <2>2, WorldTyped DEF Edits
<1>4. ASSUME NEW left \in {"deleted", "lost"}, NameServer!Vanish(k, left)
      PROVE  Edits /\ Typed(Role, Names, Thing(Role))'
  <2>1. Fades /\ account' \in [Id -> Thing(Role)]
    BY <1>1, <1>4, RemoveFades DEF NameServer!Vanish, NameServer!Live, NameServer!Remains
  <2>2. QED
    BY <1>2, <2>1, WorldTyped DEF Edits
<1>5. QED
  BY <1>3, <1>4

LEMMA NameServerSteps ==
  ASSUME Typed(Role, Names, Thing(Role)), NameServer!Next
  PROVE  Typed(Role, Names, Thing(Role))' /\ Evolves({l \in MR : Present(l) = {}})
<1>1. Spec0 \in Role /\ Id \cup {NoId} \subseteq Names
  BY DesiredAssumption DEF Role, Names, ExtName, Hints
<1>2. ASSUME NEW m \in MR, NEW r \in Replica, NameServer!WorkerStep(m, r)
      PROVE  Typed(Role, Names, Thing(Role))' /\ Evolves({l \in MR : Present(l) = {}})
  <2>1. CASE NameServer!SecretlessStep(m, r) /\ account' = account
    BY <1>1, <2>1, NameServerRuntime, LoopTyped DEF Evolves
  <2>2. CASE NameServer!HandlerStep(m, r)
    <3>1. Handles(m, r, m \in {l \in MR : Present(l) = {}}) /\ account' \in [Id -> Thing(Role)]
      BY <2>2, NameServerHandles
    <3>2. QED
      BY <1>1, <3>1, HandlerTyped DEF Handles, Evolves
  <2>3. QED
    BY <1>2, <2>1, <2>2 DEF NameServer!WorkerStep
<1>3. CASE NameServer!WorldStep
  BY <1>3, NameServerUserTyped, NameServerWorldTyped DEF NameServer!WorldStep, Evolves
<1>4. QED
  BY <1>2, <1>3 DEF NameServer!Next

-----------------------------------------------------------------------------
(* Policies *)

PolicyRules == [like : Role, whole : BOOLEAN]

LEMMA PolicyRuntime ==
  ASSUME NEW m, NEW r
  PROVE  /\ Policy!SecretlessStep(m, r) <=> SecretlessStep(m, r)
         /\ \A x : Policy!Go(m, r, x) <=> Go(m, r, x)
         /\ \A w : Policy!Close(w) = Close(w)
         /\ Policy!RequestDelete(m) <=> RequestDelete(m)
         /\ Policy!Respecify(m) <=> Asks(m, Role)
         /\ Policy!ClearPending(m) <=> ClearPending(m)
         /\ Policy!runtimeVars = runtimeVars
<1>1. Policy!SecretlessStep(m, r) <=> SecretlessStep(m, r)
  BY DEF Policy!SecretlessStep, Policy!RuntimeStep, Policy!Release, Policy!Commit,
         Policy!Go, Policy!Outdate, Policy!Reloaded, Policy!Close, Policy!Begin,
         Policy!AwaitGrace, Policy!Proceed, Policy!EnsureFinalizer,
         Policy!MarkPending, Policy!CreateRefused, Policy!Annotate,
         Policy!StepFails, Policy!ReportStatus, Policy!Abandon, Policy!SyncCache,
         Policy!Idle, Policy!Fresh, SecretlessStep, RuntimeStep, Release, Commit,
         Go, Outdate, Reloaded, Close, Begin, AwaitGrace, Proceed, EnsureFinalizer,
         MarkPending, CreateRefused, Annotate, StepFails, ReportStatus, Abandon,
         SyncCache, Idle, Fresh
<1>2. \A x : Policy!Go(m, r, x) <=> Go(m, r, x)
  BY DEF Policy!Go, Go
<1>3. \A w : Policy!Close(w) = Close(w)
  BY DEF Policy!Close, Policy!Idle, Policy!Fresh, Close, Idle, Fresh
<1>4. Policy!RequestDelete(m) <=> RequestDelete(m)
  BY DEF Policy!RequestDelete, Policy!Edit, Policy!Outdate, RequestDelete, Edit,
         Outdate
<1>5. Policy!Respecify(m) <=> Asks(m, Role)
  BY DEF Policy!Respecify, Policy!Edit, Policy!Outdate, Asks, Edit, Outdate
<1>6. Policy!ClearPending(m) <=> ClearPending(m)
  BY DEF Policy!ClearPending, Policy!Unresolved, Policy!Edit, Policy!Outdate,
         ClearPending, Unresolved, Edit, Outdate
<1>7. Policy!runtimeVars = runtimeVars
  BY DEF Policy!runtimeVars, runtimeVars
<1>8. QED
  BY <1>1, <1>2, <1>3, <1>4, <1>5, <1>6, <1>7

LEMMA PolicyTypes == Policy!TypeOK <=> Typed(Role, Names, Thing(PolicyRules))
<1>1. Policy!RuntimeTypeOK <=> TypedAs(Role, Names)
  BY DEF Policy!RuntimeTypeOK, Policy!Object, Policy!Work, Policy!PC,
         Policy!ExtName, Policy!StatusId, Policy!Hints, TypedAs, ObjectOf, WorkOf,
         PC, StatusId, Names
<1>2. Role \subseteq Desired /\ Names \subseteq ExtName
  BY BoundsAssumption, DesiredAssumption DEF Role, Names, ExtName, Hints
<1>3. QED
  BY <1>1, <1>2, NarrowTypes
  DEF Policy!TypeOK, Policy!NetBirdObject, Thing, Typed, PolicyRules

LEMMA PolicyOpens == Policy!PolicyInit => Opens /\ Typed(Role, Names, Thing(PolicyRules))
<1> SUFFICES ASSUME Policy!PolicyInit PROVE Opens /\ Typed(Role, Names, Thing(PolicyRules))
  OBVIOUS
<1>1. PICK born \in SUBSET {}, o \in MR, c \in PolicyRules :
        /\ \A j, k \in born : j = k
        /\ Policy!RuntimeInit(born)
        /\ account = [k \in Id |-> IF k \in born
                        THEN [state |-> "live", of |-> o, holds |-> c]
                        ELSE [state |-> "unborn", of |-> o, holds |-> Policy!Blank]]
  BY DEF Policy!Init, Policy!PolicyInit, PolicyRules
<1>2. born \in SUBSET Id
  BY BoundsAssumption
<1>3. RuntimeInit(born) /\ Narrow(Role, Names)
  <2>1. /\ mr \in [MR -> {[Fresh EXCEPT !.ext = e] : e \in {NoId, ObjName} \cup born}]
        /\ cache = [m \in MR |-> [r \in Replica |-> mr[m]]]
        /\ work = [m \in MR |-> [r \in Replica |-> Idle]]
    BY <1>1
    DEF Policy!RuntimeInit, Policy!Hints, Policy!Fresh, Policy!Idle, Idle, Fresh
  <2>2. {NoId, ObjName} \subseteq Hints /\ NoId \in Names
                                        /\ {NoId, ObjName} \cup Id \subseteq Names
    BY DEF Hints, Names
  <2>3. Spec0 \in Role
    BY DEF Role
  <2>4. QED
    BY <1>2, <2>1, <2>2, <2>3, OpenNarrow
<1>4. account \in [Id -> Thing(PolicyRules)]
  <2>1. Policy!Blank \in PolicyRules
    BY <1>1 DEF Policy!Blank, PolicyRules
  <2>2. QED
    BY <1>1, <2>1 DEF Thing
<1>5. Opens
  BY <1>1, <1>2, <1>3 DEF Opens
<1>6. QED
  BY <1>2, <1>3, <1>4, <1>5, RuntimeInitTypes DEF Typed

\* As with name servers.
LEMMA PolicyHandles ==
  ASSUME Typed(Role, Names, Thing(PolicyRules)), NEW m \in MR, NEW r \in Replica,
         Policy!HandlerStep(m, r)
  PROVE  Handles(m, r, Present(m) = {}) /\ account' \in [Id -> Thing(PolicyRules)]
<1> DEFINE w == work[m][r]
           Goal == Handles(m, r, Present(m) = {}) /\ account' \in [Id -> Thing(PolicyRules)]
<1>1. /\ w \in Work /\ w.cr.spec \in Role /\ w.cr.sid \in StatusId
      /\ RuntimeTypeOK /\ account \in [Id -> Thing(PolicyRules)]
  BY DEF Typed, Narrow, RuntimeTypeOK, Work, Object
<1>2. Policy!ObjectsOf(m) = Present(m)
  BY DEF Policy!ObjectsOf, Policy!Live, Policy!Named, Present
<1>3. Policy!Blank \in PolicyRules
  <2>1. [like |-> Spec0, whole |-> TRUE] \in PolicyRules
    BY DEF PolicyRules, Role
  <2>2. QED
    BY <2>1 DEF Policy!Blank, PolicyRules
<1>4. CASE Policy!ObserveFound(m, r)
  <2> DEFINE k == Policy!Lookup(w.cr)
             verdict == Policy!Comparison(w.cr, k)
  <2>1. verdict \in {"uptodate", "outdated"}
    BY DEF Policy!Comparison
  <2>2. /\ w.pc \in {"observe", "list"} /\ k \in Id /\ account' = account
        /\ Go(m, r, [w EXCEPT !.pc = "act", !.obs = verdict, !.cr.ext = k, !.cr.sid = k])
    BY <1>4, PolicyRuntime
    DEF Policy!ObserveFound, Policy!Find, Policy!Live, Policy!Report
  <2>3. QED
    BY <1>1, <2>1, <2>2, Reported DEF Handles, Looks, StatusId
<1>5. CASE Policy!ObserveNotFound(m, r)
  <2>1. /\ w.pc = "observe" /\ account' = account
        /\ Go(m, r, [w EXCEPT !.pc = "list"])
    BY <1>5, PolicyRuntime DEF Policy!ObserveNotFound, Policy!FindNot
  <2>2. QED
    BY <1>1, <2>1, ListedNext DEF Handles, Looks
<1>6. CASE Policy!Adopt(m, r)
  <2>1. PICK k \in Id :
          Go(m, r, [w EXCEPT !.pc = "act", !.obs = "outdated", !.cr.ext = k, !.cr.sid = k])
    BY <1>2, <1>6, PolicyRuntime DEF Policy!Adopt, Policy!ListOne, Policy!Report, Present
  <2>2. w.pc \in {"observe", "list"} /\ account' = account
    BY <1>6 DEF Policy!Adopt, Policy!ListOne, Policy!Report, Policy!Listing
  <2>3. QED
    BY <1>1, <2>1, <2>2, Reported DEF Handles, Looks, StatusId
<1>7. CASE Policy!ObserveMissing(m, r)
  <2>1. /\ w.pc \in {"observe", "list"} /\ account' = account /\ Present(m) = {}
        /\ Go(m, r, [w EXCEPT !.pc = "act", !.obs = "missing"])
    BY <1>2, <1>7, PolicyRuntime
    DEF Policy!ObserveMissing, Policy!ListNone, Policy!Listing, Policy!ReportMissing
  <2>2. QED
    BY <1>1, <2>1, ReportedMissing DEF Handles, Looks
<1>8. ASSUME NEW heard \in BOOLEAN, NEW c \in PolicyRules, Policy!Post(m, r, heard, c)
      PROVE  Goal
  <2> DEFINE k == Policy!NextIdent
  <2>1. /\ w.pc = "create" /\ k \in Id /\ account[k].state = "unborn"
        /\ account' = [account EXCEPT ![k] = [state |-> "live", of |-> m, holds |-> c]]
        /\ Go(m, r, IF heard
                      THEN [w EXCEPT !.pc = "annotate", !.cr.ext = k,
                                     !.cr.create = "succeeded"]
                      ELSE [w EXCEPT !.pc = "annotate", !.cr.create = "failed"])
    BY <1>8, PolicyRuntime DEF Policy!Post, Policy!Unborn
  <2> HIDE DEF k
  <2>2. account' \in [Id -> Thing(PolicyRules)] /\ Grows(m)
    BY <1>1, <2>1, PostGrows
  <2>3. QED
    BY <1>1, <2>1, <2>2, Created DEF Handles
<1>9. ASSUME NEW k, NEW c \in PolicyRules, Policy!Put(m, r, k, c) PROVE Goal
  <2>1. /\ k \in Id /\ account' = [account EXCEPT ![k].holds = c]
        /\ Go(m, r, Close(w))
    BY <1>9, PolicyRuntime DEF Policy!Put, Policy!Live
  <2>2. QED
    BY <1>1, <2>1, PutFades, Closed DEF Handles
<1>10. ASSUME NEW k, Policy!Remove(m, r, k) PROVE Goal
  <2>1. /\ k \in Id /\ account[k].state = "live"
        /\ account' = [account EXCEPT ![k] =
                         [account[k] EXCEPT !.state = "deleted", !.holds = Policy!Blank]]
        /\ Go(m, r, Close(w))
    BY <1>10, PolicyRuntime DEF Policy!Remove, Policy!Live, Policy!Remains
  <2>2. QED
    BY <1>1, <1>3, <2>1, RemoveFades, Closed DEF Handles
<1>11. CASE Policy!Publish(m, r)
  <2>1. Go(m, r, Close(w)) /\ account' = account
    BY <1>11, PolicyRuntime DEF Policy!Publish, Policy!PublishNothing
  <2>2. QED
    BY <1>1, <2>1, SameFades, Closed DEF Handles
<1>12. ASSUME NEW d \in Role, Policy!Translates(d)
       PROVE  Policy!Translation(d) \in PolicyRules
  <2>1. Policy!Resolves(d) \in BOOLEAN
    BY DEF Policy!Resolves
  <2>2. CASE Policy!Resolves(d)
    BY <2>2 DEF Policy!Translation, PolicyRules
  <2>3. CASE ~Policy!Resolves(d)
    BY <1>12, <2>1, <2>3 DEF Policy!Translates, Policy!Translation, PolicyRules
  <2>4. QED
    BY <2>2, <2>3
<1>13. QED
  BY <1>1, <1>4, <1>5, <1>6, <1>7, <1>8, <1>9, <1>10, <1>11, <1>12
  DEF Policy!HandlerStep, Policy!Create, Policy!Update, Policy!Delete

LEMMA PolicyUserTyped ==
  ASSUME Typed(Role, Names, Thing(PolicyRules)), Policy!UserStep
  PROVE  Edits /\ Typed(Role, Names, Thing(PolicyRules))'
<1>1. PICK m \in MR : RequestDelete(m) \/ Asks(m, Role) \/ ClearPending(m)
  BY PolicyRuntime DEF Policy!UserStep
<1>2. Role \subseteq Desired /\ account' = account
  BY BoundsAssumption, DesiredAssumption DEF Role, Policy!UserStep
<1>3. QED
  BY <1>1, <1>2, UserTyped

LEMMA PolicyWorldTyped ==
  ASSUME Typed(Role, Names, Thing(PolicyRules)), NEW k \in Id,
         Policy!Tamper(k) \/ \E left \in {"deleted", "lost"} : Policy!Vanish(k, left)
  PROVE  Edits /\ Typed(Role, Names, Thing(PolicyRules))'
<1>1. account \in [Id -> Thing(PolicyRules)] /\ Policy!Blank \in PolicyRules
  <2>1. Policy!Blank \in PolicyRules
    <3>1. [like |-> Spec0, whole |-> TRUE] \in PolicyRules
      BY DEF PolicyRules, Role
    <3>2. QED
      BY <3>1 DEF Policy!Blank, PolicyRules
  <2>2. QED
    BY <2>1 DEF Typed
<1>2. UNCHANGED runtimeVars
  BY DEF Policy!Tamper, Policy!Vanish, Policy!runtimeVars, runtimeVars
<1>3. CASE Policy!Tamper(k)
  <2>1. PICK c \in PolicyRules : account' = [account EXCEPT ![k].holds = c]
    BY <1>3 DEF Policy!Tamper, PolicyRules
  <2>2. Fades /\ account' \in [Id -> Thing(PolicyRules)]
    BY <1>1, <2>1, PutFades
  <2>3. QED
    BY <1>2, <2>2, WorldTyped DEF Edits
<1>4. ASSUME NEW left \in {"deleted", "lost"}, Policy!Vanish(k, left)
      PROVE  Edits /\ Typed(Role, Names, Thing(PolicyRules))'
  <2>1. Fades /\ account' \in [Id -> Thing(PolicyRules)]
    BY <1>1, <1>4, RemoveFades DEF Policy!Vanish, Policy!Live, Policy!Remains
  <2>2. QED
    BY <1>2, <2>1, WorldTyped DEF Edits
<1>5. QED
  BY <1>3, <1>4

LEMMA PolicySteps ==
  ASSUME Typed(Role, Names, Thing(PolicyRules)), Policy!Next
  PROVE  Typed(Role, Names, Thing(PolicyRules))' /\ Evolves({l \in MR : Present(l) = {}})
<1>1. Spec0 \in Role /\ Id \cup {NoId} \subseteq Names
  BY DesiredAssumption DEF Role, Names, ExtName, Hints
<1>2. ASSUME NEW m \in MR, NEW r \in Replica, Policy!WorkerStep(m, r)
      PROVE  Typed(Role, Names, Thing(PolicyRules))' /\ Evolves({l \in MR : Present(l) = {}})
  <2>1. CASE Policy!SecretlessStep(m, r) /\ account' = account
    BY <1>1, <2>1, PolicyRuntime, LoopTyped DEF Evolves
  <2>2. CASE Policy!HandlerStep(m, r)
    <3>1. Handles(m, r, m \in {l \in MR : Present(l) = {}}) /\ account' \in [Id -> Thing(PolicyRules)]
      BY <2>2, PolicyHandles
    <3>2. QED
      BY <1>1, <3>1, HandlerTyped DEF Handles, Evolves
  <2>3. QED
    BY <1>2, <2>1, <2>2 DEF Policy!WorkerStep
<1>3. CASE Policy!WorldStep
  BY <1>3, PolicyUserTyped, PolicyWorldTyped DEF Policy!WorldStep, Evolves
<1>4. CASE Policy!GroupComes \/ Policy!GroupRenamed
  <2>1. UNCHANGED runtimeVars /\ account' = account
    BY <1>4, PolicyRuntime
    DEF Policy!GroupComes, Policy!GroupRenamed, Policy!vars, Policy!runtimeVars, runtimeVars
  <2>2. Edits /\ Typed(Role, Names, Thing(PolicyRules))'
    BY <2>1, SameFades, WorldTyped DEF Edits, Typed
  <2>3. QED
    BY <2>2 DEF Evolves
<1>5. QED
  BY <1>2, <1>3, <1>4 DEF Policy!Next

-----------------------------------------------------------------------------
(* Policies that give a group beside others *)

MixedRules == [like : {Spec0}, whole : BOOLEAN]

LEMMA MixedPolicyRuntime ==
  ASSUME NEW m, NEW r
  PROVE  /\ MixedPolicy!SecretlessStep(m, r) <=> SecretlessStep(m, r)
         /\ \A x : MixedPolicy!Go(m, r, x) <=> Go(m, r, x)
         /\ \A w : MixedPolicy!Close(w) = Close(w)
         /\ MixedPolicy!RequestDelete(m) <=> RequestDelete(m)
         /\ MixedPolicy!Respecify(m) <=> Asks(m, {Spec0})
         /\ MixedPolicy!ClearPending(m) <=> ClearPending(m)
         /\ MixedPolicy!runtimeVars = runtimeVars
<1>1. MixedPolicy!SecretlessStep(m, r) <=> SecretlessStep(m, r)
  BY DEF MixedPolicy!SecretlessStep, MixedPolicy!RuntimeStep, MixedPolicy!Release,
         MixedPolicy!Commit, MixedPolicy!Go, MixedPolicy!Outdate,
         MixedPolicy!Reloaded, MixedPolicy!Close, MixedPolicy!Begin,
         MixedPolicy!AwaitGrace, MixedPolicy!Proceed, MixedPolicy!EnsureFinalizer,
         MixedPolicy!MarkPending, MixedPolicy!CreateRefused, MixedPolicy!Annotate,
         MixedPolicy!StepFails, MixedPolicy!ReportStatus, MixedPolicy!Abandon,
         MixedPolicy!SyncCache, MixedPolicy!Idle, MixedPolicy!Fresh, SecretlessStep,
         RuntimeStep, Release, Commit, Go, Outdate, Reloaded, Close, Begin,
         AwaitGrace, Proceed, EnsureFinalizer, MarkPending, CreateRefused, Annotate,
         StepFails, ReportStatus, Abandon, SyncCache, Idle, Fresh
<1>2. \A x : MixedPolicy!Go(m, r, x) <=> Go(m, r, x)
  BY DEF MixedPolicy!Go, Go
<1>3. \A w : MixedPolicy!Close(w) = Close(w)
  BY DEF MixedPolicy!Close, MixedPolicy!Idle, MixedPolicy!Fresh, Close, Idle, Fresh
<1>4. MixedPolicy!RequestDelete(m) <=> RequestDelete(m)
  BY DEF MixedPolicy!RequestDelete, MixedPolicy!Edit, MixedPolicy!Outdate,
         RequestDelete, Edit, Outdate
<1>5. MixedPolicy!Respecify(m) <=> Asks(m, {Spec0})
  BY DEF MixedPolicy!Respecify, MixedPolicy!Edit, MixedPolicy!Outdate, Asks, Edit,
         Outdate
<1>6. MixedPolicy!ClearPending(m) <=> ClearPending(m)
  BY DEF MixedPolicy!ClearPending, MixedPolicy!Unresolved, MixedPolicy!Edit,
         MixedPolicy!Outdate, ClearPending, Unresolved, Edit, Outdate
<1>7. MixedPolicy!runtimeVars = runtimeVars
  BY DEF MixedPolicy!runtimeVars, runtimeVars
<1>8. QED
  BY <1>1, <1>2, <1>3, <1>4, <1>5, <1>6, <1>7

LEMMA MixedPolicyTypes == MixedPolicy!TypeOK <=> Typed({Spec0}, Names, Thing(MixedRules))
<1>1. MixedPolicy!RuntimeTypeOK <=> TypedAs({Spec0}, Names)
  BY DEF MixedPolicy!RuntimeTypeOK, MixedPolicy!Object, MixedPolicy!Work,
         MixedPolicy!PC, MixedPolicy!ExtName, MixedPolicy!StatusId,
         MixedPolicy!Hints, TypedAs, ObjectOf, WorkOf, PC, StatusId, Names
<1>2. {Spec0} \subseteq Desired /\ Names \subseteq ExtName
  BY DesiredAssumption DEF Names, ExtName, Hints
<1>3. QED
  BY <1>1, <1>2, NarrowTypes
  DEF MixedPolicy!TypeOK, MixedPolicy!NetBirdObject, Thing, Typed, MixedRules

LEMMA MixedPolicyOpens ==
  MixedPolicy!PolicyInit => Opens /\ Typed({Spec0}, Names, Thing(MixedRules))
<1> SUFFICES ASSUME MixedPolicy!PolicyInit
             PROVE  Opens /\ Typed({Spec0}, Names, Thing(MixedRules))
  OBVIOUS
<1>1. PICK born \in SUBSET {}, o \in MR, c \in MixedRules :
        /\ \A j, k \in born : j = k
        /\ MixedPolicy!RuntimeInit(born)
        /\ account = [k \in Id |-> IF k \in born
                        THEN [state |-> "live", of |-> o, holds |-> c]
                        ELSE [state |-> "unborn", of |-> o, holds |-> MixedPolicy!Blank]]
  BY DEF MixedPolicy!Init, MixedPolicy!PolicyInit, MixedRules
<1>2. born \in SUBSET Id
  BY BoundsAssumption
<1>3. RuntimeInit(born) /\ Narrow({Spec0}, Names)
  <2>1. /\ mr \in [MR -> {[Fresh EXCEPT !.ext = e] : e \in {NoId, ObjName} \cup born}]
        /\ cache = [m \in MR |-> [r \in Replica |-> mr[m]]]
        /\ work = [m \in MR |-> [r \in Replica |-> Idle]]
    BY <1>1
    DEF MixedPolicy!RuntimeInit, MixedPolicy!Hints, MixedPolicy!Fresh,
        MixedPolicy!Idle, Idle, Fresh
  <2>2. {NoId, ObjName} \subseteq Hints /\ NoId \in Names
                                        /\ {NoId, ObjName} \cup Id \subseteq Names
    BY DEF Hints, Names
  <2>3. Spec0 \in {Spec0}
    BY DesiredAssumption
  <2>4. QED
    BY <1>2, <2>1, <2>2, <2>3, OpenNarrow
<1>4. account \in [Id -> Thing(MixedRules)]
  <2>1. MixedPolicy!Blank \in MixedRules
    BY <1>1 DEF MixedPolicy!Blank, MixedRules
  <2>2. QED
    BY <1>1, <2>1 DEF Thing
<1>5. Opens
  BY <1>1, <1>2, <1>3 DEF Opens
<1>6. QED
  BY <1>2, <1>3, <1>4, <1>5, RuntimeInitTypes DEF Typed

\* As with name servers.
LEMMA MixedPolicyHandles ==
  ASSUME Typed({Spec0}, Names, Thing(MixedRules)), NEW m \in MR, NEW r \in Replica,
         MixedPolicy!HandlerStep(m, r)
  PROVE  Handles(m, r, Present(m) = {}) /\ account' \in [Id -> Thing(MixedRules)]
<1> DEFINE w == work[m][r]
           Goal == Handles(m, r, Present(m) = {}) /\ account' \in [Id -> Thing(MixedRules)]
<1>1. /\ w \in Work /\ w.cr.spec \in {Spec0} /\ w.cr.sid \in StatusId
      /\ RuntimeTypeOK /\ account \in [Id -> Thing(MixedRules)]
  BY DEF Typed, Narrow, RuntimeTypeOK, Work, Object
<1>2. MixedPolicy!ObjectsOf(m) = Present(m)
  BY DEF MixedPolicy!ObjectsOf, MixedPolicy!Live, MixedPolicy!Named, Present
<1>3. MixedPolicy!Blank \in MixedRules
  <2>1. [like |-> Spec0, whole |-> TRUE] \in MixedRules
    BY DEF MixedRules, Role
  <2>2. QED
    BY <2>1 DEF MixedPolicy!Blank, MixedRules
<1>4. CASE MixedPolicy!ObserveFound(m, r)
  <2> DEFINE k == MixedPolicy!Lookup(w.cr)
             verdict == MixedPolicy!Comparison(w.cr, k)
  <2>1. verdict \in {"uptodate", "outdated"}
    BY DEF MixedPolicy!Comparison
  <2>2. /\ w.pc \in {"observe", "list"} /\ k \in Id /\ account' = account
        /\ Go(m, r, [w EXCEPT !.pc = "act", !.obs = verdict, !.cr.ext = k, !.cr.sid = k])
    BY <1>4, MixedPolicyRuntime
    DEF MixedPolicy!ObserveFound, MixedPolicy!Find, MixedPolicy!Live, MixedPolicy!Report
  <2>3. QED
    BY <1>1, <2>1, <2>2, Reported DEF Handles, Looks, StatusId
<1>5. CASE MixedPolicy!ObserveNotFound(m, r)
  <2>1. /\ w.pc = "observe" /\ account' = account
        /\ Go(m, r, [w EXCEPT !.pc = "list"])
    BY <1>5, MixedPolicyRuntime DEF MixedPolicy!ObserveNotFound, MixedPolicy!FindNot
  <2>2. QED
    BY <1>1, <2>1, ListedNext DEF Handles, Looks
<1>6. CASE MixedPolicy!Adopt(m, r)
  <2>1. PICK k \in Id :
          Go(m, r, [w EXCEPT !.pc = "act", !.obs = "outdated", !.cr.ext = k, !.cr.sid = k])
    BY <1>2, <1>6, MixedPolicyRuntime
    DEF MixedPolicy!Adopt, MixedPolicy!ListOne, MixedPolicy!Report, Present
  <2>2. w.pc \in {"observe", "list"} /\ account' = account
    BY <1>6
    DEF MixedPolicy!Adopt, MixedPolicy!ListOne, MixedPolicy!Report, MixedPolicy!Listing
  <2>3. QED
    BY <1>1, <2>1, <2>2, Reported DEF Handles, Looks, StatusId
<1>7. CASE MixedPolicy!ObserveMissing(m, r)
  <2>1. /\ w.pc \in {"observe", "list"} /\ account' = account /\ Present(m) = {}
        /\ Go(m, r, [w EXCEPT !.pc = "act", !.obs = "missing"])
    BY <1>2, <1>7, MixedPolicyRuntime
    DEF MixedPolicy!ObserveMissing, MixedPolicy!ListNone, MixedPolicy!Listing,
        MixedPolicy!ReportMissing
  <2>2. QED
    BY <1>1, <2>1, ReportedMissing DEF Handles, Looks
<1>8. ASSUME NEW heard \in BOOLEAN, NEW c \in MixedRules, MixedPolicy!Post(m, r, heard, c)
      PROVE  Goal
  <2> DEFINE k == MixedPolicy!NextIdent
  <2>1. /\ w.pc = "create" /\ k \in Id /\ account[k].state = "unborn"
        /\ account' = [account EXCEPT ![k] = [state |-> "live", of |-> m, holds |-> c]]
        /\ Go(m, r, IF heard
                      THEN [w EXCEPT !.pc = "annotate", !.cr.ext = k,
                                     !.cr.create = "succeeded"]
                      ELSE [w EXCEPT !.pc = "annotate", !.cr.create = "failed"])
    BY <1>8, MixedPolicyRuntime DEF MixedPolicy!Post, MixedPolicy!Unborn
  <2> HIDE DEF k
  <2>2. account' \in [Id -> Thing(MixedRules)] /\ Grows(m)
    BY <1>1, <2>1, PostGrows
  <2>3. QED
    BY <1>1, <2>1, <2>2, Created DEF Handles
<1>9. ASSUME NEW k, NEW c \in MixedRules, MixedPolicy!Put(m, r, k, c) PROVE Goal
  <2>1. /\ k \in Id /\ account' = [account EXCEPT ![k].holds = c]
        /\ Go(m, r, Close(w))
    BY <1>9, MixedPolicyRuntime DEF MixedPolicy!Put, MixedPolicy!Live
  <2>2. QED
    BY <1>1, <2>1, PutFades, Closed DEF Handles
<1>10. ASSUME NEW k, MixedPolicy!Remove(m, r, k) PROVE Goal
  <2>1. /\ k \in Id /\ account[k].state = "live"
        /\ account' = [account EXCEPT ![k] =
                         [account[k] EXCEPT !.state = "deleted", !.holds = MixedPolicy!Blank]]
        /\ Go(m, r, Close(w))
    BY <1>10, MixedPolicyRuntime
    DEF MixedPolicy!Remove, MixedPolicy!Live, MixedPolicy!Remains
  <2>2. QED
    BY <1>1, <1>3, <2>1, RemoveFades, Closed DEF Handles
<1>11. CASE MixedPolicy!Publish(m, r)
  <2>1. Go(m, r, Close(w)) /\ account' = account
    BY <1>11, MixedPolicyRuntime DEF MixedPolicy!Publish, MixedPolicy!PublishNothing
  <2>2. QED
    BY <1>1, <2>1, SameFades, Closed DEF Handles
<1>12. ASSUME NEW d \in {Spec0}, MixedPolicy!Translates(d)
       PROVE  MixedPolicy!Translation(d) \in MixedRules
  <2>1. MixedPolicy!Resolves(d) \in BOOLEAN
    BY DEF MixedPolicy!Resolves
  <2>2. CASE MixedPolicy!Resolves(d)
    BY <2>2 DEF MixedPolicy!Translation, MixedRules
  <2>3. CASE ~MixedPolicy!Resolves(d)
    BY <1>12, <2>1, <2>3 DEF MixedPolicy!Translates, MixedPolicy!Translation, MixedRules
  <2>4. QED
    BY <2>2, <2>3
<1>13. QED
  BY <1>1, <1>4, <1>5, <1>6, <1>7, <1>8, <1>9, <1>10, <1>11, <1>12
  DEF MixedPolicy!HandlerStep, MixedPolicy!Create, MixedPolicy!Update, MixedPolicy!Delete

LEMMA MixedPolicyUserTyped ==
  ASSUME Typed({Spec0}, Names, Thing(MixedRules)), MixedPolicy!UserStep
  PROVE  Edits /\ Typed({Spec0}, Names, Thing(MixedRules))'
<1>1. PICK m \in MR : RequestDelete(m) \/ Asks(m, {Spec0}) \/ ClearPending(m)
  BY MixedPolicyRuntime DEF MixedPolicy!UserStep
<1>2. {Spec0} \subseteq Desired /\ account' = account
  BY BoundsAssumption, DesiredAssumption DEF Role, MixedPolicy!UserStep
<1>3. QED
  BY <1>1, <1>2, UserTyped

LEMMA MixedPolicyWorldTyped ==
  ASSUME Typed({Spec0}, Names, Thing(MixedRules)), NEW k \in Id,
         MixedPolicy!Tamper(k) \/ \E left \in {"deleted", "lost"} : MixedPolicy!Vanish(k, left)
  PROVE  Edits /\ Typed({Spec0}, Names, Thing(MixedRules))'
<1>1. account \in [Id -> Thing(MixedRules)] /\ MixedPolicy!Blank \in MixedRules
  <2>1. MixedPolicy!Blank \in MixedRules
    <3>1. [like |-> Spec0, whole |-> TRUE] \in MixedRules
      BY DEF MixedRules, Role
    <3>2. QED
      BY <3>1 DEF MixedPolicy!Blank, MixedRules
  <2>2. QED
    BY <2>1 DEF Typed
<1>2. UNCHANGED runtimeVars
  BY DEF MixedPolicy!Tamper, MixedPolicy!Vanish, MixedPolicy!runtimeVars,
         runtimeVars
<1>3. CASE MixedPolicy!Tamper(k)
  <2>1. PICK c \in MixedRules : account' = [account EXCEPT ![k].holds = c]
    BY <1>3 DEF MixedPolicy!Tamper, MixedRules
  <2>2. Fades /\ account' \in [Id -> Thing(MixedRules)]
    BY <1>1, <2>1, PutFades
  <2>3. QED
    BY <1>2, <2>2, WorldTyped DEF Edits
<1>4. ASSUME NEW left \in {"deleted", "lost"}, MixedPolicy!Vanish(k, left)
      PROVE  Edits /\ Typed({Spec0}, Names, Thing(MixedRules))'
  <2>1. Fades /\ account' \in [Id -> Thing(MixedRules)]
    BY <1>1, <1>4, RemoveFades DEF MixedPolicy!Vanish, MixedPolicy!Live, MixedPolicy!Remains
  <2>2. QED
    BY <1>2, <2>1, WorldTyped DEF Edits
<1>5. QED
  BY <1>3, <1>4

LEMMA MixedPolicySteps ==
  ASSUME Typed({Spec0}, Names, Thing(MixedRules)), MixedPolicy!Next
  PROVE  Typed({Spec0}, Names, Thing(MixedRules))' /\ Evolves({l \in MR : Present(l) = {}})
<1>1. Spec0 \in {Spec0} /\ Id \cup {NoId} \subseteq Names
  BY DesiredAssumption DEF Role, Names, ExtName, Hints
<1>2. ASSUME NEW m \in MR, NEW r \in Replica, MixedPolicy!WorkerStep(m, r)
      PROVE  Typed({Spec0}, Names, Thing(MixedRules))' /\ Evolves({l \in MR : Present(l) = {}})
  <2>1. CASE MixedPolicy!SecretlessStep(m, r) /\ account' = account
    BY <1>1, <2>1, MixedPolicyRuntime, LoopTyped DEF Evolves
  <2>2. CASE MixedPolicy!HandlerStep(m, r)
    <3>1. Handles(m, r, m \in {l \in MR : Present(l) = {}}) /\ account' \in [Id -> Thing(MixedRules)]
      BY <2>2, MixedPolicyHandles
    <3>2. QED
      BY <1>1, <3>1, HandlerTyped DEF Handles, Evolves
  <2>3. QED
    BY <1>2, <2>1, <2>2 DEF MixedPolicy!WorkerStep
<1>3. CASE MixedPolicy!WorldStep
  BY <1>3, MixedPolicyUserTyped, MixedPolicyWorldTyped DEF MixedPolicy!WorldStep, Evolves
<1>4. CASE MixedPolicy!GroupComes \/ MixedPolicy!GroupRenamed
  <2>1. UNCHANGED runtimeVars /\ account' = account
    BY <1>4, MixedPolicyRuntime
    DEF MixedPolicy!GroupComes, MixedPolicy!GroupRenamed, MixedPolicy!vars,
        MixedPolicy!runtimeVars, runtimeVars
  <2>2. Edits /\ Typed({Spec0}, Names, Thing(MixedRules))'
    BY <2>1, SameFades, WorldTyped DEF Edits, Typed
  <2>3. QED
    BY <2>2 DEF Evolves
<1>5. QED
  BY <1>2, <1>3, <1>4 DEF MixedPolicy!Next

-----------------------------------------------------------------------------
(* Persons *)

Persons == [role : Role, named : BOOLEAN]

LEMMA PersonRuntime ==
  ASSUME NEW m, NEW r
  PROVE  /\ Person!SecretlessStep(m, r) <=> SecretlessStep(m, r)
         /\ \A x : Person!Go(m, r, x) <=> Go(m, r, x)
         /\ \A w : Person!Close(w) = Close(w)
         /\ Person!RequestDelete(m) <=> RequestDelete(m)
         /\ Person!Respecify(m) <=> Asks(m, {Spec0})
         /\ Person!ClearPending(m) <=> ClearPending(m)
         /\ Person!runtimeVars = runtimeVars
<1>1. Person!SecretlessStep(m, r) <=> SecretlessStep(m, r)
  BY DEF Person!SecretlessStep, Person!RuntimeStep, Person!Release, Person!Commit,
         Person!Go, Person!Outdate, Person!Reloaded, Person!Close, Person!Begin,
         Person!AwaitGrace, Person!Proceed, Person!EnsureFinalizer,
         Person!MarkPending, Person!CreateRefused, Person!Annotate,
         Person!StepFails, Person!ReportStatus, Person!Abandon, Person!SyncCache,
         Person!Idle, Person!Fresh, SecretlessStep, RuntimeStep, Release, Commit,
         Go, Outdate, Reloaded, Close, Begin, AwaitGrace, Proceed, EnsureFinalizer,
         MarkPending, CreateRefused, Annotate, StepFails, ReportStatus, Abandon,
         SyncCache, Idle, Fresh
<1>2. \A x : Person!Go(m, r, x) <=> Go(m, r, x)
  BY DEF Person!Go, Go
<1>3. \A w : Person!Close(w) = Close(w)
  BY DEF Person!Close, Person!Idle, Person!Fresh, Close, Idle, Fresh
<1>4. Person!RequestDelete(m) <=> RequestDelete(m)
  BY DEF Person!RequestDelete, Person!Edit, Person!Outdate, RequestDelete, Edit,
         Outdate
<1>5. Person!Respecify(m) <=> Asks(m, {Spec0})
  BY DEF Person!Respecify, Person!Edit, Person!Outdate, Asks, Edit, Outdate
<1>6. Person!ClearPending(m) <=> ClearPending(m)
  BY DEF Person!ClearPending, Person!Unresolved, Person!Edit, Person!Outdate,
         ClearPending, Unresolved, Edit, Outdate
<1>7. Person!runtimeVars = runtimeVars
  BY DEF Person!runtimeVars, runtimeVars
<1>8. QED
  BY <1>1, <1>2, <1>3, <1>4, <1>5, <1>6, <1>7

LEMMA PersonTypes == Person!TypeOK <=> Typed({Spec0}, ExtName, Thing(Persons))
<1>1. Person!RuntimeTypeOK <=> TypedAs({Spec0}, ExtName)
  BY DEF Person!RuntimeTypeOK, Person!Object, Person!Work, Person!PC,
         Person!ExtName, Person!StatusId, Person!Hints, TypedAs, ObjectOf, WorkOf,
         PC, StatusId, ExtName, Hints
<1>2. {Spec0} \subseteq Desired /\ ExtName \subseteq ExtName
  BY DesiredAssumption
<1>3. QED
  BY <1>1, <1>2, NarrowTypes
  DEF Person!TypeOK, Person!NetBirdObject, Thing, Typed, Persons

LEMMA PersonOpens == Person!Init => Opens /\ Typed({Spec0}, ExtName, Thing(Persons))
<1> SUFFICES ASSUME Person!Init PROVE Opens /\ Typed({Spec0}, ExtName, Thing(Persons))
  OBVIOUS
<1>1. PICK born \in SUBSET {}, o \in MR, c \in Persons :
        /\ \A j, k \in born : j = k
        /\ Person!RuntimeInit(born)
        /\ account = [k \in Id |-> IF k \in born
                        THEN [state |-> "live", of |-> o, holds |-> c]
                        ELSE [state |-> "unborn", of |-> o, holds |-> Person!Blank]]
  BY DEF Person!Init, Persons
<1>2. born \in SUBSET Id
  BY BoundsAssumption
<1>3. RuntimeInit(born) /\ Narrow({Spec0}, ExtName)
  <2>1. /\ mr \in [MR -> {[Fresh EXCEPT !.ext = e] : e \in Hints \cup born}]
        /\ cache = [m \in MR |-> [r \in Replica |-> mr[m]]]
        /\ work = [m \in MR |-> [r \in Replica |-> Idle]]
    BY <1>1
    DEF Person!RuntimeInit, Person!Hints, Person!Fresh, Person!Idle, Idle, Fresh, Hints
  <2>2. Hints \subseteq Hints /\ NoId \in ExtName /\ Hints \cup Id \subseteq ExtName
    BY DEF Hints, ExtName
  <2>3. Spec0 \in {Spec0}
    BY DesiredAssumption
  <2>4. QED
    BY <1>2, <2>1, <2>2, <2>3, OpenNarrow
<1>4. account \in [Id -> Thing(Persons)]
  <2>1. Person!Blank \in Persons
    BY <1>1 DEF Person!Blank, Persons
  <2>2. QED
    BY <1>1, <2>1 DEF Thing
<1>5. Opens
  BY <1>1, <1>2, <1>3 DEF Opens
<1>6. QED
  BY <1>2, <1>3, <1>4, <1>5, RuntimeInitTypes DEF Typed

\* Nobody is created.
LEMMA PersonHandles ==
  ASSUME Typed({Spec0}, ExtName, Thing(Persons)), NEW m \in MR, NEW r \in Replica,
         Person!HandlerStep(m, r)
  PROVE  Handles(m, r, TRUE) /\ account' \in [Id -> Thing(Persons)]
<1> DEFINE w == work[m][r]
           Goal == Handles(m, r, TRUE) /\ account' \in [Id -> Thing(Persons)]
<1>1. /\ w \in Work /\ w.cr.spec = Spec0
      /\ RuntimeTypeOK /\ account \in [Id -> Thing(Persons)]
  BY DEF Typed, Narrow, RuntimeTypeOK, Work, Object
<1>2. \A cr, k : Person!Comparison(cr, k) \in {"uptodate", "outdated"}
  BY DEF Person!Comparison
<1>3. ASSUME NEW k \in Id, NEW verdict \in {"uptodate", "outdated"}, Person!Observing(m, r),
             Person!Report(m, r, k, verdict)
      PROVE  Goal
  <2>1. /\ w.pc \in {"observe", "list"} /\ account' = account
        /\ Go(m, r, [w EXCEPT !.pc = "act", !.obs = verdict, !.cr.ext = k, !.cr.sid = k])
    BY <1>3, PersonRuntime DEF Person!Observing, Person!Report
  <2>2. QED
    BY <1>1, <2>1, Reported DEF Handles, Looks, StatusId
<1>4. CASE Person!Adopt(m, r) \/ Person!ObserveFound(m, r)
  BY <1>2, <1>3, <1>4
  DEF Person!Adopt, Person!ObserveFound, Person!Listed, Person!ObjectsOf,
      Person!Live
<1>5. CASE Person!ObserveNamed(m, r)
  <2>1. PICK k \in Id, verdict \in {"uptodate", "outdated"} :
          Go(m, r, [w EXCEPT !.pc = "act", !.obs = verdict, !.cr.sid = k])
    BY <1>2, <1>5, PersonRuntime
    DEF Person!ObserveNamed, Person!NamedUsers, Person!ObjectsOf
  <2>2. w.pc \in {"observe", "list"} /\ account' = account
    BY <1>5 DEF Person!ObserveNamed, Person!Observing
  <2>3. QED
    BY <1>1, <2>1, <2>2, ReportedNamed DEF Handles, Looks, StatusId
<1>6. CASE Person!ObserveMissing(m, r) \/ Person!ObserveNotFound(m, r)
  <2>1. /\ w.pc \in {"observe", "list"} /\ account' = account
        /\ Go(m, r, [w EXCEPT !.pc = "act", !.obs = "missing"])
    BY <1>6, PersonRuntime
    DEF Person!ObserveMissing, Person!ObserveNotFound, Person!Observing,
        Person!ReportMissing
  <2>2. QED
    BY <1>1, <2>1, ReportedMissing DEF Handles
<1>7. CASE Person!CreateNobody(m, r)
  <2>1. /\ w.pc = "create" /\ account' = account
        /\ Go(m, r, [w EXCEPT !.pc = "annotate", !.cr.create = "succeeded"])
    BY <1>7, PersonRuntime DEF Person!CreateNobody
  <2>2. QED
    BY <1>1, <2>1, CreatedNobody DEF Handles
<1>8. CASE Person!Publish(m, r) \/ Person!DeleteNobody(m, r)
  <2>1. Go(m, r, Close(w)) /\ account' = account
    BY <1>8, PersonRuntime DEF Person!Publish, Person!PublishNothing, Person!DeleteNobody
  <2>2. QED
    BY <1>1, <2>1, SameFades, Closed DEF Handles
<1>9. CASE Person!Update(m, r)
  <2> DEFINE k == Person!LookupID(w.cr)
             c == [account[k].holds EXCEPT !.role = w.cr.spec]
  <2>1. /\ k \in Id /\ account' = [account EXCEPT ![k].holds = c]
        /\ Go(m, r, Close(w))
    BY <1>9, PersonRuntime DEF Person!Update, Person!Put, Person!Live
  <2>2. c \in Persons
    BY <1>1, <2>1 DEF Thing, Persons, Role
  <2> HIDE DEF k, c
  <2>3. QED
    BY <1>1, <2>1, <2>2, PutFades, Closed DEF Handles
<1>10. QED
  BY <1>4, <1>5, <1>6, <1>7, <1>8, <1>9
  DEF Person!HandlerStep, Person!CreateService, Person!Delete

LEMMA PersonUserTyped ==
  ASSUME Typed({Spec0}, ExtName, Thing(Persons)), Person!UserStep
  PROVE  Edits /\ Typed({Spec0}, ExtName, Thing(Persons))'
<1>1. PICK m \in MR : RequestDelete(m) \/ Asks(m, {Spec0}) \/ ClearPending(m)
  BY PersonRuntime DEF Person!UserStep
<1>2. {Spec0} \subseteq Desired /\ account' = account
  BY BoundsAssumption, DesiredAssumption DEF Role, Person!UserStep
<1>3. QED
  BY <1>1, <1>2, UserTyped

LEMMA PersonWorldTyped ==
  ASSUME Typed({Spec0}, ExtName, Thing(Persons)), NEW k \in Id,
         Person!Tamper(k) \/ \E left \in {"deleted", "lost"} : Person!Vanish(k, left)
  PROVE  Edits /\ Typed({Spec0}, ExtName, Thing(Persons))'
<1>1. account \in [Id -> Thing(Persons)] /\ Person!Blank \in Persons
  <2>1. Person!Blank \in Persons
    <3>1. [role |-> Spec0, named |-> TRUE] \in Persons
      BY DEF Persons, Role
    <3>2. QED
      BY <3>1 DEF Person!Blank, Persons
  <2>2. QED
    BY <2>1 DEF Typed
<1>2. UNCHANGED runtimeVars
  BY DEF Person!Tamper, Person!Vanish, Person!runtimeVars, runtimeVars
<1>3. CASE Person!Tamper(k)
  <2>1. PICK c \in Persons : account' = [account EXCEPT ![k].holds = c]
    BY <1>3 DEF Person!Tamper, Persons
  <2>2. Fades /\ account' \in [Id -> Thing(Persons)]
    BY <1>1, <2>1, PutFades
  <2>3. QED
    BY <1>2, <2>2, WorldTyped DEF Edits
<1>4. ASSUME NEW left \in {"deleted", "lost"}, Person!Vanish(k, left)
      PROVE  Edits /\ Typed({Spec0}, ExtName, Thing(Persons))'
  <2>1. Fades /\ account' \in [Id -> Thing(Persons)]
    BY <1>1, <1>4, RemoveFades DEF Person!Vanish, Person!Live, Person!Remains
  <2>2. QED
    BY <1>2, <2>1, WorldTyped DEF Edits
<1>5. QED
  BY <1>3, <1>4

LEMMA PersonSteps ==
  ASSUME Typed({Spec0}, ExtName, Thing(Persons)), Person!Next, kind = "person"
  PROVE  Typed({Spec0}, ExtName, Thing(Persons))' /\ Evolves(MR)
<1>1. Spec0 \in {Spec0} /\ Id \cup {NoId} \subseteq ExtName
  BY DEF ExtName, Hints
<1>2. ASSUME NEW m \in MR, NEW r \in Replica, Person!WorkerStep(m, r)
      PROVE  Typed({Spec0}, ExtName, Thing(Persons))' /\ Evolves(MR)
  <2>1. CASE Person!SecretlessStep(m, r) /\ account' = account
    BY <1>1, <2>1, PersonRuntime, LoopTyped DEF Evolves
  <2>2. CASE Person!HandlerStep(m, r)
    <3>1. Handles(m, r, m \in MR) /\ account' \in [Id -> Thing(Persons)]
      BY <2>2, PersonHandles
    <3>2. QED
      BY <1>1, <3>1, HandlerTyped DEF Handles, Evolves
  <2>3. QED
    BY <1>2, <2>1, <2>2 DEF Person!WorkerStep
<1>3. CASE Person!UserStep
  BY <1>3, PersonUserTyped DEF Evolves
<1>4. ASSUME NEW k \in Id, Person!Change(k) \/ Person!Lose(k)
      PROVE  Typed({Spec0}, ExtName, Thing(Persons))' /\ Evolves(MR)
  BY <1>4, PersonWorldTyped DEF Person!Change, Person!Lose, Evolves
<1>5. ASSUME NEW k \in Id, Person!Invite(k), kind = "person"
      PROVE  Typed({Spec0}, ExtName, Thing(Persons))' /\ Evolves(MR)
  <2>1. PICK m \in MR, u \in Persons :
          account' = [account EXCEPT ![k] = [state |-> "live", of |-> m, holds |-> u]]
    BY <1>5 DEF Person!Invite, Persons
  <2>2. account' \in [Id -> Thing(Persons)]
    BY <2>1 DEF Typed, Thing
  <2>3. UNCHANGED runtimeVars
    BY <1>5 DEF Person!Invite, Person!runtimeVars, runtimeVars
  <2>4. QED
    BY <1>5, <2>2, <2>3, WorldTyped DEF Evolves, Edits
<1>6. QED
  BY <1>2, <1>3, <1>4, <1>5 DEF Person!Next

-----------------------------------------------------------------------------
(* Groups and service users: an identifier is looked up, and that is final *)

\* resolveGroupLookupID and resolveUserLookupID are the same, here for external name e
\* and identifier s in the status.
Sought(e, s) == IF e = NoId \/ (s # NoId /\ e = ObjName) THEN s ELSE e

LookedUp(cr) == Sought(cr.ext, cr.sid)

\* The objects of m that are found by name.
Counted(m) == {k \in Present(m) : kind = "service user" => account[k].holds.named}

\* Observe finds the object of the identifier, or adopts one of the name, or finds
\* one for a display name; or nothing.
Discovers(m, r) ==
  LET w == work[m][r]
      v == work'[m][r]
      k == LookedUp(w.cr)
  IN
  /\ w.pc = "observe" /\ Looks(m, r, TRUE) /\ account' = account
  /\ \/ /\ v.obs # "missing"
        /\ k \in Id /\ account[k].state = "live" /\ Acts(m, r, k, k)
     \/ /\ v.obs # "missing"
        /\ \E j \in Counted(m) : Acts(m, r, j, j)
     \/ /\ v.obs # "missing" /\ w.cr.ext = DispName /\ DispName # ObjName
        /\ \E j \in Counted(m) : Acts(m, r, DispName, j)
     \/ /\ v.obs = "missing" /\ Acts(m, r, w.cr.ext, w.cr.sid)
        /\ IF k \in Id THEN account[k].state # "live" ELSE Counted(m) = {}

\* Create makes one of the name, whether the reply is lost or not.
Mints(m, r) ==
  LET w == work[m][r]
      v == work'[m][r]
  IN
  /\ Makes(m, r) /\ v.cr.sid = w.cr.sid /\ v.cr.phase = w.cr.phase
  /\ \E k \in Id :
       /\ account[k].state = "unborn"
       /\ account'[k].state = "live" /\ account'[k].of = m
       /\ kind = "service user" => account'[k].holds.named
       /\ \A j \in Id : j # k => account'[j] = account[j]
       /\ \/ v.cr.create = "succeeded" /\ v.cr.ext = k
          \/ v.cr.create = "failed" /\ v.cr.ext = w.cr.ext

\* Objects go, and none is given the name.
Dwindles ==
  /\ Fades
  /\ \A k \in Id : kind = "service user" /\ account'[k].state = "live"
                     /\ account'[k].holds.named => account[k].holds.named

\* No controller deletes one.
Spares == \A k \in Id : account'[k].state = "deleted" => account[k].state = "deleted"

\* The status is written at last; for a deleted resource the object that is looked up
\* may go before.
Ceases(m, r) ==
  LET w == work[m][r]
      v == work'[m][r]
      k == LookedUp(w.cr)
  IN
  /\ Stops(m, r) /\ w.pc # "idle" /\ v.pc = "status" /\ (v.stale <=> w.stale)
  /\ v.cr.sid = w.cr.sid /\ v.cr.ext = NoId
  /\ Dwindles
  /\ \/ Spares
     \/ /\ w.cr.phase = "deleting" /\ k \in Id
        /\ \A j \in Id : j # k => account'[j].state = account[j].state

Tells(m, r) == Moved(m, r) /\ (Discovers(m, r) \/ Mints(m, r) \/ Ceases(m, r))

\* The steps of these kinds.
Seeks ==
  \/ \E m \in MR, r \in Replica : SecretlessStep(m, r) /\ account' = account
  \/ \E m \in MR, r \in Replica : Tells(m, r)
  \/ /\ \E m \in MR : RequestDelete(m) \/ Respecify(m) \/ ClearPending(m)
     /\ account' = account
  \/ UNCHANGED runtimeVars /\ Dwindles /\ Spares

-----------------------------------------------------------------------------
(* Groups *)

LEMMA GroupRuntime ==
  ASSUME NEW m, NEW r
  PROVE  /\ Group!SecretlessStep(m, r) <=> SecretlessStep(m, r)
         /\ \A x : Group!Go(m, r, x) <=> Go(m, r, x)
         /\ \A w : Group!Close(w) = Close(w)
         /\ Group!RequestDelete(m) <=> RequestDelete(m)
         /\ Group!Respecify(m) <=> Asks(m, {Spec0})
         /\ Group!ClearPending(m) <=> ClearPending(m)
         /\ Group!runtimeVars = runtimeVars
<1>1. Group!SecretlessStep(m, r) <=> SecretlessStep(m, r)
  BY DEF Group!SecretlessStep, Group!RuntimeStep, Group!Release, Group!Commit,
         Group!Go, Group!Outdate, Group!Reloaded, Group!Close, Group!Begin,
         Group!AwaitGrace, Group!Proceed, Group!EnsureFinalizer, Group!MarkPending,
         Group!CreateRefused, Group!Annotate, Group!StepFails, Group!ReportStatus,
         Group!Abandon, Group!SyncCache, Group!Idle, Group!Fresh, SecretlessStep,
         RuntimeStep, Release, Commit, Go, Outdate, Reloaded, Close, Begin,
         AwaitGrace, Proceed, EnsureFinalizer, MarkPending, CreateRefused, Annotate,
         StepFails, ReportStatus, Abandon, SyncCache, Idle, Fresh
<1>2. \A x : Group!Go(m, r, x) <=> Go(m, r, x)
  BY DEF Group!Go, Go
<1>3. \A w : Group!Close(w) = Close(w)
  BY DEF Group!Close, Group!Idle, Group!Fresh, Close, Idle, Fresh
<1>4. Group!RequestDelete(m) <=> RequestDelete(m)
  BY DEF Group!RequestDelete, Group!Edit, Group!Outdate, RequestDelete, Edit,
         Outdate
<1>5. Group!Respecify(m) <=> Asks(m, {Spec0})
  BY DEF Group!Respecify, Group!Edit, Group!Outdate, Asks, Edit, Outdate
<1>6. Group!ClearPending(m) <=> ClearPending(m)
  BY DEF Group!ClearPending, Group!Unresolved, Group!Edit, Group!Outdate,
         ClearPending, Unresolved, Edit, Outdate
<1>7. Group!runtimeVars = runtimeVars
  BY DEF Group!runtimeVars, runtimeVars
<1>8. QED
  BY <1>1, <1>2, <1>3, <1>4, <1>5, <1>6, <1>7

LEMMA GroupTypes == Group!TypeOK <=> Typed({Spec0}, ExtName, Thing({Spec0}))
<1>1. Group!RuntimeTypeOK <=> TypedAs({Spec0}, ExtName)
  BY DEF Group!RuntimeTypeOK, Group!Object, Group!Work, Group!PC, Group!ExtName,
         Group!StatusId, Group!Hints, TypedAs, ObjectOf, WorkOf, PC, StatusId,
         ExtName, Hints
<1>2. {Spec0} \subseteq Desired /\ ExtName \subseteq ExtName
  BY DesiredAssumption
<1>3. QED
  BY <1>1, <1>2, NarrowTypes
  DEF Group!TypeOK, Group!NetBirdObject, Thing, Typed

LEMMA GroupOpens == Group!Init => Opens /\ Typed({Spec0}, ExtName, Thing({Spec0}))
<1> SUFFICES ASSUME Group!Init PROVE Opens /\ Typed({Spec0}, ExtName, Thing({Spec0}))
  OBVIOUS
<1>1. PICK born \in SUBSET Imported, o \in MR, c \in {Spec0} :
        /\ \A j, k \in born : j = k
        /\ Group!RuntimeInit(born)
        /\ account = [k \in Id |-> IF k \in born
                        THEN [state |-> "live", of |-> o, holds |-> c]
                        ELSE [state |-> "unborn", of |-> o, holds |-> Group!Blank]]
  BY DEF Group!Init
<1>2. born \in SUBSET Id
  BY BoundsAssumption
<1>3. RuntimeInit(born) /\ Narrow({Spec0}, ExtName)
  <2>1. /\ mr \in [MR -> {[Fresh EXCEPT !.ext = e] : e \in Hints \cup born}]
        /\ cache = [m \in MR |-> [r \in Replica |-> mr[m]]]
        /\ work = [m \in MR |-> [r \in Replica |-> Idle]]
    BY <1>1
    DEF Group!RuntimeInit, Group!Hints, Group!Fresh, Group!Idle, Idle, Fresh, Hints
  <2>2. Hints \subseteq Hints /\ NoId \in ExtName /\ Hints \cup Id \subseteq ExtName
    BY DEF Hints, ExtName
  <2>3. Spec0 \in {Spec0}
    BY DesiredAssumption
  <2>4. QED
    BY <1>2, <2>1, <2>2, <2>3, OpenNarrow
<1>4. account \in [Id -> Thing({Spec0})]
  <2>1. Group!Blank \in {Spec0}
    BY <1>1 DEF Group!Blank
  <2>2. QED
    BY <1>1, <2>1 DEF Thing
<1>5. Opens
  BY <1>1, <1>2, <1>3 DEF Opens
<1>6. QED
  BY <1>2, <1>3, <1>4, <1>5, RuntimeInitTypes DEF Typed

\* What is reported found or missing.
LEMMA GroupHandles ==
  ASSUME Typed({Spec0}, ExtName, Thing({Spec0})), kind = "group", NEW m \in MR,
         NEW r \in Replica,
         Group!HandlerStep(m, r)
  PROVE  Tells(m, r) /\ account' \in [Id -> Thing({Spec0})]
<1> DEFINE w == work[m][r]
           Goal == Tells(m, r) /\ account' \in [Id -> Thing({Spec0})]
<1>1. /\ w \in Work /\ w.cr.spec \in {Spec0} /\ w.cr.sid \in StatusId
      /\ w.cr.ext \in ExtName
      /\ RuntimeTypeOK /\ account \in [Id -> Thing({Spec0})]
  <2>1. /\ w \in Work /\ w.cr \in Object /\ RuntimeTypeOK
        /\ account \in [Id -> Thing({Spec0})]
    BY DEF Typed, RuntimeTypeOK, Work
  <2>2. w.cr.spec \in {Spec0} /\ w.cr.sid \in StatusId /\ w.cr.ext \in ExtName
    BY <2>1 DEF Typed, Narrow, Object
  <2>3. QED
    BY <2>1, <2>2
<1>2. Group!ObjectsOf(m) = Counted(m)
  BY DEF Group!ObjectsOf, Group!Live, Group!Named, Present, Counted
<1>3. Group!LookupID(w.cr) = LookedUp(w.cr) /\ Counted(m) \subseteq Id
  BY DEF Group!LookupID, LookedUp, Sought, Counted, Present
<1>4. "uptodate" \in {"uptodate", "outdated"}
  OBVIOUS
<1>5. CASE Group!Adopt(m, r)
  <2>1. PICK k \in Counted(m), verdict \in {"uptodate", "outdated"} :
          Go(m, r, [w EXCEPT !.pc = "act", !.obs = verdict, !.cr.ext = k, !.cr.sid = k])
    BY <1>2, <1>4, <1>5, GroupRuntime DEF Group!Adopt, Group!Report
  <2>2. w.pc = "observe" /\ account' = account
    BY <1>5 DEF Group!Adopt, Group!Observing, Group!Report
  <2>3. k \in Id /\ k \in StatusId
    BY <1>3 DEF StatusId
  <2>4. QED
    BY <1>1, <2>1, <2>2, <2>3, Reported DEF Tells, Discovers, Looks
<1>6. CASE Group!ObserveFound(m, r)
  <2> DEFINE k == LookedUp(w.cr)
  <2>1. PICK verdict \in {"uptodate", "outdated"} :
          Go(m, r, [w EXCEPT !.pc = "act", !.obs = verdict, !.cr.ext = k, !.cr.sid = k])
    BY <1>3, <1>4, <1>6, GroupRuntime DEF Group!ObserveFound, Group!Report
  <2>2. /\ w.pc = "observe" /\ account' = account
        /\ k \in Id /\ k \in StatusId /\ account[k].state = "live"
    BY <1>3, <1>6
    DEF Group!ObserveFound, Group!Observing, Group!Report, Group!Live, StatusId
  <2> HIDE DEF k
  <2>3. /\ Moved(m, r) /\ Looks(m, r, TRUE) /\ Acts(m, r, k, k)
        /\ work'[m][r].obs # "missing"
    BY <1>1, <2>1, <2>2, Reported DEF Looks
  <2>4. QED
    BY <1>1, <2>2, <2>3 DEF Tells, Discovers, k
<1>7. CASE Group!ObserveNamed(m, r)
  <2>1. PICK k \in Counted(m), verdict \in {"uptodate", "outdated"} :
          Go(m, r, [w EXCEPT !.pc = "act", !.obs = verdict, !.cr.sid = k])
    BY <1>2, <1>4, <1>7, GroupRuntime DEF Group!ObserveNamed, Group!ReportNamed
  <2>2. /\ w.pc = "observe" /\ account' = account
        /\ LookedUp(w.cr) = DispName /\ DispName # ObjName
    BY <1>3, <1>7
    DEF Group!ObserveNamed, Group!Observing, Group!ByDisplayName, Group!Nameless,
        Group!ReportNamed
  <2>3. w.cr.ext = DispName /\ DispName # ObjName
    BY <1>1, <2>2, IdentityAssumption DEF LookedUp, Sought, StatusId
  <2>4. k \in StatusId
    BY <1>3 DEF StatusId
  <2>5. /\ Moved(m, r) /\ Looks(m, r, FALSE) /\ Acts(m, r, w.cr.ext, k)
        /\ work'[m][r].obs # "missing"
    BY <1>1, <2>1, <2>2, <2>4, ReportedNamed
  <2>6. Looks(m, r, TRUE) /\ Acts(m, r, DispName, k)
    BY <2>3, <2>5 DEF Looks
  <2>7. QED
    BY <1>1, <2>2, <2>3, <2>5, <2>6 DEF Tells, Discovers
<1>8. CASE Group!ObserveMissing(m, r) \/ Group!ObserveNotFound(m, r)
  <2>1. /\ w.pc = "observe" /\ account' = account
        /\ Go(m, r, [w EXCEPT !.pc = "act", !.obs = "missing"])
    BY <1>8, GroupRuntime
    DEF Group!ObserveMissing, Group!ObserveNotFound, Group!Observing,
        Group!ReportMissing
  <2>2. IF LookedUp(w.cr) \in Id THEN account[LookedUp(w.cr)].state # "live"
                                 ELSE Counted(m) = {}
    <3>1. CASE Group!ObserveMissing(m, r)
      BY <1>2, <1>3, <3>1, IdentityAssumption
      DEF Group!ObserveMissing, Group!ById
    <3>2. CASE Group!ObserveNotFound(m, r)
      BY <1>3, <3>2 DEF Group!ObserveNotFound, Group!ById, Group!Live
    <3>3. QED
      BY <1>8, <3>1, <3>2
  <2>3. /\ Moved(m, r) /\ Looks(m, r, TRUE) /\ Acts(m, r, w.cr.ext, w.cr.sid)
        /\ work'[m][r].obs = "missing"
    BY <1>1, <2>1, ReportedMissing
  <2>4. QED
    BY <1>1, <2>1, <2>2, <2>3 DEF Tells, Discovers
<1>9. ASSUME NEW heard \in BOOLEAN, NEW c \in {Spec0}, Group!Post(m, r, heard, c)
      PROVE  Goal
  <2> DEFINE k == Group!NextIdent
  <2>1. /\ w.pc = "create" /\ k \in Id /\ account[k].state = "unborn"
        /\ account' = [account EXCEPT ![k] = [state |-> "live", of |-> m, holds |-> c]]
        /\ Go(m, r, IF heard
                      THEN [w EXCEPT !.pc = "annotate", !.cr.ext = k,
                                     !.cr.create = "succeeded"]
                      ELSE [w EXCEPT !.pc = "annotate", !.cr.create = "failed"])
    BY <1>9, GroupRuntime DEF Group!Post, Group!Unborn
  <2> HIDE DEF k
  <2>2. account' \in [Id -> Thing({Spec0})]
    BY <1>1, <2>1, PostGrows
  <2>3. /\ Moved(m, r) /\ Makes(m, r)
        /\ work'[m][r].cr.sid = w.cr.sid /\ work'[m][r].cr.phase = w.cr.phase
        /\ \/ work'[m][r].cr.create = "succeeded" /\ work'[m][r].cr.ext = k
           \/ work'[m][r].cr.create = "failed" /\ work'[m][r].cr.ext = w.cr.ext
    BY <1>1, <2>1, Created
  <2>4. /\ account'[k].state = "live" /\ account'[k].of = m /\ account'[k].holds = c
        /\ \A j \in Id : j # k => account'[j] = account[j]
    BY <1>1, <2>1
  <2>5. Mints(m, r)
    BY <2>1, <2>3, <2>4 DEF Mints
  <2>6. QED
    BY <2>2, <2>3, <2>5 DEF Tells
<1>10. ASSUME Go(m, r, Close(w)), w.pc # "idle", Dwindles,
              account' \in [Id -> Thing({Spec0})],
              \/ Spares
              \/ /\ w.cr.phase = "deleting" /\ LookedUp(w.cr) \in Id
                 /\ \A j \in Id : j # LookedUp(w.cr) => account'[j].state = account[j].state
       PROVE  Goal
  BY <1>1, <1>10, Closed DEF Tells, Ceases
<1>11. ASSUME Group!Remove(m, r, Group!LookupID(w.cr)) PROVE Goal
  <2> DEFINE k == LookedUp(w.cr)
  <2>1. /\ k \in Id /\ account[k].state = "live"
        /\ w.pc = "act" /\ w.cr.phase = "deleting"
        /\ account' = [account EXCEPT ![k] =
                         [account[k] EXCEPT !.state = "deleted", !.holds = Group!Blank]]
        /\ Go(m, r, Close(w))
    BY <1>3, <1>11, GroupRuntime DEF Group!Remove, Group!Deleting, Group!Live, Group!Remains
  <2> HIDE DEF k
  <2>2. Group!Blank \in {Spec0}
    BY DEF Group!Blank
  <2>3. Fades /\ account' \in [Id -> Thing({Spec0})]
    BY <1>1, <2>1, <2>2, RemoveFades
  <2>4. Dwindles
    <3>1. account'[k].state # "live" /\ \A j \in Id : j # k => account'[j] = account[j]
      BY <1>1, <2>1 DEF Thing
    <3>2. QED
      BY <2>3, <3>1 DEF Dwindles
  <2>5. \A j \in Id : j # k => account'[j].state = account[j].state
    BY <1>1, <2>1
  <2>6. QED
    BY <1>10, <2>1, <2>3, <2>4, <2>5 DEF k
<1>12. CASE Group!Publish(m, r)
  <2>1. Go(m, r, Close(w)) /\ account' = account /\ w.pc = "publish"
    BY <1>12, GroupRuntime DEF Group!Publish, Group!PublishNothing
  <2>2. QED
    BY <1>1, <1>10, <2>1, SameFades DEF Dwindles, Spares
<1>13. Group!Blank \in {Spec0}
  BY DEF Group!Blank
<1>14. QED
  BY <1>5, <1>6, <1>7, <1>8, <1>9, <1>11, <1>12, <1>13
  DEF Group!HandlerStep, Group!Create, Group!Delete

LEMMA GroupWorld ==
  ASSUME Typed({Spec0}, ExtName, Thing({Spec0})), kind = "group", NEW k \in Id,
         Group!Lose(k)
  PROVE  UNCHANGED runtimeVars /\ Dwindles /\ Spares
                               /\ Typed({Spec0}, ExtName, Thing({Spec0}))'
<1>1. account \in [Id -> Thing({Spec0})] /\ Group!Blank \in {Spec0}
  <2>1. Group!Blank \in {Spec0}
    BY DEF Group!Blank
  <2>2. QED
    BY <2>1 DEF Typed
<1>2. UNCHANGED runtimeVars
  BY DEF Group!Lose, Group!Vanish, Group!runtimeVars, runtimeVars
<1>4. CASE Group!Lose(k)
  <2>1. /\ account[k].state = "live"
        /\ account' = [account EXCEPT ![k] =
                         [account[k] EXCEPT !.state = "lost", !.holds = Group!Blank]]
    BY <1>4 DEF Group!Lose, Group!Vanish, Group!Live, Group!Remains
  <2>2. Fades /\ account' \in [Id -> Thing({Spec0})]
    BY <1>1, <2>1, RemoveFades
  <2>3. account'[k].state = "lost" /\ \A j \in Id : j # k => account'[j] = account[j]
    BY <1>1, <2>1 DEF Thing
  <2>4. Dwindles /\ Spares
    BY <2>2, <2>3 DEF Dwindles, Spares
  <2>5. QED
    BY <1>2, <2>2, <2>4, WorldTyped
<1>5. QED
  BY <1>4

LEMMA GroupUserTyped ==
  ASSUME Typed({Spec0}, ExtName, Thing({Spec0})), Group!UserStep
  PROVE  /\ \E m \in MR : RequestDelete(m) \/ Respecify(m) \/ ClearPending(m)
         /\ account' = account /\ Typed({Spec0}, ExtName, Thing({Spec0}))'
<1>1. PICK m \in MR : RequestDelete(m) \/ Asks(m, {Spec0}) \/ ClearPending(m)
  BY GroupRuntime DEF Group!UserStep
<1>2. {Spec0} \subseteq Desired /\ account' = account
  BY BoundsAssumption, DesiredAssumption DEF Role, Group!UserStep
<1>3. QED
  BY <1>1, <1>2, UserNarrow DEF Typed

LEMMA GroupSteps ==
  ASSUME Typed({Spec0}, ExtName, Thing({Spec0})), kind = "group", Group!Next
  PROVE  Typed({Spec0}, ExtName, Thing({Spec0}))' /\ Seeks
<1>1. Spec0 \in {Spec0} /\ Id \cup {NoId} \subseteq ExtName
  BY DesiredAssumption DEF Role, ExtName, Hints
<1>2. ASSUME NEW m \in MR, NEW r \in Replica, Group!WorkerStep(m, r)
      PROVE  Typed({Spec0}, ExtName, Thing({Spec0}))' /\ Seeks
  <2>1. CASE Group!SecretlessStep(m, r) /\ account' = account
    BY <1>1, <2>1, GroupRuntime, LoopTyped DEF Seeks
  <2>2. CASE Group!HandlerStep(m, r)
    <3>1. Tells(m, r) /\ account' \in [Id -> Thing({Spec0})]
      BY <2>2, GroupHandles
    <3>2. QED
      BY <1>1, <3>1, HandlerTyped DEF Tells, Seeks
  <2>3. QED
    BY <1>2, <2>1, <2>2 DEF Group!WorkerStep
<1>3. CASE Group!UserStep
  BY <1>3, GroupUserTyped DEF Seeks
<1>4. ASSUME NEW k \in Id, Group!Lose(k)
      PROVE  Typed({Spec0}, ExtName, Thing({Spec0}))' /\ Seeks
  BY <1>4, GroupWorld DEF Seeks
<1>5. QED
  BY <1>2, <1>3, <1>4 DEF Group!Next

-----------------------------------------------------------------------------
(* Service users *)

ServiceUsers == [role : Role, named : BOOLEAN]

LEMMA ServiceUserRuntime ==
  ASSUME NEW m, NEW r
  PROVE  /\ ServiceUser!SecretlessStep(m, r) <=> SecretlessStep(m, r)
         /\ \A x : ServiceUser!Go(m, r, x) <=> Go(m, r, x)
         /\ \A w : ServiceUser!Close(w) = Close(w)
         /\ ServiceUser!RequestDelete(m) <=> RequestDelete(m)
         /\ ServiceUser!Respecify(m) <=> Asks(m, Role)
         /\ ServiceUser!ClearPending(m) <=> ClearPending(m)
         /\ ServiceUser!runtimeVars = runtimeVars
<1>1. ServiceUser!SecretlessStep(m, r) <=> SecretlessStep(m, r)
  BY DEF ServiceUser!SecretlessStep, ServiceUser!RuntimeStep, ServiceUser!Release,
         ServiceUser!Commit, ServiceUser!Go, ServiceUser!Outdate,
         ServiceUser!Reloaded, ServiceUser!Close, ServiceUser!Begin,
         ServiceUser!AwaitGrace, ServiceUser!Proceed, ServiceUser!EnsureFinalizer,
         ServiceUser!MarkPending, ServiceUser!CreateRefused, ServiceUser!Annotate,
         ServiceUser!StepFails, ServiceUser!ReportStatus, ServiceUser!Abandon,
         ServiceUser!SyncCache, ServiceUser!Idle, ServiceUser!Fresh, SecretlessStep,
         RuntimeStep, Release, Commit, Go, Outdate, Reloaded, Close, Begin,
         AwaitGrace, Proceed, EnsureFinalizer, MarkPending, CreateRefused, Annotate,
         StepFails, ReportStatus, Abandon, SyncCache, Idle, Fresh
<1>2. \A x : ServiceUser!Go(m, r, x) <=> Go(m, r, x)
  BY DEF ServiceUser!Go, Go
<1>3. \A w : ServiceUser!Close(w) = Close(w)
  BY DEF ServiceUser!Close, ServiceUser!Idle, ServiceUser!Fresh, Close, Idle, Fresh
<1>4. ServiceUser!RequestDelete(m) <=> RequestDelete(m)
  BY DEF ServiceUser!RequestDelete, ServiceUser!Edit, ServiceUser!Outdate,
         RequestDelete, Edit, Outdate
<1>5. ServiceUser!Respecify(m) <=> Asks(m, Role)
  BY DEF ServiceUser!Respecify, ServiceUser!Edit, ServiceUser!Outdate, Asks, Edit,
         Outdate
<1>6. ServiceUser!ClearPending(m) <=> ClearPending(m)
  BY DEF ServiceUser!ClearPending, ServiceUser!Unresolved, ServiceUser!Edit,
         ServiceUser!Outdate, ClearPending, Unresolved, Edit, Outdate
<1>7. ServiceUser!runtimeVars = runtimeVars
  BY DEF ServiceUser!runtimeVars, runtimeVars
<1>8. QED
  BY <1>1, <1>2, <1>3, <1>4, <1>5, <1>6, <1>7

LEMMA ServiceUserTypes == ServiceUser!TypeOK <=> Typed(Role, ExtName, Thing(ServiceUsers))
<1>1. ServiceUser!RuntimeTypeOK <=> TypedAs(Role, ExtName)
  BY DEF ServiceUser!RuntimeTypeOK, ServiceUser!Object, ServiceUser!Work,
         ServiceUser!PC, ServiceUser!ExtName, ServiceUser!StatusId,
         ServiceUser!Hints, TypedAs, ObjectOf, WorkOf, PC, StatusId, ExtName, Hints
<1>2. Role \subseteq Desired /\ ExtName \subseteq ExtName
  BY BoundsAssumption, DesiredAssumption DEF Role
<1>3. QED
  BY <1>1, <1>2, NarrowTypes
  DEF ServiceUser!TypeOK, ServiceUser!NetBirdObject, Thing, Typed, ServiceUsers

\* A manifest cannot give the identifier of a service user that is not there yet.
Unimported == \A m \in MR : mr[m].ext \notin Id

LEMMA ServiceUserOpens ==
  ServiceUser!Init => Opens /\ Typed(Role, ExtName, Thing(ServiceUsers)) /\ Unimported
<1> SUFFICES ASSUME ServiceUser!Init
             PROVE  Opens /\ Typed(Role, ExtName, Thing(ServiceUsers)) /\ Unimported
  OBVIOUS
<1>1. PICK born \in SUBSET {}, o \in MR, c \in ServiceUsers :
        /\ \A j, k \in born : j = k
        /\ ServiceUser!RuntimeInit(born)
        /\ account = [k \in Id |-> IF k \in born
                        THEN [state |-> "live", of |-> o, holds |-> c]
                        ELSE [state |-> "unborn", of |-> o, holds |-> ServiceUser!Blank]]
  BY DEF ServiceUser!Init, ServiceUsers
<1>2. born \in SUBSET Id
  BY BoundsAssumption
<1>3. RuntimeInit(born) /\ Narrow(Role, ExtName)
  <2>1. /\ mr \in [MR -> {[Fresh EXCEPT !.ext = e] : e \in Hints \cup born}]
        /\ cache = [m \in MR |-> [r \in Replica |-> mr[m]]]
        /\ work = [m \in MR |-> [r \in Replica |-> Idle]]
    BY <1>1
    DEF ServiceUser!RuntimeInit, ServiceUser!Hints, ServiceUser!Fresh,
        ServiceUser!Idle, Idle, Fresh, Hints
  <2>2. Hints \subseteq Hints /\ NoId \in ExtName /\ Hints \cup Id \subseteq ExtName
    BY DEF Hints, ExtName
  <2>3. Spec0 \in Role
    BY DEF Role
  <2>4. QED
    BY <1>2, <2>1, <2>2, <2>3, OpenNarrow
<1>4. account \in [Id -> Thing(ServiceUsers)]
  <2>1. ServiceUser!Blank \in ServiceUsers
    BY <1>1 DEF ServiceUser!Blank, ServiceUsers
  <2>2. QED
    BY <1>1, <2>1 DEF Thing
<1>5. Opens
  BY <1>1, <1>2, <1>3 DEF Opens
<1>6. Unimported
  BY <1>1, <1>3, IdentityAssumption DEF RuntimeInit, Fresh, Hints, Unimported
<1>7. QED
  BY <1>2, <1>3, <1>4, <1>5, <1>6, RuntimeInitTypes DEF Typed

\* What is reported found or missing.
LEMMA ServiceUserHandles ==
  ASSUME Typed(Role, ExtName, Thing(ServiceUsers)), kind = "service user", NEW m \in MR,
         NEW r \in Replica,
         ServiceUser!HandlerStep(m, r)
  PROVE  Tells(m, r) /\ account' \in [Id -> Thing(ServiceUsers)]
<1> DEFINE w == work[m][r]
           Goal == Tells(m, r) /\ account' \in [Id -> Thing(ServiceUsers)]
<1>1. /\ w \in Work /\ w.cr.spec \in Role /\ w.cr.sid \in StatusId /\ w.cr.ext \in ExtName
      /\ RuntimeTypeOK /\ account \in [Id -> Thing(ServiceUsers)]
  <2>1. /\ w \in Work /\ w.cr \in Object /\ RuntimeTypeOK
        /\ account \in [Id -> Thing(ServiceUsers)]
    BY DEF Typed, RuntimeTypeOK, Work
  <2>2. w.cr.spec \in Role /\ w.cr.sid \in StatusId /\ w.cr.ext \in ExtName
    BY <2>1 DEF Typed, Narrow, Object
  <2>3. QED
    BY <2>1, <2>2
<1>2. ServiceUser!Listed(m) = Counted(m) /\ ServiceUser!NamedUsers(m) = Counted(m)
  BY DEF ServiceUser!Listed, ServiceUser!NamedUsers, ServiceUser!ObjectsOf,
         ServiceUser!Live, ServiceUser!Named, Present, Counted
<1>3. ServiceUser!LookupID(w.cr) = LookedUp(w.cr) /\ Counted(m) \subseteq Id
  BY DEF ServiceUser!LookupID, LookedUp, Sought, Counted, Present
<1>4. \A cr, k : ServiceUser!Comparison(cr, k) \in {"uptodate", "outdated"}
  BY DEF ServiceUser!Comparison
<1>5. CASE ServiceUser!Adopt(m, r)
  <2>1. PICK k \in Counted(m), verdict \in {"uptodate", "outdated"} :
          Go(m, r, [w EXCEPT !.pc = "act", !.obs = verdict, !.cr.ext = k, !.cr.sid = k])
    BY <1>2, <1>4, <1>5, ServiceUserRuntime DEF ServiceUser!Adopt, ServiceUser!Report
  <2>2. w.pc = "observe" /\ account' = account
    BY <1>5 DEF ServiceUser!Adopt, ServiceUser!Observing, ServiceUser!Report
  <2>3. k \in Id /\ k \in StatusId
    BY <1>3 DEF StatusId
  <2>4. QED
    BY <1>1, <2>1, <2>2, <2>3, Reported DEF Tells, Discovers, Looks
<1>6. CASE ServiceUser!ObserveFound(m, r)
  <2> DEFINE k == LookedUp(w.cr)
  <2>1. PICK verdict \in {"uptodate", "outdated"} :
          Go(m, r, [w EXCEPT !.pc = "act", !.obs = verdict, !.cr.ext = k, !.cr.sid = k])
    BY <1>3, <1>4, <1>6, ServiceUserRuntime DEF ServiceUser!ObserveFound, ServiceUser!Report
  <2>2. /\ w.pc = "observe" /\ account' = account
        /\ k \in Id /\ k \in StatusId /\ account[k].state = "live"
    BY <1>3, <1>6
    DEF ServiceUser!ObserveFound, ServiceUser!Observing, ServiceUser!Report,
        ServiceUser!Live, StatusId
  <2> HIDE DEF k
  <2>3. /\ Moved(m, r) /\ Looks(m, r, TRUE) /\ Acts(m, r, k, k)
        /\ work'[m][r].obs # "missing"
    BY <1>1, <2>1, <2>2, Reported DEF Looks
  <2>4. QED
    BY <1>1, <2>2, <2>3 DEF Tells, Discovers, k
<1>7. CASE ServiceUser!ObserveNamed(m, r)
  <2>1. PICK k \in Counted(m), verdict \in {"uptodate", "outdated"} :
          Go(m, r, [w EXCEPT !.pc = "act", !.obs = verdict, !.cr.sid = k])
    BY <1>2, <1>4, <1>7, ServiceUserRuntime DEF ServiceUser!ObserveNamed
  <2>2. /\ w.pc = "observe" /\ account' = account
        /\ LookedUp(w.cr) = DispName /\ DispName # ObjName
    BY <1>3, <1>7
    DEF ServiceUser!ObserveNamed, ServiceUser!Observing, ServiceUser!ByDisplayName,
        ServiceUser!Nameless
  <2>3. w.cr.ext = DispName /\ DispName # ObjName
    BY <1>1, <2>2, IdentityAssumption DEF LookedUp, Sought, StatusId
  <2>4. k \in StatusId
    BY <1>3 DEF StatusId
  <2>5. /\ Moved(m, r) /\ Looks(m, r, FALSE) /\ Acts(m, r, w.cr.ext, k)
        /\ work'[m][r].obs # "missing"
    BY <1>1, <2>1, <2>2, <2>4, ReportedNamed
  <2>6. Looks(m, r, TRUE) /\ Acts(m, r, DispName, k)
    BY <2>3, <2>5 DEF Looks
  <2>7. QED
    BY <1>1, <2>2, <2>3, <2>5, <2>6 DEF Tells, Discovers
<1>8. CASE ServiceUser!ObserveMissing(m, r) \/ ServiceUser!ObserveNotFound(m, r)
  <2>1. /\ w.pc = "observe" /\ account' = account
        /\ Go(m, r, [w EXCEPT !.pc = "act", !.obs = "missing"])
    BY <1>8, ServiceUserRuntime
    DEF ServiceUser!ObserveMissing, ServiceUser!ObserveNotFound,
        ServiceUser!Observing, ServiceUser!ReportMissing
  <2>2. IF LookedUp(w.cr) \in Id THEN account[LookedUp(w.cr)].state # "live"
                                 ELSE Counted(m) = {}
    <3>1. CASE ServiceUser!ObserveMissing(m, r)
      BY <1>2, <1>3, <3>1, IdentityAssumption
      DEF ServiceUser!ObserveMissing, ServiceUser!Nameless,
          ServiceUser!ByDisplayName
    <3>2. CASE ServiceUser!ObserveNotFound(m, r)
      BY <1>3, <3>2 DEF ServiceUser!ObserveNotFound, ServiceUser!ById, ServiceUser!Live
    <3>3. QED
      BY <1>8, <3>1, <3>2
  <2>3. /\ Moved(m, r) /\ Looks(m, r, TRUE) /\ Acts(m, r, w.cr.ext, w.cr.sid)
        /\ work'[m][r].obs = "missing"
    BY <1>1, <2>1, ReportedMissing
  <2>4. QED
    BY <1>1, <2>1, <2>2, <2>3 DEF Tells, Discovers
<1>9. ASSUME NEW heard \in BOOLEAN, NEW c \in ServiceUsers,
             ServiceUser!Post(m, r, heard, c), c.named
      PROVE  Goal
  <2> DEFINE k == ServiceUser!NextIdent
  <2>1. /\ w.pc = "create" /\ k \in Id /\ account[k].state = "unborn"
        /\ account' = [account EXCEPT ![k] = [state |-> "live", of |-> m, holds |-> c]]
        /\ Go(m, r, IF heard
                      THEN [w EXCEPT !.pc = "annotate", !.cr.ext = k,
                                     !.cr.create = "succeeded"]
                      ELSE [w EXCEPT !.pc = "annotate", !.cr.create = "failed"])
    BY <1>9, ServiceUserRuntime DEF ServiceUser!Post, ServiceUser!Unborn
  <2> HIDE DEF k
  <2>2. account' \in [Id -> Thing(ServiceUsers)]
    BY <1>1, <2>1, PostGrows
  <2>3. /\ Moved(m, r) /\ Makes(m, r)
        /\ work'[m][r].cr.sid = w.cr.sid /\ work'[m][r].cr.phase = w.cr.phase
        /\ \/ work'[m][r].cr.create = "succeeded" /\ work'[m][r].cr.ext = k
           \/ work'[m][r].cr.create = "failed" /\ work'[m][r].cr.ext = w.cr.ext
    BY <1>1, <2>1, Created
  <2>4. /\ account'[k].state = "live" /\ account'[k].of = m /\ account'[k].holds = c
        /\ \A j \in Id : j # k => account'[j] = account[j]
    BY <1>1, <2>1
  <2>5. Mints(m, r)
    BY <1>9, <2>1, <2>3, <2>4 DEF Mints
  <2>6. QED
    BY <2>2, <2>3, <2>5 DEF Tells
<1>10. ASSUME Go(m, r, Close(w)), w.pc # "idle", Dwindles,
              account' \in [Id -> Thing(ServiceUsers)],
              \/ Spares
              \/ /\ w.cr.phase = "deleting" /\ LookedUp(w.cr) \in Id
                 /\ \A j \in Id : j # LookedUp(w.cr) => account'[j].state = account[j].state
       PROVE  Goal
  BY <1>1, <1>10, Closed DEF Tells, Ceases
<1>11. ASSUME ServiceUser!Remove(m, r, ServiceUser!LookupID(w.cr)) PROVE Goal
  <2> DEFINE k == LookedUp(w.cr)
  <2>1. /\ k \in Id /\ account[k].state = "live"
        /\ w.pc = "act" /\ w.cr.phase = "deleting"
        /\ account' = [account EXCEPT ![k] =
                         [account[k] EXCEPT !.state = "deleted", !.holds = ServiceUser!Blank]]
        /\ Go(m, r, Close(w))
    BY <1>3, <1>11, ServiceUserRuntime
    DEF ServiceUser!Remove, ServiceUser!Deleting, ServiceUser!Live, ServiceUser!Remains
  <2> HIDE DEF k
  <2>2. ServiceUser!Blank \in ServiceUsers
    <3>1. [role |-> Spec0, named |-> TRUE] \in ServiceUsers
      BY DEF ServiceUsers, Role
    <3>2. QED
      BY <3>1 DEF ServiceUser!Blank, ServiceUsers
  <2>3. Fades /\ account' \in [Id -> Thing(ServiceUsers)]
    BY <1>1, <2>1, <2>2, RemoveFades
  <2>4. Dwindles
    <3>1. account'[k].state # "live" /\ \A j \in Id : j # k => account'[j] = account[j]
      BY <1>1, <2>1 DEF Thing
    <3>2. QED
      BY <2>3, <3>1 DEF Dwindles
  <2>5. \A j \in Id : j # k => account'[j].state = account[j].state
    BY <1>1, <2>1
  <2>6. QED
    BY <1>10, <2>1, <2>3, <2>4, <2>5 DEF k
<1>12. CASE ServiceUser!Publish(m, r)
  <2>1. Go(m, r, Close(w)) /\ account' = account /\ w.pc = "publish"
    BY <1>12, ServiceUserRuntime DEF ServiceUser!Publish, ServiceUser!PublishNothing
  <2>2. QED
    BY <1>1, <1>10, <2>1, SameFades DEF Dwindles, Spares
<1>13. CASE ServiceUser!Update(m, r)
  <2> DEFINE k == ServiceUser!LookupID(w.cr)
             c == [account[k].holds EXCEPT !.role = w.cr.spec]
  <2>1. /\ k \in Id /\ account' = [account EXCEPT ![k].holds = c]
        /\ Go(m, r, Close(w)) /\ w.pc = "update"
    BY <1>13, ServiceUserRuntime DEF ServiceUser!Update, ServiceUser!Put, ServiceUser!Live
  <2>2. c \in ServiceUsers /\ c.named = account[k].holds.named
    BY <1>1, <2>1 DEF Thing, ServiceUsers
  <2> HIDE DEF k, c
  <2>3. Fades /\ account' \in [Id -> Thing(ServiceUsers)]
    BY <1>1, <2>1, <2>2, PutFades
  <2>4. Dwindles
    <3>1. account'[k].holds = c /\ \A j \in Id : j # k => account'[j] = account[j]
      BY <1>1, <2>1 DEF Thing
    <3>2. QED
      BY <2>2, <2>3, <3>1 DEF Dwindles
  <2>5. Spares
    <3>1. \A j \in Id : account'[j].state = account[j].state
      BY <1>1, <2>1 DEF Thing
    <3>2. QED
      BY <3>1 DEF Spares
  <2>6. QED
    BY <1>10, <2>1, <2>3, <2>4, <2>5
<1>14. ASSUME NEW heard \in BOOLEAN, ServiceUser!CreateService(m, r, heard) PROVE Goal
  <2> DEFINE c == [role |-> w.cr.spec, named |-> TRUE]
  <2>1. c \in ServiceUsers /\ c.named
    BY <1>1 DEF ServiceUsers
  <2>2. QED
    BY <1>9, <1>14, <2>1 DEF ServiceUser!CreateService
<1>15. QED
  BY <1>5, <1>6, <1>7, <1>8, <1>11, <1>12, <1>13, <1>14
  DEF ServiceUser!HandlerStep, ServiceUser!CreateNobody, ServiceUser!Delete,
      ServiceUser!DeleteNobody

LEMMA ServiceUserWorld ==
  ASSUME Typed(Role, ExtName, Thing(ServiceUsers)), kind = "service user", NEW k \in Id,
         ServiceUser!Change(k) \/ ServiceUser!Lose(k)
  PROVE  UNCHANGED runtimeVars /\ Dwindles /\ Spares
                               /\ Typed(Role, ExtName, Thing(ServiceUsers))'
<1>1. account \in [Id -> Thing(ServiceUsers)] /\ ServiceUser!Blank \in ServiceUsers
  <2>1. ServiceUser!Blank \in ServiceUsers
    <3>1. [role |-> Spec0, named |-> TRUE] \in ServiceUsers
      BY DEF ServiceUsers, Role
    <3>2. QED
      BY <3>1 DEF ServiceUser!Blank, ServiceUsers
  <2>2. QED
    BY <2>1 DEF Typed
<1>2. UNCHANGED runtimeVars
  BY DEF ServiceUser!Change, ServiceUser!Tamper, ServiceUser!Lose,
         ServiceUser!Vanish, ServiceUser!runtimeVars, runtimeVars
<1>3. CASE ServiceUser!Change(k)
  <2>1. PICK c \in ServiceUsers : account' = [account EXCEPT ![k].holds = c]
    BY <1>3 DEF ServiceUser!Change, ServiceUser!Tamper, ServiceUsers
  <2>2. Fades /\ account' \in [Id -> Thing(ServiceUsers)]
    BY <1>1, <2>1, PutFades
  <2>3. account'[k].holds.named => account[k].holds.named
    BY <1>3 DEF ServiceUser!Change
  <2>4. \A j \in Id : j # k => account'[j] = account[j]
    BY <1>1, <2>1
  <2>5. Dwindles
    BY <2>2, <2>3, <2>4 DEF Dwindles
  <2>6. Spares
    <3>1. \A j \in Id : account'[j].state = account[j].state
      BY <1>1, <2>1 DEF Thing
    <3>2. QED
      BY <3>1 DEF Spares
  <2>7. QED
    BY <1>2, <2>2, <2>5, <2>6, WorldTyped
<1>4. CASE ServiceUser!Lose(k)
  <2>1. /\ account[k].state = "live"
        /\ account' = [account EXCEPT ![k] =
                         [account[k] EXCEPT !.state = "lost", !.holds = ServiceUser!Blank]]
    BY <1>4 DEF ServiceUser!Lose, ServiceUser!Vanish, ServiceUser!Live, ServiceUser!Remains
  <2>2. Fades /\ account' \in [Id -> Thing(ServiceUsers)]
    BY <1>1, <2>1, RemoveFades
  <2>3. account'[k].state = "lost" /\ \A j \in Id : j # k => account'[j] = account[j]
    BY <1>1, <2>1 DEF Thing
  <2>4. Dwindles /\ Spares
    BY <2>2, <2>3 DEF Dwindles, Spares
  <2>5. QED
    BY <1>2, <2>2, <2>4, WorldTyped
<1>5. QED
  BY <1>3, <1>4

LEMMA ServiceUserUserTyped ==
  ASSUME Typed(Role, ExtName, Thing(ServiceUsers)), ServiceUser!UserStep
  PROVE  /\ \E m \in MR : RequestDelete(m) \/ Respecify(m) \/ ClearPending(m)
         /\ account' = account /\ Typed(Role, ExtName, Thing(ServiceUsers))'
<1>1. PICK m \in MR : RequestDelete(m) \/ Asks(m, Role) \/ ClearPending(m)
  BY ServiceUserRuntime DEF ServiceUser!UserStep
<1>2. Role \subseteq Desired /\ account' = account
  BY BoundsAssumption, DesiredAssumption DEF Role, ServiceUser!UserStep
<1>3. QED
  BY <1>1, <1>2, UserNarrow DEF Typed

LEMMA ServiceUserSteps ==
  ASSUME Typed(Role, ExtName, Thing(ServiceUsers)), kind = "service user", ServiceUser!Next
  PROVE  Typed(Role, ExtName, Thing(ServiceUsers))' /\ Seeks
<1>1. Spec0 \in Role /\ Id \cup {NoId} \subseteq ExtName
  BY DesiredAssumption DEF Role, ExtName, Hints
<1>2. ASSUME NEW m \in MR, NEW r \in Replica, ServiceUser!WorkerStep(m, r)
      PROVE  Typed(Role, ExtName, Thing(ServiceUsers))' /\ Seeks
  <2>1. CASE ServiceUser!SecretlessStep(m, r) /\ account' = account
    BY <1>1, <2>1, ServiceUserRuntime, LoopTyped DEF Seeks
  <2>2. CASE ServiceUser!HandlerStep(m, r)
    <3>1. Tells(m, r) /\ account' \in [Id -> Thing(ServiceUsers)]
      BY <2>2, ServiceUserHandles
    <3>2. QED
      BY <1>1, <3>1, HandlerTyped DEF Tells, Seeks
  <2>3. QED
    BY <1>2, <2>1, <2>2 DEF ServiceUser!WorkerStep
<1>3. CASE ServiceUser!UserStep
  BY <1>3, ServiceUserUserTyped DEF Seeks
<1>4. ASSUME NEW k \in Id, ServiceUser!Change(k) \/ ServiceUser!Lose(k)
      PROVE  Typed(Role, ExtName, Thing(ServiceUsers))' /\ Seeks
  BY <1>4, ServiceUserWorld DEF Seeks
<1>5. QED
  BY <1>2, <1>3, <1>4 DEF ServiceUser!Next, ServiceUser!Invite

-----------------------------------------------------------------------------
(* Kinds inside a network *)

\* At most one network of the name exists, as long as nobody creates a second.
LoneParent == ~Ambiguous /\ \A p, q \in Initial : p = q

\* What a kind may have in the networks of N.
Place(N, D) == [state : {"unborn", "live", "deleted"}, net : N, of : MR, spec : D]

\* What there is is inside a network.
Inside == \A k \in Id : account[k].state = "live" => nets[account[k].net] = "live"

\* There is one network to look into, if any.
Sheltered(N) ==
  /\ nets \in [N -> {"unborn", "live", "deleted"}]
  /\ parent \in [MR -> [Replica -> N \cup {NoId}]]
  /\ \A p, q \in N : nets[p] = "live" /\ nets[q] = "live" => p = q
  /\ Inside

\* A parent to list the contents of has been found.
Anchors(N, m, r) ==
  work'[m][r].pc = "list" =>
    work[m][r].pc = "list" \/ \E p \in N : nets[p] = "live"

\* The group comes, or goes for good.
Turns ==
  \/ group' = group
  \/ group = "unborn" /\ group' = "live"
  \/ group = "live" /\ group' = "deleted"

LEMMA PlantGrows ==
  ASSUME NEW N, NEW D, account \in [Id -> Place(N, D)], Inside, nets' = nets,
         NEW k \in Id, account[k].state = "unborn",
         NEW p \in N, nets[p] = "live", NEW m \in MR, NEW d \in D,
         account' = [account EXCEPT ![k] =
                       [state |-> "live", net |-> p, of |-> m, spec |-> d]]
  PROVE  account' \in [Id -> Place(N, D)] /\ Grows(m) /\ Inside'
<1>1. /\ account'[k].state = "live" /\ account'[k].net = p /\ account'[k].of = m
      /\ \A j \in Id : j # k => account'[j] = account[j]
  OBVIOUS
<1>2. account' \in [Id -> Place(N, D)]
  BY DEF Place
<1>3. QED
  BY <1>1, <1>2 DEF Grows, Inside

LEMMA TendFades ==
  ASSUME NEW N, NEW D, account \in [Id -> Place(N, D)], Inside, nets' = nets,
         NEW k \in Id, NEW d \in D, account' = [account EXCEPT ![k].spec = d]
  PROVE  account' \in [Id -> Place(N, D)] /\ Fades /\ Inside'
<1> DEFINE o == [account[k] EXCEPT !.spec = d]
<1>1. /\ o \in Place(N, D) /\ o.of = account[k].of /\ o.state = account[k].state
      /\ o.net = account[k].net
  BY DEF Place
<1>2. account' = [account EXCEPT ![k] = o]
  OBVIOUS
<1> HIDE DEF o
<1>3. account'[k] = o /\ \A j \in Id : j # k => account'[j] = account[j]
  BY <1>2
<1>4. QED
  BY <1>1, <1>2, <1>3 DEF Fades, Inside

LEMMA UprootFades ==
  ASSUME NEW N, NEW D, Spec0 \in D, account \in [Id -> Place(N, D)], Inside, nets' = nets,
         NEW k \in Id, account[k].state = "live",
         account' = [account EXCEPT ![k] =
                       [account[k] EXCEPT !.state = "deleted", !.spec = Spec0]]
  PROVE  account' \in [Id -> Place(N, D)] /\ Fades /\ Inside'
<1> DEFINE o == [account[k] EXCEPT !.state = "deleted", !.spec = Spec0]
<1>1. o \in Place(N, D) /\ o.of = account[k].of /\ o.state = "deleted"
  BY DEF Place
<1> HIDE DEF o
<1>2. account' = [account EXCEPT ![k] = o]
  BY DEF o
<1>3. account'[k] = o /\ \A j \in Id : j # k => account'[j] = account[j]
  BY <1>2
<1>4. QED
  BY <1>1, <1>2, <1>3 DEF Fades, Inside

\* With a network goes what is inside it.
LEMMA LeaveFades ==
  ASSUME NEW N, NEW D, Spec0 \in D, account \in [Id -> Place(N, D)], Sheltered(N),
         NEW p \in N, nets[p] = "live", parent' = parent,
         nets' = [nets EXCEPT ![p] = "deleted"],
         account' = [k \in Id |->
                       IF account[k].state = "live" /\ account[k].net = p
                         THEN [account[k] EXCEPT !.state = "deleted", !.spec = Spec0]
                         ELSE account[k]]
  PROVE  account' \in [Id -> Place(N, D)] /\ Fades /\ Sheltered(N)'
<1>1. ASSUME NEW k \in Id, account[k].state = "live", account[k].net = p
      PROVE  /\ account'[k] \in Place(N, D) /\ account'[k].of = account[k].of
             /\ account'[k].state = "deleted"
  BY <1>1 DEF Place
<1>2. ASSUME NEW k \in Id, ~(account[k].state = "live" /\ account[k].net = p)
      PROVE  account'[k] = account[k]
  BY <1>2
<1>3. account' \in [Id -> Place(N, D)]
  BY <1>1, <1>2
<1>4. Fades
  BY <1>1, <1>2 DEF Fades
<1>5. Inside'
  BY <1>1, <1>2 DEF Sheltered, Inside, Place
<1>6. QED
  BY <1>3, <1>4, <1>5 DEF Sheltered

\* One comes only when there is none.
LEMMA ArriveShelters ==
  ASSUME NEW N, NEW D, account \in [Id -> Place(N, D)], Sheltered(N),
         NEW p \in N, \A q \in N : nets[q] # "live",
         nets' = [nets EXCEPT ![p] = "live"], parent' = parent, account' = account
  PROVE  Sheltered(N)'
<1>1. Inside'
  BY DEF Sheltered, Inside, Place
<1>2. QED
  BY <1>1 DEF Sheltered

\* A step of a worker moves no network.
LEMMA HeldShelters ==
  ASSUME NEW N, Sheltered(N), Inside', nets' = nets, NEW m \in MR, NEW r \in Replica,
         NEW p \in N \cup {NoId}, parent' = [parent EXCEPT ![m][r] = p]
  PROVE  Sheltered(N)'
BY DEF Sheltered

\* The loop of the library does not look for networks.
LEMMA LoopAnchors ==
  ASSUME RuntimeTypeOK, NEW N, NEW m \in MR, NEW r \in Replica, SecretlessStep(m, r)
  PROVE  Anchors(N, m, r)
<1>1. RuntimeMove(m, r) \/ Releases(m, r)
  BY RuntimeStepEffect, ReleaseMoves DEF SecretlessStep
<1>2. Idle.pc = "idle"
  BY DEF Idle
<1>3. QED
  BY <1>1, <1>2
  DEF RuntimeMove, Ends, Starts, Advances, Creates, Releases, Anchors

-----------------------------------------------------------------------------
(* Network resources *)

LEMMA NetResourceRuntime ==
  ASSUME NEW m, NEW r
  PROVE  /\ NetResource!SecretlessStep(m, r) <=> SecretlessStep(m, r)
         /\ \A x : NetResource!Go(m, r, x) <=> Go(m, r, x)
         /\ \A w : NetResource!Close(w) = Close(w)
         /\ NetResource!RequestDelete(m) <=> RequestDelete(m)
         /\ NetResource!Respecify(m) <=> Asks(m, Desired)
         /\ NetResource!ClearPending(m) <=> ClearPending(m)
         /\ NetResource!runtimeVars = runtimeVars
<1>1. NetResource!SecretlessStep(m, r) <=> SecretlessStep(m, r)
  BY DEF NetResource!SecretlessStep, NetResource!RuntimeStep, NetResource!Release,
         NetResource!Commit, NetResource!Go, NetResource!Outdate,
         NetResource!Reloaded, NetResource!Close, NetResource!Begin,
         NetResource!AwaitGrace, NetResource!Proceed, NetResource!EnsureFinalizer,
         NetResource!MarkPending, NetResource!CreateRefused, NetResource!Annotate,
         NetResource!StepFails, NetResource!ReportStatus, NetResource!Abandon,
         NetResource!SyncCache, NetResource!Idle, NetResource!Fresh, SecretlessStep,
         RuntimeStep, Release, Commit, Go, Outdate, Reloaded, Close, Begin,
         AwaitGrace, Proceed, EnsureFinalizer, MarkPending, CreateRefused, Annotate,
         StepFails, ReportStatus, Abandon, SyncCache, Idle, Fresh
<1>2. \A x : NetResource!Go(m, r, x) <=> Go(m, r, x)
  BY DEF NetResource!Go, Go
<1>3. \A w : NetResource!Close(w) = Close(w)
  BY DEF NetResource!Close, NetResource!Idle, NetResource!Fresh, Close, Idle, Fresh
<1>4. NetResource!RequestDelete(m) <=> RequestDelete(m)
  BY DEF NetResource!RequestDelete, NetResource!Edit, NetResource!Outdate,
         RequestDelete, Edit, Outdate
<1>5. NetResource!Respecify(m) <=> Asks(m, Desired)
  BY DEF NetResource!Respecify, NetResource!Edit, NetResource!Outdate, Asks, Edit,
         Outdate
<1>6. NetResource!ClearPending(m) <=> ClearPending(m)
  BY DEF NetResource!ClearPending, NetResource!Unresolved, NetResource!Edit,
         NetResource!Outdate, ClearPending, Unresolved, Edit, Outdate
<1>7. NetResource!runtimeVars = runtimeVars
  BY DEF NetResource!runtimeVars, runtimeVars
<1>8. QED
  BY <1>1, <1>2, <1>3, <1>4, <1>5, <1>6, <1>7

LEMMA NetResourceTypes ==
  NetResource!TypeOK <=>
    /\ Typed(Desired, Names, Place(Net, Desired))
    /\ nets \in [Net -> {"unborn", "live", "deleted"}]
    /\ parent \in [MR -> [Replica -> Net \cup {NoId}]]
<1>1. NetResource!RuntimeTypeOK <=> TypedAs(Desired, Names)
  BY DEF NetResource!RuntimeTypeOK, NetResource!Object, NetResource!Work,
         NetResource!PC, NetResource!ExtName, NetResource!StatusId,
         NetResource!Hints, TypedAs, ObjectOf, WorkOf, PC, StatusId, Names
<1>2. Desired \subseteq Desired /\ Names \subseteq ExtName
  BY DesiredAssumption DEF Names, ExtName, Hints
<1>3. QED
  BY <1>1, <1>2, NarrowTypes
  DEF NetResource!TypeOK, NetResource!ParentsTypeOK, NetResource!Resource, Place,
      Typed

LEMMA NetResourceOpens ==
  ASSUME LoneParent, NetResource!Init
  PROVE  /\ Opens /\ Typed(Desired, Names, Place(Net, Desired)) /\ Sheltered(Net)
<1>1. PICK born \in SUBSET {}, o \in MR, p \in Initial :
        /\ \A j, k \in born : j = k
        /\ NetResource!RuntimeInit(born)
        /\ NetResource!ParentsInit
        /\ account = [k \in Id |->
                        [state |-> IF k \in born THEN "live" ELSE "unborn",
                         net |-> p, of |-> o, spec |-> Spec0]]
  BY DEF NetResource!Init
<1>2. born \in SUBSET Id
  BY BoundsAssumption
<1>3. RuntimeInit(born) /\ Narrow(Desired, Names)
  <2>1. /\ mr \in [MR -> {[Fresh EXCEPT !.ext = e] : e \in {NoId, ObjName} \cup born}]
        /\ cache = [m \in MR |-> [r \in Replica |-> mr[m]]]
        /\ work = [m \in MR |-> [r \in Replica |-> Idle]]
    BY <1>1
    DEF NetResource!RuntimeInit, NetResource!Hints, NetResource!Fresh,
        NetResource!Idle, Idle, Fresh
  <2>2. {NoId, ObjName} \subseteq Hints /\ NoId \in Names
                                        /\ {NoId, ObjName} \cup Id \subseteq Names
    BY DEF Hints, Names
  <2>3. Spec0 \in Desired
    BY DesiredAssumption
  <2>4. QED
    BY <1>2, <2>1, <2>2, <2>3, OpenNarrow
<1>4. p \in Net /\ Initial \subseteq Net /\ Spec0 \in Desired
  BY ParentsAssumption, DesiredAssumption
<1>5. account \in [Id -> Place(Net, Desired)]
  BY <1>1, <1>4 DEF Place
<1>6. Opens
  BY <1>1, <1>2, <1>3 DEF Opens
<1>7. Sheltered(Net)
  <2>1. /\ nets = [q \in Net |-> IF q \in Initial THEN "live" ELSE "unborn"]
        /\ parent = [m \in MR |-> [r \in Replica |-> NoId]]
    BY <1>1 DEF NetResource!ParentsInit
  <2>2. Inside
    BY <1>1, <1>4, <2>1 DEF Inside
  <2>3. QED
    BY <2>1, <2>2 DEF Sheltered, LoneParent
<1>8. QED
  BY <1>1, <1>2, <1>3, <1>5, <1>6, <1>7, RuntimeInitTypes DEF Typed

\* Whichever way the parent is looked for, it is the one that exists.
LEMMA NetResourceParents ==
  ASSUME Sheltered(Net), NetResource!Parents # {}
  PROVE  \E p \in Net : /\ nets[p] = "live" /\ NetResource!Parents = {p}
                     /\ NetResource!Observed = p /\ NetResource!Chosen = p
<1>1. PICK p \in NetResource!Parents : TRUE
  OBVIOUS
<1>2. p \in Net /\ nets[p] = "live" /\ NetResource!Parents = {p}
  BY <1>1 DEF NetResource!Parents, Sheltered
<1>3. Rank[p] <= Rank[p] /\ Rank[p] >= Rank[p]
  BY <1>2, ParentsAssumption
<1>4. \A q : (q \in {p} /\ \A s \in {p} : Rank[q] <= Rank[s]) <=> q = p
  BY <1>3
<1>5. \A q : (q \in {p} /\ \A s \in {p} : Rank[q] >= Rank[s]) <=> q = p
  BY <1>3
<1>6. NetResource!FirstOf({p}) = p
  BY <1>4 DEF NetResource!FirstOf
<1>7. NetResource!LastOf({p}) = p
  BY <1>5 DEF NetResource!LastOf
<1>8. QED
  BY <1>2, <1>6, <1>7 DEF NetResource!Observed, NetResource!Chosen

LEMMA NetResourceHandles ==
  ASSUME Typed(Desired, Names, Place(Net, Desired)), Sheltered(Net), NEW m \in MR,
         NEW r \in Replica,
         NetResource!HandlerStep(m, r)
  PROVE  /\ Handles(m, r, Present(m) = {}) /\ account' \in [Id -> Place(Net, Desired)]
         /\ nets' = nets /\ Inside' /\ Anchors(Net, m, r)
<1> DEFINE w == work[m][r]
           Goal == /\ Handles(m, r, Present(m) = {})
                   /\ account' \in [Id -> Place(Net, Desired)]
                   /\ nets' = nets /\ Inside' /\ Anchors(Net, m, r)
<1>1. /\ w \in Work /\ w.cr.spec \in Desired /\ Inside
      /\ RuntimeTypeOK /\ account \in [Id -> Place(Net, Desired)]
  <2>1. w \in Work /\ RuntimeTypeOK /\ account \in [Id -> Place(Net, Desired)] /\ Inside
    BY DEF Typed, RuntimeTypeOK, Sheltered
  <2>2. w.cr.spec \in Desired
    BY DEF Typed, Narrow
  <2>3. QED
    BY <2>1, <2>2
<1>2. ASSUME account' = account /\ nets' = nets,
             w.pc \in {"observe", "list"}, NEW k \in Id,
             NEW verdict \in {"uptodate", "outdated"},
             Go(m, r, [w EXCEPT !.pc = "act", !.obs = verdict, !.cr.ext = k, !.cr.sid = k])
      PROVE  Goal
  <2>1. /\ Moved(m, r) /\ Looks(m, r, FALSE) /\ work'[m][r].pc = "act"
    BY <1>1, <1>2, Reported DEF StatusId, Acts
  <2>2. QED
    BY <1>1, <1>2, <2>1 DEF Handles, Looks, Anchors, Inside
<1>3. ASSUME account' = account /\ nets' = nets, Go(m, r, Close(w)) PROVE Goal
  <2>1. Moved(m, r) /\ Stops(m, r)
    BY <1>1, <1>3, Closed
  <2>2. QED
    BY <1>1, <1>3, <2>1, SameFades DEF Handles, Stops, Anchors, Inside
<1>4. CASE NetResource!ObserveOrphan(m, r) \/ NetResource!Publish(m, r)
  BY <1>3, <1>4, NetResourceRuntime DEF NetResource!ObserveOrphan, NetResource!Publish
<1>5. CASE NetResource!ObserveFound(m, r)
  <2> DEFINE k == NetResource!Lookup(w.cr)
             verdict == NetResource!Comparison(w.cr, k)
  <2>1. verdict \in {"uptodate", "outdated"}
    BY DEF NetResource!Comparison
  <2>2. /\ w.pc \in {"observe", "list"} /\ k \in Id /\ account' = account /\ nets' = nets
        /\ Go(m, r, [w EXCEPT !.pc = "act", !.obs = verdict, !.cr.ext = k, !.cr.sid = k])
    BY <1>5, NetResourceRuntime DEF NetResource!ObserveFound, NetResource!Under
  <2> HIDE DEF k, verdict
  <2>3. QED
    BY <1>2, <2>1, <2>2
<1>6. CASE NetResource!ObserveNotFound(m, r)
  <2>1. /\ w.pc = "observe" /\ account' = account /\ nets' = nets
        /\ NetResource!Parents # {}
        /\ Go(m, r, [w EXCEPT !.pc = "list"])
    BY <1>6, NetResourceRuntime DEF NetResource!ObserveNotFound
  <2>2. Moved(m, r) /\ Looks(m, r, FALSE)
    BY <1>1, <2>1, ListedNext
  <2>3. \E p \in Net : nets[p] = "live"
    BY <2>1 DEF NetResource!Parents
  <2>4. QED
    BY <1>1, <2>1, <2>2, <2>3 DEF Handles, Looks, Anchors, Inside
<1>7. CASE NetResource!Adopt(m, r)
  <2>1. PICK k \in Id : Go(m, r, NetResource!Adopted(w, k))
    BY <1>7, NetResourceRuntime DEF NetResource!Adopt
  <2>2. Go(m, r, [w EXCEPT !.pc = "act", !.obs = "outdated", !.cr.ext = k, !.cr.sid = k])
    BY <2>1 DEF NetResource!Adopted
  <2>3. w.pc \in {"observe", "list"} /\ account' = account /\ nets' = nets
    BY <1>7 DEF NetResource!Adopt, NetResource!Listing
  <2>4. QED
    BY <1>2, <2>2, <2>3
<1>8. CASE NetResource!ObserveMissing(m, r)
  <2>1. /\ w.pc \in {"observe", "list"} /\ account' = account /\ nets' = nets
        /\ Go(m, r, [w EXCEPT !.pc = "act", !.obs = "missing"])
    BY <1>8, NetResourceRuntime DEF NetResource!ObserveMissing, NetResource!Listing
  <2>2. Present(m) = {}
    <3>1. PICK p \in Net : /\ nets[p] = "live"
                         /\ \A k \in Id : ~(NetResource!Under(k, p) /\ NetResource!Named(k, m))
      BY <1>8 DEF NetResource!ObserveMissing, NetResource!Parents
    <3>2. ASSUME NEW k \in Present(m) PROVE FALSE
      <4>1. k \in Id /\ account[k].state = "live" /\ account[k].of = m
                     /\ account[k].net \in Net
        BY <1>1 DEF Present, Place
      <4>2. account[k].net = p
        BY <3>1, <4>1 DEF Sheltered, Inside
      <4>3. QED
        BY <3>1, <4>1, <4>2 DEF NetResource!Under, NetResource!Named
    <3>3. QED
      BY <3>2
  <2>3. /\ Moved(m, r) /\ Looks(m, r, TRUE) /\ work'[m][r].pc = "act"
    BY <1>1, <2>1, ReportedMissing DEF Acts
  <2>4. QED
    BY <1>1, <2>1, <2>2, <2>3 DEF Handles, Looks, Anchors, Inside
<1>9. ASSUME NEW heard \in BOOLEAN, NetResource!Create(m, r, heard) PROVE Goal
  <2> DEFINE k == CHOOSE i \in NetResource!Unborn : TRUE
  <2>1. /\ w.pc = "create" /\ k \in Id /\ account[k].state = "unborn"
        /\ nets' = nets
        /\ Go(m, r, IF heard
                      THEN [w EXCEPT !.pc = "annotate", !.cr.ext = k,
                                     !.cr.create = "succeeded"]
                      ELSE [w EXCEPT !.pc = "annotate", !.cr.create = "failed"])
    BY <1>9, NetResourceRuntime DEF NetResource!Create, NetResource!Unborn
  <2>2. PICK p \in Net :
          /\ nets[p] = "live"
          /\ account' = [account EXCEPT ![k] = [state |-> "live", net |-> p, of |-> m,
                                                spec |-> w.cr.spec]]
    BY <1>9, NetResourceParents DEF NetResource!Create
  <2> HIDE DEF k
  <2>3. account' \in [Id -> Place(Net, Desired)] /\ Grows(m) /\ Inside'
    BY <1>1, <2>1, <2>2, PlantGrows
  <2>4. Moved(m, r) /\ Makes(m, r)
    BY <1>1, <2>1, Created
  <2>5. QED
    BY <2>1, <2>3, <2>4 DEF Handles, Makes, Anchors
<1>10. CASE NetResource!Update(m, r)
  <2> DEFINE k == NetResource!Lookup(w.cr)
  <2>1. /\ k \in Id /\ account' = [account EXCEPT ![k].spec = w.cr.spec]
        /\ Go(m, r, Close(w)) /\ nets' = nets
    BY <1>10, NetResourceRuntime DEF NetResource!Update, NetResource!Under
  <2> HIDE DEF k
  <2>2. account' \in [Id -> Place(Net, Desired)] /\ Fades /\ Inside'
    BY <1>1, <2>1, TendFades
  <2>3. Moved(m, r) /\ Stops(m, r)
    BY <1>1, <2>1, Closed
  <2>4. QED
    BY <2>1, <2>2, <2>3 DEF Handles, Stops, Anchors
<1>11. CASE NetResource!Delete(m, r)
  <2> DEFINE k == NetResource!Lookup(w.cr)
  <2>1. /\ k \in Id /\ account[k].state = "live"
        /\ account' = [account EXCEPT ![k] =
                         [account[k] EXCEPT !.state = "deleted", !.spec = Spec0]]
        /\ Go(m, r, Close(w)) /\ nets' = nets
    BY <1>11, NetResourceRuntime
    DEF NetResource!Delete, NetResource!Under, NetResource!Remains
  <2> HIDE DEF k
  <2>2. account' \in [Id -> Place(Net, Desired)] /\ Fades /\ Inside'
    BY <1>1, <2>1, UprootFades, DesiredAssumption
  <2>3. Moved(m, r) /\ Stops(m, r)
    BY <1>1, <2>1, Closed
  <2>4. QED
    BY <2>1, <2>2, <2>3 DEF Handles, Stops, Anchors
<1>12. QED
  BY <1>4, <1>5, <1>6, <1>7, <1>8, <1>9, <1>10, <1>11 DEF NetResource!HandlerStep

LEMMA NetResourceWorker ==
  ASSUME LoneParent, Typed(Desired, Names, Place(Net, Desired)), Sheltered(Net),
         NEW m \in MR, NEW r \in Replica,
         NetResource!WorkerStep(m, r)
  PROVE  /\ Typed(Desired, Names, Place(Net, Desired))' /\ Sheltered(Net)'
         /\ Evolves({l \in MR : Present(l) = {}})
<1>1. Spec0 \in Desired /\ Id \cup {NoId} \subseteq Names /\ RuntimeTypeOK /\ Inside
  BY DesiredAssumption DEF Names, Typed, Sheltered
<1>2. /\ Typed(Desired, Names, Place(Net, Desired))' /\ Inside'
      /\ Evolves({l \in MR : Present(l) = {}})
      /\ nets' = nets /\ Anchors(Net, m, r)
  <2>1. CASE NetResource!SecretlessStep(m, r) /\ nets' = nets /\ account' = account
    <3>1. SecretlessStep(m, r)
      BY <2>1, NetResourceRuntime
    <3>2. Typed(Desired, Names, Place(Net, Desired))' /\ Anchors(Net, m, r)
      BY <1>1, <2>1, <3>1, LoopTyped, LoopAnchors
    <3>3. Inside'
      BY <1>1, <2>1 DEF Inside
    <3>4. QED
      BY <2>1, <3>1, <3>2, <3>3 DEF Evolves
  <2>2. CASE NetResource!HandlerStep(m, r)
    <3>1. /\ Handles(m, r, m \in {l \in MR : Present(l) = {}})
          /\ account' \in [Id -> Place(Net, Desired)] /\ nets' = nets /\ Inside'
          /\ Anchors(Net, m, r)
      BY <2>2, NetResourceHandles
    <3>2. Typed(Desired, Names, Place(Net, Desired))'
      BY <1>1, <3>1, HandlerTyped DEF Handles
    <3>3. QED
      BY <3>1, <3>2 DEF Evolves
  <2>3. QED
    BY <2>1, <2>2 DEF NetResource!WorkerStep
<1>3. PICK p \in Net \cup {NoId} : parent' = [parent EXCEPT ![m][r] = p]
  <2>1. NetResource!Parents # {} => NetResource!Observed \in Net
    BY NetResourceParents
  <2>2. work'[m][r].pc = "list" /\ work[m][r].pc # "list" => NetResource!Parents # {}
    BY <1>2 DEF Anchors, NetResource!Parents
  <2>3. parent[m][r] \in Net \cup {NoId}
    BY DEF Sheltered
  <2>4. QED
    BY <2>1, <2>2, <2>3 DEF NetResource!WorkerStep, NetResource!Holds, Sheltered
<1>4. Sheltered(Net)'
  BY <1>2, <1>3, HeldShelters
<1>5. QED
  BY <1>2, <1>4

LEMMA NetResourceWorld ==
  ASSUME LoneParent, Typed(Desired, Names, Place(Net, Desired)), Sheltered(Net),
         \/ \E p \in Net : NetResource!Arrive(p) \/ NetResource!Leave(p)
         \/ \E k \in Id : NetResource!Tamper(k) \/ NetResource!Vanish(k)
  PROVE  /\ Typed(Desired, Names, Place(Net, Desired))' /\ Sheltered(Net)'
         /\ Evolves({l \in MR : Present(l) = {}})
<1>1. Spec0 \in Desired /\ RuntimeTypeOK /\ Inside
                        /\ account \in [Id -> Place(Net, Desired)]
  BY DesiredAssumption DEF Typed, Sheltered
<1>2. UNCHANGED runtimeVars
  BY DEF NetResource!Arrive, NetResource!Leave, NetResource!Appear,
         NetResource!Disappear, NetResource!Tamper, NetResource!Vanish,
         NetResource!runtimeVars, runtimeVars
<1>3. ASSUME account' \in [Id -> Place(Net, Desired)], Fades, Sheltered(Net)'
      PROVE  /\ Typed(Desired, Names, Place(Net, Desired))' /\ Sheltered(Net)'
             /\ Evolves({l \in MR : Present(l) = {}})
  <2>1. Typed(Desired, Names, Place(Net, Desired))'
    BY <1>2, <1>3, WorldTyped
  <2>2. Evolves({l \in MR : Present(l) = {}})
    BY <1>2, <1>3 DEF Evolves, Edits
  <2>3. QED
    BY <1>3, <2>1, <2>2
<1>4. ASSUME NEW p \in Net, NetResource!Arrive(p)
      PROVE  Sheltered(Net)' /\ Fades /\ account' = account
  <2>1. /\ account' = account /\ nets' = [nets EXCEPT ![p] = "live"] /\ parent' = parent
    BY <1>4 DEF NetResource!Arrive, NetResource!Appear
  <2>2. \A q \in Net : nets[q] # "live"
    BY <1>4 DEF NetResource!Arrive, NetResource!Appear, NetResource!Parents, LoneParent
  <2>3. QED
    BY <1>1, <2>1, <2>2, ArriveShelters, SameFades
<1>5. ASSUME NEW p \in Net, NetResource!Leave(p)
      PROVE  /\ account' \in [Id -> Place(Net, Desired)] /\ Fades /\ Sheltered(Net)'
  <2>1. /\ nets[p] = "live" /\ parent' = parent /\ nets' = [nets EXCEPT ![p] = "deleted"]
        /\ account' = [k \in Id |->
                         IF account[k].state = "live" /\ account[k].net = p
                           THEN [account[k] EXCEPT !.state = "deleted", !.spec = Spec0]
                           ELSE account[k]]
    BY <1>5
    DEF NetResource!Leave, NetResource!Disappear, NetResource!Under, NetResource!Remains
  <2>2. QED
    BY <1>1, <2>1, LeaveFades
<1>6. ASSUME NEW k \in Id, NetResource!Tamper(k) \/ NetResource!Vanish(k)
      PROVE  /\ account' \in [Id -> Place(Net, Desired)] /\ Fades /\ Sheltered(Net)'
  <2>1. nets' = nets /\ parent' = parent
    BY <1>6 DEF NetResource!Tamper, NetResource!Vanish, NetResource!parentVars
  <2>2. account' \in [Id -> Place(Net, Desired)] /\ Fades /\ Inside'
    <3>1. CASE NetResource!Tamper(k)
      <4>1. PICK d \in Desired : account' = [account EXCEPT ![k].spec = d]
        BY <3>1 DEF NetResource!Tamper
      <4>2. QED
        BY <1>1, <2>1, <4>1, TendFades
    <3>2. CASE NetResource!Vanish(k)
      BY <1>1, <2>1, <3>2, UprootFades
      DEF NetResource!Vanish, NetResource!Live, NetResource!Remains
    <3>3. QED
      BY <1>6, <3>1, <3>2
  <2>3. QED
    BY <2>1, <2>2 DEF Sheltered
<1>7. QED
  BY <1>1, <1>3, <1>4, <1>5, <1>6

LEMMA NetResourceSteps ==
  ASSUME LoneParent, Typed(Desired, Names, Place(Net, Desired)), Sheltered(Net),
         NetResource!Next
  PROVE  /\ Typed(Desired, Names, Place(Net, Desired))' /\ Sheltered(Net)'
         /\ Evolves({l \in MR : Present(l) = {}})
<1>1. CASE \E m \in MR, r \in Replica : NetResource!WorkerStep(m, r)
  BY <1>1, NetResourceWorker
<1>2. ASSUME NEW m \in MR,
             (NetResource!UserStep(m) \/ NetResource!ClearPending(m)) /\ UNCHANGED NetResource!others
      PROVE  /\ Typed(Desired, Names, Place(Net, Desired))' /\ Sheltered(Net)'
             /\ Evolves({l \in MR : Present(l) = {}})
  <2>1. RequestDelete(m) \/ Asks(m, Desired) \/ ClearPending(m)
    BY <1>2, NetResourceRuntime DEF NetResource!UserStep
  <2>2. account' = account /\ nets' = nets /\ parent' = parent
    BY <1>2 DEF NetResource!UserStep, NetResource!others, NetResource!parentVars
  <2>3. Desired \subseteq Desired
    BY DesiredAssumption
  <2>4. Typed(Desired, Names, Place(Net, Desired))' /\ Edits
    BY <2>1, <2>2, <2>3, UserTyped
  <2>5. Sheltered(Net)'
    BY <2>2 DEF Sheltered, Inside
  <2>6. QED
    BY <2>2, <2>4, <2>5 DEF Evolves
<1>3. QED
  BY <1>1, <1>2, NetResourceWorld DEF NetResource!Next

-----------------------------------------------------------------------------
(* Routers by group *)

LEMMA GroupRouterRuntime ==
  ASSUME NEW m, NEW r
  PROVE  /\ GroupRouter!SecretlessStep(m, r) <=> SecretlessStep(m, r)
         /\ \A x : GroupRouter!Go(m, r, x) <=> Go(m, r, x)
         /\ \A w : GroupRouter!Close(w) = Close(w)
         /\ GroupRouter!RequestDelete(m) <=> RequestDelete(m)
         /\ GroupRouter!Respecify(m) <=> Asks(m, {Spec0})
         /\ GroupRouter!ClearPending(m) <=> ClearPending(m)
         /\ GroupRouter!runtimeVars = runtimeVars
<1>1. GroupRouter!SecretlessStep(m, r) <=> SecretlessStep(m, r)
  BY DEF GroupRouter!SecretlessStep, GroupRouter!RuntimeStep, GroupRouter!Release,
         GroupRouter!Commit, GroupRouter!Go, GroupRouter!Outdate,
         GroupRouter!Reloaded, GroupRouter!Close, GroupRouter!Begin,
         GroupRouter!AwaitGrace, GroupRouter!Proceed, GroupRouter!EnsureFinalizer,
         GroupRouter!MarkPending, GroupRouter!CreateRefused, GroupRouter!Annotate,
         GroupRouter!StepFails, GroupRouter!ReportStatus, GroupRouter!Abandon,
         GroupRouter!SyncCache, GroupRouter!Idle, GroupRouter!Fresh, SecretlessStep,
         RuntimeStep, Release, Commit, Go, Outdate, Reloaded, Close, Begin,
         AwaitGrace, Proceed, EnsureFinalizer, MarkPending, CreateRefused, Annotate,
         StepFails, ReportStatus, Abandon, SyncCache, Idle, Fresh
<1>2. \A x : GroupRouter!Go(m, r, x) <=> Go(m, r, x)
  BY DEF GroupRouter!Go, Go
<1>3. \A w : GroupRouter!Close(w) = Close(w)
  BY DEF GroupRouter!Close, GroupRouter!Idle, GroupRouter!Fresh, Close, Idle, Fresh
<1>4. GroupRouter!RequestDelete(m) <=> RequestDelete(m)
  BY DEF GroupRouter!RequestDelete, GroupRouter!Edit, GroupRouter!Outdate,
         RequestDelete, Edit, Outdate
<1>5. GroupRouter!Respecify(m) <=> Asks(m, {Spec0})
  BY DEF GroupRouter!Respecify, GroupRouter!Edit, GroupRouter!Outdate, Asks, Edit,
         Outdate
<1>6. GroupRouter!ClearPending(m) <=> ClearPending(m)
  BY DEF GroupRouter!ClearPending, GroupRouter!Unresolved, GroupRouter!Edit,
         GroupRouter!Outdate, ClearPending, Unresolved, Edit, Outdate
<1>7. GroupRouter!runtimeVars = runtimeVars
  BY DEF GroupRouter!runtimeVars, runtimeVars
<1>8. QED
  BY <1>1, <1>2, <1>3, <1>4, <1>5, <1>6, <1>7

LEMMA GroupRouterTypes ==
  GroupRouter!TypeOK <=>
    /\ Typed({Spec0}, Names, Place(Initial, {Spec0}))
    /\ nets \in [Initial -> {"unborn", "live", "deleted"}]
    /\ parent \in [MR -> [Replica -> Initial \cup {NoId}]]
    /\ group \in {"unborn", "live", "deleted"}
<1>1. GroupRouter!RuntimeTypeOK <=> TypedAs({Spec0}, Names)
  BY DEF GroupRouter!RuntimeTypeOK, GroupRouter!Object, GroupRouter!Work,
         GroupRouter!PC, GroupRouter!ExtName, GroupRouter!StatusId,
         GroupRouter!Hints, TypedAs, ObjectOf, WorkOf, PC, StatusId, Names
<1>2. {Spec0} \subseteq Desired /\ Names \subseteq ExtName
  BY DesiredAssumption DEF Names, ExtName, Hints
<1>3. QED
  BY <1>1, <1>2, NarrowTypes
  DEF GroupRouter!TypeOK, GroupRouter!ParentsTypeOK, GroupRouter!Router, Place,
      Typed

\* Routers go by a group that exists, or has existed.
Sourced == group = "unborn" => \A k \in Id : account[k].state # "live"

LEMMA GroupRouterOpens ==
  ASSUME LoneParent, GroupRouter!Init
  PROVE  /\ Opens /\ Typed({Spec0}, Names, Place(Initial, {Spec0})) /\ Sheltered(Initial)
         /\ group \in {"unborn", "live", "deleted"} /\ Sourced
<1>1. PICK born \in SUBSET Imported, o \in MR, p \in Initial :
        /\ \A j, k \in born : j = k
        /\ GroupRouter!RuntimeInit(born)
        /\ GroupRouter!ParentsInit
        /\ account = [k \in Id |->
                        [state |-> IF k \in born THEN "live" ELSE "unborn",
                         net |-> p, of |-> o, spec |-> Spec0]]
        /\ group \in {"unborn", "live"} /\ (group = "unborn" => born = {})
  BY DEF GroupRouter!Init
<1>2. born \in SUBSET Id
  BY BoundsAssumption
<1>3. RuntimeInit(born) /\ Narrow({Spec0}, Names)
  <2>1. /\ mr \in [MR -> {[Fresh EXCEPT !.ext = e] : e \in {NoId, ObjName} \cup born}]
        /\ cache = [m \in MR |-> [r \in Replica |-> mr[m]]]
        /\ work = [m \in MR |-> [r \in Replica |-> Idle]]
    BY <1>1
    DEF GroupRouter!RuntimeInit, GroupRouter!Hints, GroupRouter!Fresh,
        GroupRouter!Idle, Idle, Fresh
  <2>2. {NoId, ObjName} \subseteq Hints /\ NoId \in Names
                                        /\ {NoId, ObjName} \cup Id \subseteq Names
    BY DEF Hints, Names
  <2>3. Spec0 \in {Spec0}
    BY DesiredAssumption
  <2>4. QED
    BY <1>2, <2>1, <2>2, <2>3, OpenNarrow
<1>4. p \in Initial /\ Initial \subseteq Initial /\ Spec0 \in {Spec0}
  BY ParentsAssumption, DesiredAssumption
<1>5. account \in [Id -> Place(Initial, {Spec0})]
  BY <1>1, <1>4 DEF Place
<1>6. Opens
  BY <1>1, <1>2, <1>3 DEF Opens
<1>7. Sheltered(Initial)
  <2>1. /\ nets = [q \in Initial |-> IF q \in Initial THEN "live" ELSE "unborn"]
        /\ parent = [m \in MR |-> [r \in Replica |-> NoId]]
    BY <1>1 DEF GroupRouter!ParentsInit
  <2>2. Inside
    BY <1>1, <1>4, <2>1 DEF Inside
  <2>3. QED
    BY <2>1, <2>2 DEF Sheltered, LoneParent
<1>8. QED
  BY <1>1, <1>2, <1>3, <1>5, <1>6, <1>7, RuntimeInitTypes DEF Typed, Sourced

\* Whichever way the parent is looked for, it is the one that exists.
LEMMA GroupRouterParents ==
  ASSUME Sheltered(Initial), GroupRouter!Parents # {}
  PROVE  \E p \in Initial : /\ nets[p] = "live" /\ GroupRouter!Parents = {p}
                     /\ GroupRouter!Observed = p /\ GroupRouter!Chosen = p
<1>1. PICK p \in GroupRouter!Parents : TRUE
  OBVIOUS
<1>2. p \in Initial /\ nets[p] = "live" /\ GroupRouter!Parents = {p}
  BY <1>1 DEF GroupRouter!Parents, Sheltered
<1>3. Rank[p] <= Rank[p] /\ Rank[p] >= Rank[p]
  BY <1>2, ParentsAssumption
<1>4. \A q : (q \in {p} /\ \A s \in {p} : Rank[q] <= Rank[s]) <=> q = p
  BY <1>3
<1>5. \A q : (q \in {p} /\ \A s \in {p} : Rank[q] >= Rank[s]) <=> q = p
  BY <1>3
<1>6. GroupRouter!FirstOf({p}) = p
  BY <1>4 DEF GroupRouter!FirstOf
<1>7. GroupRouter!LastOf({p}) = p
  BY <1>5 DEF GroupRouter!LastOf
<1>8. QED
  BY <1>2, <1>6, <1>7 DEF GroupRouter!Observed, GroupRouter!Chosen

LEMMA GroupRouterHandles ==
  ASSUME Typed({Spec0}, Names, Place(Initial, {Spec0})), Sheltered(Initial), Sourced,
         group \in {"unborn", "live", "deleted"}, NEW m \in MR, NEW r \in Replica,
         GroupRouter!HandlerStep(m, r)
  PROVE  /\ Handles(m, r, Present(m) = {} \/ group = "deleted")
         /\ account' \in [Id -> Place(Initial, {Spec0})]
         /\ nets' = nets /\ Inside' /\ Anchors(Initial, m, r)
         /\ group' = group /\ (group # "live" => Fades)
<1> DEFINE w == work[m][r]
           Goal == /\ Handles(m, r, Present(m) = {} \/ group = "deleted")
                   /\ account' \in [Id -> Place(Initial, {Spec0})]
                   /\ nets' = nets /\ Inside' /\ Anchors(Initial, m, r)
                   /\ group' = group /\ (group # "live" => Fades)
<1>1. /\ w \in Work /\ w.cr.spec \in {Spec0} /\ Inside
      /\ RuntimeTypeOK /\ account \in [Id -> Place(Initial, {Spec0})]
  <2>1. w \in Work /\ RuntimeTypeOK /\ account \in [Id -> Place(Initial, {Spec0})] /\ Inside
    BY DEF Typed, RuntimeTypeOK, Sheltered
  <2>2. w.cr.spec \in {Spec0}
    BY DEF Typed, Narrow
  <2>3. QED
    BY <2>1, <2>2
<1>2. ASSUME account' = account /\ nets' = nets /\ group' = group,
             w.pc \in {"observe", "list"}, NEW k \in Id,
             NEW verdict \in {"uptodate", "outdated"},
             Go(m, r, [w EXCEPT !.pc = "act", !.obs = verdict, !.cr.ext = k, !.cr.sid = k])
      PROVE  Goal
  <2>1. /\ Moved(m, r) /\ Looks(m, r, FALSE) /\ work'[m][r].pc = "act"
    BY <1>1, <1>2, Reported DEF StatusId, Acts
  <2>2. QED
    BY <1>1, <1>2, <2>1, SameFades DEF Handles, Looks, Anchors, Inside
<1>3. ASSUME account' = account /\ nets' = nets /\ group' = group, Go(m, r, Close(w))
      PROVE  Goal
  <2>1. Moved(m, r) /\ Stops(m, r)
    BY <1>1, <1>3, Closed
  <2>2. QED
    BY <1>1, <1>3, <2>1, SameFades DEF Handles, Stops, Anchors, Inside
<1>4. CASE GroupRouter!ObserveOrphan(m, r) \/ GroupRouter!Publish(m, r)
  BY <1>3, <1>4, GroupRouterRuntime DEF GroupRouter!ObserveOrphan, GroupRouter!Publish
<1>5. CASE GroupRouter!ObserveFound(m, r)
  <2> DEFINE k == GroupRouter!Lookup(w.cr)
             verdict == GroupRouter!Comparison(w.cr, k)
  <2>1. verdict \in {"uptodate", "outdated"}
    BY DEF GroupRouter!Comparison
  <2>2. /\ w.pc \in {"observe", "list"} /\ k \in Id /\ account' = account /\ nets' = nets
        /\ group' = group
        /\ Go(m, r, [w EXCEPT !.pc = "act", !.obs = verdict, !.cr.ext = k, !.cr.sid = k])
    BY <1>5, GroupRouterRuntime DEF GroupRouter!ObserveFound, GroupRouter!Under
  <2> HIDE DEF k, verdict
  <2>3. QED
    BY <1>2, <2>1, <2>2
<1>6. CASE GroupRouter!ObserveNotFound(m, r)
  <2>1. /\ w.pc = "observe" /\ account' = account /\ nets' = nets /\ group' = group
        /\ GroupRouter!Parents # {}
        /\ Go(m, r, [w EXCEPT !.pc = "list"])
    BY <1>6, GroupRouterRuntime DEF GroupRouter!ObserveNotFound
  <2>2. Moved(m, r) /\ Looks(m, r, FALSE)
    BY <1>1, <2>1, ListedNext
  <2>3. \E p \in Initial : nets[p] = "live"
    BY <2>1 DEF GroupRouter!Parents
  <2>4. QED
    BY <1>1, <2>1, <2>2, <2>3, SameFades DEF Handles, Looks, Anchors, Inside
<1>7. CASE GroupRouter!Adopt(m, r)
  <2>1. PICK k \in Id : Go(m, r, GroupRouter!Adopted(w, k))
    BY <1>7, GroupRouterRuntime DEF GroupRouter!Adopt
  <2>2. Go(m, r, [w EXCEPT !.pc = "act", !.obs = "outdated", !.cr.ext = k, !.cr.sid = k])
    BY <2>1 DEF GroupRouter!Adopted
  <2>3. w.pc \in {"observe", "list"} /\ account' = account /\ nets' = nets /\ group' = group
    BY <1>7 DEF GroupRouter!Adopt, GroupRouter!Listing
  <2>4. QED
    BY <1>2, <2>2, <2>3
<1>8. CASE GroupRouter!ObserveMissing(m, r)
  <2>1. /\ w.pc \in {"observe", "list"} /\ account' = account /\ nets' = nets
        /\ group' = group
        /\ Go(m, r, [w EXCEPT !.pc = "act", !.obs = "missing"])
    BY <1>8, GroupRouterRuntime DEF GroupRouter!ObserveMissing, GroupRouter!Listing
  <2>2. Present(m) = {} \/ group = "deleted"
    <3>1. PICK p \in Initial :
            /\ nets[p] = "live"
            /\ (\A k \in Id : ~(GroupRouter!Under(k, p) /\ GroupRouter!Matches(k, m, w.cr.spec))) \/ group # "live"
      BY <1>1, <1>8
      DEF GroupRouter!ObserveMissing, GroupRouter!Parents, GroupRouter!Resolves
    <3>2. ASSUME NEW k \in Present(m), group = "live" PROVE FALSE
      <4>1. /\ k \in Id /\ account[k].state = "live" /\ account[k].of = m
            /\ account[k].net \in Initial /\ account[k].spec \in {Spec0}
        BY <1>1 DEF Present, Place
      <4>2. account[k].net = p
        BY <3>1, <4>1 DEF Sheltered, Inside
      <4>3. QED
        BY <1>1, <3>1, <3>2, <4>1, <4>2
        DEF GroupRouter!Under, GroupRouter!Matches, GroupRouter!OwnedBy
    <3>3. QED
      BY <3>2 DEF Sourced, Present
  <2>3. /\ Moved(m, r) /\ Looks(m, r, TRUE) /\ work'[m][r].pc = "act"
    BY <1>1, <2>1, ReportedMissing DEF Acts
  <2>4. QED
    BY <1>1, <2>1, <2>2, <2>3, SameFades DEF Handles, Looks, Anchors, Inside
<1>9. ASSUME NEW heard \in BOOLEAN, GroupRouter!Create(m, r, heard) PROVE Goal
  <2> DEFINE k == CHOOSE i \in GroupRouter!Unborn : TRUE
  <2>1. /\ w.pc = "create" /\ k \in Id /\ account[k].state = "unborn"
        /\ nets' = nets /\ group' = group /\ group = "live"
        /\ Go(m, r, IF heard
                      THEN [w EXCEPT !.pc = "annotate", !.cr.ext = k,
                                     !.cr.create = "succeeded"]
                      ELSE [w EXCEPT !.pc = "annotate", !.cr.create = "failed"])
    BY <1>9, GroupRouterRuntime
    DEF GroupRouter!Create, GroupRouter!Unborn, GroupRouter!Resolves
  <2>2. PICK p \in Initial :
          /\ nets[p] = "live"
          /\ account' = [account EXCEPT ![k] = [state |-> "live", net |-> p, of |-> m,
                                                spec |-> w.cr.spec]]
    BY <1>9, GroupRouterParents DEF GroupRouter!Create
  <2> HIDE DEF k
  <2>3. account' \in [Id -> Place(Initial, {Spec0})] /\ Grows(m) /\ Inside'
    BY <1>1, <2>1, <2>2, PlantGrows
  <2>4. Moved(m, r) /\ Makes(m, r)
    BY <1>1, <2>1, Created
  <2>5. QED
    BY <2>1, <2>3, <2>4 DEF Handles, Makes, Anchors
<1>10. CASE GroupRouter!Update(m, r)
  <2> DEFINE k == GroupRouter!Lookup(w.cr)
  <2>1. /\ k \in Id /\ account' = [account EXCEPT ![k].spec = w.cr.spec]
        /\ Go(m, r, Close(w)) /\ nets' = nets /\ group' = group
    BY <1>10, GroupRouterRuntime DEF GroupRouter!Update, GroupRouter!Under
  <2> HIDE DEF k
  <2>2. account' \in [Id -> Place(Initial, {Spec0})] /\ Fades /\ Inside'
    BY <1>1, <2>1, TendFades
  <2>3. Moved(m, r) /\ Stops(m, r)
    BY <1>1, <2>1, Closed
  <2>4. QED
    BY <2>1, <2>2, <2>3 DEF Handles, Stops, Anchors
<1>11. CASE GroupRouter!Delete(m, r)
  <2> DEFINE k == GroupRouter!Lookup(w.cr)
  <2>1. /\ k \in Id /\ account[k].state = "live"
        /\ account' = [account EXCEPT ![k] =
                         [account[k] EXCEPT !.state = "deleted", !.spec = Spec0]]
        /\ Go(m, r, Close(w)) /\ nets' = nets /\ group' = group
    BY <1>11, GroupRouterRuntime
    DEF GroupRouter!Delete, GroupRouter!Under, GroupRouter!Remains
  <2> HIDE DEF k
  <2>2. account' \in [Id -> Place(Initial, {Spec0})] /\ Fades /\ Inside'
    BY <1>1, <2>1, UprootFades, DesiredAssumption
  <2>3. Moved(m, r) /\ Stops(m, r)
    BY <1>1, <2>1, Closed
  <2>4. QED
    BY <2>1, <2>2, <2>3 DEF Handles, Stops, Anchors
<1>12. QED
  BY <1>4, <1>5, <1>6, <1>7, <1>8, <1>9, <1>10, <1>11 DEF GroupRouter!HandlerStep

LEMMA GroupRouterWorker ==
  ASSUME LoneParent, Typed({Spec0}, Names, Place(Initial, {Spec0})), Sheltered(Initial),
         Sourced, group \in {"unborn", "live", "deleted"}, NEW m \in MR, NEW r \in Replica,
         GroupRouter!WorkerStep(m, r)
  PROVE  /\ Typed({Spec0}, Names, Place(Initial, {Spec0}))' /\ Sheltered(Initial)'
         /\ Evolves({l \in MR : Present(l) = {} \/ group = "deleted"})
         /\ Sourced' /\ (group # "live" => Fades)
         /\ (group = "deleted" => group' = "deleted")
         /\ group' \in {"unborn", "live", "deleted"}
<1>1. Spec0 \in {Spec0} /\ Id \cup {NoId} \subseteq Names /\ RuntimeTypeOK /\ Inside
  BY DesiredAssumption DEF Names, Typed, Sheltered
<1>2. /\ Typed({Spec0}, Names, Place(Initial, {Spec0}))' /\ Inside'
      /\ Evolves({l \in MR : Present(l) = {} \/ group = "deleted"})
      /\ nets' = nets /\ Anchors(Initial, m, r) /\ group' = group
      /\ (group # "live" => Fades)
  <2>1. CASE GroupRouter!SecretlessStep(m, r) /\ nets' = nets /\ account' = account
                                              /\ group' = group
    <3>1. SecretlessStep(m, r)
      BY <2>1, GroupRouterRuntime
    <3>2. Typed({Spec0}, Names, Place(Initial, {Spec0}))' /\ Anchors(Initial, m, r)
      BY <1>1, <2>1, <3>1, LoopTyped, LoopAnchors
    <3>3. Inside'
      BY <1>1, <2>1 DEF Inside
    <3>4. QED
      BY <2>1, <3>1, <3>2, <3>3, SameFades DEF Evolves
  <2>2. CASE GroupRouter!HandlerStep(m, r)
    <3>1. /\ Handles(m, r, m \in {l \in MR : Present(l) = {} \/ group = "deleted"})
          /\ account' \in [Id -> Place(Initial, {Spec0})] /\ nets' = nets /\ Inside'
          /\ Anchors(Initial, m, r) /\ group' = group /\ (group # "live" => Fades)
      BY <2>2, GroupRouterHandles
    <3>2. Typed({Spec0}, Names, Place(Initial, {Spec0}))'
      BY <1>1, <3>1, HandlerTyped DEF Handles
    <3>3. QED
      BY <3>1, <3>2 DEF Evolves
  <2>3. QED
    BY <2>1, <2>2 DEF GroupRouter!WorkerStep
<1>3. PICK p \in Initial \cup {NoId} : parent' = [parent EXCEPT ![m][r] = p]
  <2>1. GroupRouter!Parents # {} => GroupRouter!Observed \in Initial
    BY GroupRouterParents
  <2>2. work'[m][r].pc = "list" /\ work[m][r].pc # "list" => GroupRouter!Parents # {}
    BY <1>2 DEF Anchors, GroupRouter!Parents
  <2>3. parent[m][r] \in Initial \cup {NoId}
    BY DEF Sheltered
  <2>4. QED
    BY <2>1, <2>2, <2>3 DEF GroupRouter!WorkerStep, GroupRouter!Holds, Sheltered
<1>4. Sheltered(Initial)'
  BY <1>2, <1>3, HeldShelters
<1>5. QED
  BY <1>2, <1>4 DEF Sourced, Fades

LEMMA GroupRouterWorld ==
  ASSUME LoneParent, Typed({Spec0}, Names, Place(Initial, {Spec0})), Sheltered(Initial),
         Sourced, group \in {"unborn", "live", "deleted"},
         \/ \E p \in Initial : GroupRouter!Arrive(p) \/ GroupRouter!Leave(p)
         \/ \E k \in Id : GroupRouter!Tamper(k) \/ GroupRouter!Vanish(k)
         \/ GroupRouter!GroupComes \/ GroupRouter!GroupGoes
  PROVE  /\ Typed({Spec0}, Names, Place(Initial, {Spec0}))' /\ Sheltered(Initial)'
         /\ Evolves({l \in MR : Present(l) = {} \/ group = "deleted"})
         /\ Sourced' /\ (group # "live" => Fades)
         /\ (group = "deleted" => group' = "deleted")
         /\ group' \in {"unborn", "live", "deleted"}
<1>1. Spec0 \in {Spec0} /\ RuntimeTypeOK /\ Inside
                        /\ account \in [Id -> Place(Initial, {Spec0})]
  BY DesiredAssumption DEF Typed, Sheltered
<1>2. UNCHANGED runtimeVars
  BY DEF GroupRouter!Arrive, GroupRouter!Leave, GroupRouter!Appear,
         GroupRouter!Disappear, GroupRouter!Tamper, GroupRouter!Vanish,
         GroupRouter!GroupComes, GroupRouter!GroupGoes, GroupRouter!runtimeVars,
         runtimeVars
<1>3. ASSUME account' \in [Id -> Place(Initial, {Spec0})], Fades, Sheltered(Initial)', Turns
      PROVE  /\ Typed({Spec0}, Names, Place(Initial, {Spec0}))' /\ Sheltered(Initial)'
             /\ Evolves({l \in MR : Present(l) = {} \/ group = "deleted"})
         /\ Sourced' /\ (group # "live" => Fades)
         /\ (group = "deleted" => group' = "deleted")
         /\ group' \in {"unborn", "live", "deleted"}
  <2>1. Typed({Spec0}, Names, Place(Initial, {Spec0}))'
    BY <1>2, <1>3, WorldTyped
  <2>2. Evolves({l \in MR : Present(l) = {} \/ group = "deleted"})
    BY <1>2, <1>3 DEF Evolves, Edits
  <2>3. QED
    BY <1>3, <2>1, <2>2 DEF Turns, Sourced, Fades
<1>4. ASSUME NEW p \in Initial, GroupRouter!Arrive(p)
      PROVE  Sheltered(Initial)' /\ Fades /\ account' = account /\ group' = group
  <2>1. /\ account' = account /\ nets' = [nets EXCEPT ![p] = "live"] /\ parent' = parent
        /\ group' = group
    BY <1>4 DEF GroupRouter!Arrive, GroupRouter!Appear
  <2>2. \A q \in Initial : nets[q] # "live"
    BY <1>4 DEF GroupRouter!Arrive, GroupRouter!Appear, GroupRouter!Parents, LoneParent
  <2>3. QED
    BY <1>1, <2>1, <2>2, ArriveShelters, SameFades
<1>5. ASSUME NEW p \in Initial, GroupRouter!Leave(p)
      PROVE  /\ account' \in [Id -> Place(Initial, {Spec0})] /\ Fades /\ Sheltered(Initial)'
             /\ group' = group
  <2>1. /\ nets[p] = "live" /\ parent' = parent /\ nets' = [nets EXCEPT ![p] = "deleted"]
        /\ account' = [k \in Id |->
                         IF account[k].state = "live" /\ account[k].net = p
                           THEN [account[k] EXCEPT !.state = "deleted", !.spec = Spec0]
                           ELSE account[k]]
        /\ group' = group
    BY <1>5
    DEF GroupRouter!Leave, GroupRouter!Disappear, GroupRouter!Under, GroupRouter!Remains
  <2>2. QED
    BY <1>1, <2>1, LeaveFades
<1>6. ASSUME NEW k \in Id, GroupRouter!Tamper(k) \/ GroupRouter!Vanish(k)
      PROVE  /\ account' \in [Id -> Place(Initial, {Spec0})] /\ Fades /\ Sheltered(Initial)'
             /\ group' = group
  <2>1. nets' = nets /\ parent' = parent /\ group' = group
    BY <1>6 DEF GroupRouter!Tamper, GroupRouter!Vanish, GroupRouter!parentVars
  <2>2. account' \in [Id -> Place(Initial, {Spec0})] /\ Fades /\ Inside'
    <3>1. CASE GroupRouter!Tamper(k)
      <4>1. PICK d \in {Spec0} : account' = [account EXCEPT ![k].spec = d]
        BY <3>1 DEF GroupRouter!Tamper
      <4>2. QED
        BY <1>1, <2>1, <4>1, TendFades
    <3>2. CASE GroupRouter!Vanish(k)
      BY <1>1, <2>1, <3>2, UprootFades
      DEF GroupRouter!Vanish, GroupRouter!Live, GroupRouter!Remains
    <3>3. QED
      BY <1>6, <3>1, <3>2
  <2>3. QED
    BY <2>1, <2>2 DEF Sheltered
<1>7. CASE GroupRouter!GroupComes \/ GroupRouter!GroupGoes
  <2>1. /\ account' = account /\ nets' = nets /\ parent' = parent
        /\ \/ group = "live" /\ group' = "deleted"
           \/ group = "unborn" /\ group' = "live"
    BY <1>7 DEF GroupRouter!GroupComes, GroupRouter!GroupGoes, GroupRouter!parentVars
  <2>2. Sheltered(Initial)' /\ Turns
    BY <2>1 DEF Sheltered, Inside, Turns
  <2>3. QED
    BY <1>1, <1>3, <2>1, <2>2, SameFades
<1>8. QED
  BY <1>1, <1>3, <1>4, <1>5, <1>6, <1>7 DEF Turns

LEMMA GroupRouterSteps ==
  ASSUME LoneParent, Typed({Spec0}, Names, Place(Initial, {Spec0})), Sheltered(Initial),
         Sourced, group \in {"unborn", "live", "deleted"}, GroupRouter!Next
  PROVE  /\ Typed({Spec0}, Names, Place(Initial, {Spec0}))' /\ Sheltered(Initial)'
         /\ Evolves({l \in MR : Present(l) = {} \/ group = "deleted"})
         /\ Sourced' /\ (group # "live" => Fades)
         /\ (group = "deleted" => group' = "deleted")
         /\ group' \in {"unborn", "live", "deleted"}
<1>1. CASE \E m \in MR, r \in Replica : GroupRouter!WorkerStep(m, r)
  BY <1>1, GroupRouterWorker
<1>2. ASSUME NEW m \in MR,
             GroupRouter!UserStep(m) \/ (GroupRouter!ClearPending(m) /\ UNCHANGED GroupRouter!others)
      PROVE  /\ Typed({Spec0}, Names, Place(Initial, {Spec0}))' /\ Sheltered(Initial)'
             /\ Evolves({l \in MR : Present(l) = {} \/ group = "deleted"})
             /\ Sourced' /\ (group # "live" => Fades)
             /\ (group = "deleted" => group' = "deleted")
             /\ group' \in {"unborn", "live", "deleted"}
  <2>1. RequestDelete(m) \/ Asks(m, {Spec0}) \/ ClearPending(m)
    BY <1>2, GroupRouterRuntime DEF GroupRouter!UserStep
  <2>2. account' = account /\ nets' = nets /\ parent' = parent /\ group' = group
    BY <1>2 DEF GroupRouter!UserStep, GroupRouter!others, GroupRouter!parentVars
  <2>3. {Spec0} \subseteq Desired
    BY DesiredAssumption
  <2>4. Typed({Spec0}, Names, Place(Initial, {Spec0}))' /\ Edits
    BY <2>1, <2>2, <2>3, UserTyped
  <2>5. Sheltered(Initial)'
    BY <2>2 DEF Sheltered, Inside
  <2>6. QED
    BY <2>2, <2>4, <2>5, SameFades DEF Evolves, Sourced
<1>3. QED
  BY <1>1, <1>2, GroupRouterWorld DEF GroupRouter!Next

-----------------------------------------------------------------------------
(* Routers by peer *)

LEMMA PeerRouterRuntime ==
  ASSUME NEW m, NEW r
  PROVE  /\ PeerRouter!SecretlessStep(m, r) <=> SecretlessStep(m, r)
         /\ \A x : PeerRouter!Go(m, r, x) <=> Go(m, r, x)
         /\ \A w : PeerRouter!Close(w) = Close(w)
         /\ PeerRouter!RequestDelete(m) <=> RequestDelete(m)
         /\ PeerRouter!Respecify(m) <=> Asks(m, Desired)
         /\ PeerRouter!ClearPending(m) <=> ClearPending(m)
         /\ PeerRouter!runtimeVars = runtimeVars
<1>1. PeerRouter!SecretlessStep(m, r) <=> SecretlessStep(m, r)
  BY DEF PeerRouter!SecretlessStep, PeerRouter!RuntimeStep, PeerRouter!Release,
         PeerRouter!Commit, PeerRouter!Go, PeerRouter!Outdate, PeerRouter!Reloaded,
         PeerRouter!Close, PeerRouter!Begin, PeerRouter!AwaitGrace,
         PeerRouter!Proceed, PeerRouter!EnsureFinalizer, PeerRouter!MarkPending,
         PeerRouter!CreateRefused, PeerRouter!Annotate, PeerRouter!StepFails,
         PeerRouter!ReportStatus, PeerRouter!Abandon, PeerRouter!SyncCache,
         PeerRouter!Idle, PeerRouter!Fresh, SecretlessStep, RuntimeStep, Release,
         Commit, Go, Outdate, Reloaded, Close, Begin, AwaitGrace, Proceed,
         EnsureFinalizer, MarkPending, CreateRefused, Annotate, StepFails,
         ReportStatus, Abandon, SyncCache, Idle, Fresh
<1>2. \A x : PeerRouter!Go(m, r, x) <=> Go(m, r, x)
  BY DEF PeerRouter!Go, Go
<1>3. \A w : PeerRouter!Close(w) = Close(w)
  BY DEF PeerRouter!Close, PeerRouter!Idle, PeerRouter!Fresh, Close, Idle, Fresh
<1>4. PeerRouter!RequestDelete(m) <=> RequestDelete(m)
  BY DEF PeerRouter!RequestDelete, PeerRouter!Edit, PeerRouter!Outdate,
         RequestDelete, Edit, Outdate
<1>5. PeerRouter!Respecify(m) <=> Asks(m, Desired)
  BY DEF PeerRouter!Respecify, PeerRouter!Edit, PeerRouter!Outdate, Asks, Edit,
         Outdate
<1>6. PeerRouter!ClearPending(m) <=> ClearPending(m)
  BY DEF PeerRouter!ClearPending, PeerRouter!Unresolved, PeerRouter!Edit,
         PeerRouter!Outdate, ClearPending, Unresolved, Edit, Outdate
<1>7. PeerRouter!runtimeVars = runtimeVars
  BY DEF PeerRouter!runtimeVars, runtimeVars
<1>8. QED
  BY <1>1, <1>2, <1>3, <1>4, <1>5, <1>6, <1>7

LEMMA PeerRouterTypes ==
  PeerRouter!TypeOK <=>
    /\ Typed(Desired, Names, Place(Initial, Desired))
    /\ nets \in [Initial -> {"unborn", "live", "deleted"}]
    /\ parent \in [MR -> [Replica -> Initial \cup {NoId}]]
    /\ group \in {"unborn", "live", "deleted"}
<1>1. PeerRouter!RuntimeTypeOK <=> TypedAs(Desired, Names)
  BY DEF PeerRouter!RuntimeTypeOK, PeerRouter!Object, PeerRouter!Work,
         PeerRouter!PC, PeerRouter!ExtName, PeerRouter!StatusId, PeerRouter!Hints,
         TypedAs, ObjectOf, WorkOf, PC, StatusId, Names
<1>2. Desired \subseteq Desired /\ Names \subseteq ExtName
  BY DesiredAssumption DEF Names, ExtName, Hints
<1>3. QED
  BY <1>1, <1>2, NarrowTypes
  DEF PeerRouter!TypeOK, PeerRouter!ParentsTypeOK, PeerRouter!Router, Place, Typed

LEMMA PeerRouterOpens ==
  ASSUME LoneParent, PeerRouter!Init
  PROVE  /\ Opens /\ Typed(Desired, Names, Place(Initial, Desired)) /\ Sheltered(Initial)
         /\ group \in {"unborn", "live", "deleted"}
<1>1. PICK born \in SUBSET {}, o \in MR, p \in Initial :
        /\ \A j, k \in born : j = k
        /\ PeerRouter!RuntimeInit(born)
        /\ PeerRouter!ParentsInit
        /\ account = [k \in Id |->
                        [state |-> IF k \in born THEN "live" ELSE "unborn",
                         net |-> p, of |-> o, spec |-> Spec0]]
        /\ group \in {"unborn", "live"} /\ (group = "unborn" => born = {})
  BY DEF PeerRouter!Init
<1>2. born \in SUBSET Id
  BY BoundsAssumption
<1>3. RuntimeInit(born) /\ Narrow(Desired, Names)
  <2>1. /\ mr \in [MR -> {[Fresh EXCEPT !.ext = e] : e \in {NoId, ObjName} \cup born}]
        /\ cache = [m \in MR |-> [r \in Replica |-> mr[m]]]
        /\ work = [m \in MR |-> [r \in Replica |-> Idle]]
    BY <1>1
    DEF PeerRouter!RuntimeInit, PeerRouter!Hints, PeerRouter!Fresh, PeerRouter!Idle,
        Idle, Fresh
  <2>2. {NoId, ObjName} \subseteq Hints /\ NoId \in Names
                                        /\ {NoId, ObjName} \cup Id \subseteq Names
    BY DEF Hints, Names
  <2>3. Spec0 \in Desired
    BY DesiredAssumption
  <2>4. QED
    BY <1>2, <2>1, <2>2, <2>3, OpenNarrow
<1>4. p \in Initial /\ Initial \subseteq Initial /\ Spec0 \in Desired
  BY ParentsAssumption, DesiredAssumption
<1>5. account \in [Id -> Place(Initial, Desired)]
  BY <1>1, <1>4 DEF Place
<1>6. Opens
  BY <1>1, <1>2, <1>3 DEF Opens
<1>7. Sheltered(Initial)
  <2>1. /\ nets = [q \in Initial |-> IF q \in Initial THEN "live" ELSE "unborn"]
        /\ parent = [m \in MR |-> [r \in Replica |-> NoId]]
    BY <1>1 DEF PeerRouter!ParentsInit
  <2>2. Inside
    BY <1>1, <1>4, <2>1 DEF Inside
  <2>3. QED
    BY <2>1, <2>2 DEF Sheltered, LoneParent
<1>8. QED
  BY <1>1, <1>2, <1>3, <1>5, <1>6, <1>7, RuntimeInitTypes DEF Typed

\* Whichever way the parent is looked for, it is the one that exists.
LEMMA PeerRouterParents ==
  ASSUME Sheltered(Initial), PeerRouter!Parents # {}
  PROVE  \E p \in Initial : /\ nets[p] = "live" /\ PeerRouter!Parents = {p}
                     /\ PeerRouter!Observed = p /\ PeerRouter!Chosen = p
<1>1. PICK p \in PeerRouter!Parents : TRUE
  OBVIOUS
<1>2. p \in Initial /\ nets[p] = "live" /\ PeerRouter!Parents = {p}
  BY <1>1 DEF PeerRouter!Parents, Sheltered
<1>3. Rank[p] <= Rank[p] /\ Rank[p] >= Rank[p]
  BY <1>2, ParentsAssumption
<1>4. \A q : (q \in {p} /\ \A s \in {p} : Rank[q] <= Rank[s]) <=> q = p
  BY <1>3
<1>5. \A q : (q \in {p} /\ \A s \in {p} : Rank[q] >= Rank[s]) <=> q = p
  BY <1>3
<1>6. PeerRouter!FirstOf({p}) = p
  BY <1>4 DEF PeerRouter!FirstOf
<1>7. PeerRouter!LastOf({p}) = p
  BY <1>5 DEF PeerRouter!LastOf
<1>8. QED
  BY <1>2, <1>6, <1>7 DEF PeerRouter!Observed, PeerRouter!Chosen

LEMMA PeerRouterHandles ==
  ASSUME Typed(Desired, Names, Place(Initial, Desired)), Sheltered(Initial),
         group \in {"unborn", "live", "deleted"}, NEW m \in MR, NEW r \in Replica,
         PeerRouter!HandlerStep(m, r)
  PROVE  /\ Handles(m, r, Present(m) = {}) /\ account' \in [Id -> Place(Initial, Desired)]
         /\ nets' = nets /\ Inside' /\ Anchors(Initial, m, r)
         /\ group' = group
<1> DEFINE w == work[m][r]
           Goal == /\ Handles(m, r, Present(m) = {})
                   /\ account' \in [Id -> Place(Initial, Desired)]
                   /\ nets' = nets /\ Inside' /\ Anchors(Initial, m, r)
                   /\ group' = group
<1>1. /\ w \in Work /\ w.cr.spec \in Desired /\ Inside
      /\ RuntimeTypeOK /\ account \in [Id -> Place(Initial, Desired)]
  <2>1. w \in Work /\ RuntimeTypeOK /\ account \in [Id -> Place(Initial, Desired)] /\ Inside
    BY DEF Typed, RuntimeTypeOK, Sheltered
  <2>2. w.cr.spec \in Desired
    BY DEF Typed, Narrow
  <2>3. QED
    BY <2>1, <2>2
<1>2. ASSUME account' = account /\ nets' = nets /\ group' = group,
             w.pc \in {"observe", "list"}, NEW k \in Id,
             NEW verdict \in {"uptodate", "outdated"},
             Go(m, r, [w EXCEPT !.pc = "act", !.obs = verdict, !.cr.ext = k, !.cr.sid = k])
      PROVE  Goal
  <2>1. /\ Moved(m, r) /\ Looks(m, r, FALSE) /\ work'[m][r].pc = "act"
    BY <1>1, <1>2, Reported DEF StatusId, Acts
  <2>2. QED
    BY <1>1, <1>2, <2>1 DEF Handles, Looks, Anchors, Inside
<1>3. ASSUME account' = account /\ nets' = nets /\ group' = group, Go(m, r, Close(w))
      PROVE  Goal
  <2>1. Moved(m, r) /\ Stops(m, r)
    BY <1>1, <1>3, Closed
  <2>2. QED
    BY <1>1, <1>3, <2>1, SameFades DEF Handles, Stops, Anchors, Inside
<1>4. CASE PeerRouter!ObserveOrphan(m, r) \/ PeerRouter!Publish(m, r)
  BY <1>3, <1>4, PeerRouterRuntime DEF PeerRouter!ObserveOrphan, PeerRouter!Publish
<1>5. CASE PeerRouter!ObserveFound(m, r)
  <2> DEFINE k == PeerRouter!Lookup(w.cr)
             verdict == PeerRouter!Comparison(w.cr, k)
  <2>1. verdict \in {"uptodate", "outdated"}
    BY DEF PeerRouter!Comparison
  <2>2. /\ w.pc \in {"observe", "list"} /\ k \in Id /\ account' = account /\ nets' = nets
        /\ group' = group
        /\ Go(m, r, [w EXCEPT !.pc = "act", !.obs = verdict, !.cr.ext = k, !.cr.sid = k])
    BY <1>5, PeerRouterRuntime DEF PeerRouter!ObserveFound, PeerRouter!Under
  <2> HIDE DEF k, verdict
  <2>3. QED
    BY <1>2, <2>1, <2>2
<1>6. CASE PeerRouter!ObserveNotFound(m, r)
  <2>1. /\ w.pc = "observe" /\ account' = account /\ nets' = nets /\ group' = group
        /\ PeerRouter!Parents # {}
        /\ Go(m, r, [w EXCEPT !.pc = "list"])
    BY <1>6, PeerRouterRuntime DEF PeerRouter!ObserveNotFound
  <2>2. Moved(m, r) /\ Looks(m, r, FALSE)
    BY <1>1, <2>1, ListedNext
  <2>3. \E p \in Initial : nets[p] = "live"
    BY <2>1 DEF PeerRouter!Parents
  <2>4. QED
    BY <1>1, <2>1, <2>2, <2>3 DEF Handles, Looks, Anchors, Inside
<1>7. CASE PeerRouter!Adopt(m, r)
  <2>1. PICK k \in Id : Go(m, r, PeerRouter!Adopted(w, k))
    BY <1>7, PeerRouterRuntime DEF PeerRouter!Adopt
  <2>2. Go(m, r, [w EXCEPT !.pc = "act", !.obs = "outdated", !.cr.ext = k, !.cr.sid = k])
    BY <2>1 DEF PeerRouter!Adopted
  <2>3. w.pc \in {"observe", "list"} /\ account' = account /\ nets' = nets /\ group' = group
    BY <1>7 DEF PeerRouter!Adopt, PeerRouter!Listing
  <2>4. QED
    BY <1>2, <2>2, <2>3
<1>8. CASE PeerRouter!ObserveMissing(m, r)
  <2>1. /\ w.pc \in {"observe", "list"} /\ account' = account /\ nets' = nets
        /\ group' = group
        /\ Go(m, r, [w EXCEPT !.pc = "act", !.obs = "missing"])
    BY <1>8, PeerRouterRuntime DEF PeerRouter!ObserveMissing, PeerRouter!Listing
  <2>2. Present(m) = {}
    <3>1. PICK p \in Initial :
            /\ nets[p] = "live"
            /\ (\A k \in Id : ~(PeerRouter!Under(k, p) /\ PeerRouter!Matches(k, m, w.cr.spec)))
      BY <1>1, <1>8 DEF PeerRouter!ObserveMissing, PeerRouter!Parents, PeerRouter!Resolves
    <3>2. ASSUME NEW k \in Present(m) PROVE FALSE
      <4>1. /\ k \in Id /\ account[k].state = "live" /\ account[k].of = m
            /\ account[k].net \in Initial /\ account[k].spec \in Desired
        BY <1>1 DEF Present, Place
      <4>2. account[k].net = p
        BY <3>1, <4>1 DEF Sheltered, Inside
      <4>3. QED
        BY <1>1, <3>1, <4>1, <4>2
        DEF PeerRouter!Under, PeerRouter!Matches, PeerRouter!OwnedBy
    <3>3. QED
      BY <3>2
  <2>3. /\ Moved(m, r) /\ Looks(m, r, TRUE) /\ work'[m][r].pc = "act"
    BY <1>1, <2>1, ReportedMissing DEF Acts
  <2>4. QED
    BY <1>1, <2>1, <2>2, <2>3 DEF Handles, Looks, Anchors, Inside
<1>9. ASSUME NEW heard \in BOOLEAN, PeerRouter!Create(m, r, heard) PROVE Goal
  <2> DEFINE k == CHOOSE i \in PeerRouter!Unborn : TRUE
  <2>1. /\ w.pc = "create" /\ k \in Id /\ account[k].state = "unborn"
        /\ nets' = nets /\ group' = group
        /\ Go(m, r, IF heard
                      THEN [w EXCEPT !.pc = "annotate", !.cr.ext = k,
                                     !.cr.create = "succeeded"]
                      ELSE [w EXCEPT !.pc = "annotate", !.cr.create = "failed"])
    BY <1>9, PeerRouterRuntime DEF PeerRouter!Create, PeerRouter!Unborn
  <2>2. PICK p \in Initial :
          /\ nets[p] = "live"
          /\ account' = [account EXCEPT ![k] = [state |-> "live", net |-> p, of |-> m,
                                                spec |-> w.cr.spec]]
    BY <1>9, PeerRouterParents DEF PeerRouter!Create
  <2> HIDE DEF k
  <2>3. account' \in [Id -> Place(Initial, Desired)] /\ Grows(m) /\ Inside'
    BY <1>1, <2>1, <2>2, PlantGrows
  <2>4. Moved(m, r) /\ Makes(m, r)
    BY <1>1, <2>1, Created
  <2>5. QED
    BY <2>1, <2>3, <2>4 DEF Handles, Makes, Anchors
<1>10. CASE PeerRouter!Update(m, r)
  <2> DEFINE k == PeerRouter!Lookup(w.cr)
  <2>1. /\ k \in Id /\ account' = [account EXCEPT ![k].spec = w.cr.spec]
        /\ Go(m, r, Close(w)) /\ nets' = nets /\ group' = group
    BY <1>10, PeerRouterRuntime DEF PeerRouter!Update, PeerRouter!Under
  <2> HIDE DEF k
  <2>2. account' \in [Id -> Place(Initial, Desired)] /\ Fades /\ Inside'
    BY <1>1, <2>1, TendFades
  <2>3. Moved(m, r) /\ Stops(m, r)
    BY <1>1, <2>1, Closed
  <2>4. QED
    BY <2>1, <2>2, <2>3 DEF Handles, Stops, Anchors
<1>11. CASE PeerRouter!Delete(m, r)
  <2> DEFINE k == PeerRouter!Lookup(w.cr)
  <2>1. /\ k \in Id /\ account[k].state = "live"
        /\ account' = [account EXCEPT ![k] =
                         [account[k] EXCEPT !.state = "deleted", !.spec = Spec0]]
        /\ Go(m, r, Close(w)) /\ nets' = nets /\ group' = group
    BY <1>11, PeerRouterRuntime DEF PeerRouter!Delete, PeerRouter!Under, PeerRouter!Remains
  <2> HIDE DEF k
  <2>2. account' \in [Id -> Place(Initial, Desired)] /\ Fades /\ Inside'
    BY <1>1, <2>1, UprootFades, DesiredAssumption
  <2>3. Moved(m, r) /\ Stops(m, r)
    BY <1>1, <2>1, Closed
  <2>4. QED
    BY <2>1, <2>2, <2>3 DEF Handles, Stops, Anchors
<1>12. QED
  BY <1>4, <1>5, <1>6, <1>7, <1>8, <1>9, <1>10, <1>11 DEF PeerRouter!HandlerStep

LEMMA PeerRouterWorker ==
  ASSUME LoneParent, Typed(Desired, Names, Place(Initial, Desired)), Sheltered(Initial),
         group \in {"unborn", "live", "deleted"}, NEW m \in MR, NEW r \in Replica,
         PeerRouter!WorkerStep(m, r)
  PROVE  /\ Typed(Desired, Names, Place(Initial, Desired))' /\ Sheltered(Initial)'
         /\ Evolves({l \in MR : Present(l) = {}})
         /\ group' \in {"unborn", "live", "deleted"}
<1>1. Spec0 \in Desired /\ Id \cup {NoId} \subseteq Names /\ RuntimeTypeOK /\ Inside
  BY DesiredAssumption DEF Names, Typed, Sheltered
<1>2. /\ Typed(Desired, Names, Place(Initial, Desired))' /\ Inside'
      /\ Evolves({l \in MR : Present(l) = {}})
      /\ nets' = nets /\ Anchors(Initial, m, r) /\ group' = group
  <2>1. CASE PeerRouter!SecretlessStep(m, r) /\ nets' = nets /\ account' = account
                                             /\ group' = group
    <3>1. SecretlessStep(m, r)
      BY <2>1, PeerRouterRuntime
    <3>2. Typed(Desired, Names, Place(Initial, Desired))' /\ Anchors(Initial, m, r)
      BY <1>1, <2>1, <3>1, LoopTyped, LoopAnchors
    <3>3. Inside'
      BY <1>1, <2>1 DEF Inside
    <3>4. QED
      BY <2>1, <3>1, <3>2, <3>3 DEF Evolves
  <2>2. CASE PeerRouter!HandlerStep(m, r)
    <3>1. /\ Handles(m, r, m \in {l \in MR : Present(l) = {}})
          /\ account' \in [Id -> Place(Initial, Desired)] /\ nets' = nets /\ Inside'
          /\ Anchors(Initial, m, r) /\ group' = group
      BY <2>2, PeerRouterHandles
    <3>2. Typed(Desired, Names, Place(Initial, Desired))'
      BY <1>1, <3>1, HandlerTyped DEF Handles
    <3>3. QED
      BY <3>1, <3>2 DEF Evolves
  <2>3. QED
    BY <2>1, <2>2 DEF PeerRouter!WorkerStep
<1>3. PICK p \in Initial \cup {NoId} : parent' = [parent EXCEPT ![m][r] = p]
  <2>1. PeerRouter!Parents # {} => PeerRouter!Observed \in Initial
    BY PeerRouterParents
  <2>2. work'[m][r].pc = "list" /\ work[m][r].pc # "list" => PeerRouter!Parents # {}
    BY <1>2 DEF Anchors, PeerRouter!Parents
  <2>3. parent[m][r] \in Initial \cup {NoId}
    BY DEF Sheltered
  <2>4. QED
    BY <2>1, <2>2, <2>3 DEF PeerRouter!WorkerStep, PeerRouter!Holds, Sheltered
<1>4. Sheltered(Initial)'
  BY <1>2, <1>3, HeldShelters
<1>5. QED
  BY <1>2, <1>4

LEMMA PeerRouterWorld ==
  ASSUME LoneParent, Typed(Desired, Names, Place(Initial, Desired)), Sheltered(Initial),
         group \in {"unborn", "live", "deleted"},
         \/ \E p \in Initial : PeerRouter!Arrive(p) \/ PeerRouter!Leave(p)
         \/ \E k \in Id : PeerRouter!Tamper(k) \/ PeerRouter!Vanish(k)
         \/ PeerRouter!GroupComes \/ PeerRouter!GroupGoes
  PROVE  /\ Typed(Desired, Names, Place(Initial, Desired))' /\ Sheltered(Initial)'
         /\ Evolves({l \in MR : Present(l) = {}})
         /\ group' \in {"unborn", "live", "deleted"}
<1>1. Spec0 \in Desired /\ RuntimeTypeOK /\ Inside
                        /\ account \in [Id -> Place(Initial, Desired)]
  BY DesiredAssumption DEF Typed, Sheltered
<1>2. UNCHANGED runtimeVars
  BY DEF PeerRouter!Arrive, PeerRouter!Leave, PeerRouter!Appear,
         PeerRouter!Disappear, PeerRouter!Tamper, PeerRouter!Vanish,
         PeerRouter!GroupComes, PeerRouter!GroupGoes, PeerRouter!runtimeVars,
         runtimeVars
<1>3. ASSUME account' \in [Id -> Place(Initial, Desired)], Fades, Sheltered(Initial)', Turns
      PROVE  /\ Typed(Desired, Names, Place(Initial, Desired))' /\ Sheltered(Initial)'
             /\ Evolves({l \in MR : Present(l) = {}})
         /\ group' \in {"unborn", "live", "deleted"}
  <2>1. Typed(Desired, Names, Place(Initial, Desired))'
    BY <1>2, <1>3, WorldTyped
  <2>2. Evolves({l \in MR : Present(l) = {}})
    BY <1>2, <1>3 DEF Evolves, Edits
  <2>3. QED
    BY <1>3, <2>1, <2>2 DEF Turns
<1>4. ASSUME NEW p \in Initial, PeerRouter!Arrive(p)
      PROVE  Sheltered(Initial)' /\ Fades /\ account' = account /\ group' = group
  <2>1. /\ account' = account /\ nets' = [nets EXCEPT ![p] = "live"] /\ parent' = parent
        /\ group' = group
    BY <1>4 DEF PeerRouter!Arrive, PeerRouter!Appear
  <2>2. \A q \in Initial : nets[q] # "live"
    BY <1>4 DEF PeerRouter!Arrive, PeerRouter!Appear, PeerRouter!Parents, LoneParent
  <2>3. QED
    BY <1>1, <2>1, <2>2, ArriveShelters, SameFades
<1>5. ASSUME NEW p \in Initial, PeerRouter!Leave(p)
      PROVE  /\ account' \in [Id -> Place(Initial, Desired)] /\ Fades /\ Sheltered(Initial)'
             /\ group' = group
  <2>1. /\ nets[p] = "live" /\ parent' = parent /\ nets' = [nets EXCEPT ![p] = "deleted"]
        /\ account' = [k \in Id |->
                         IF account[k].state = "live" /\ account[k].net = p
                           THEN [account[k] EXCEPT !.state = "deleted", !.spec = Spec0]
                           ELSE account[k]]
        /\ group' = group
    BY <1>5 DEF PeerRouter!Leave, PeerRouter!Disappear, PeerRouter!Under, PeerRouter!Remains
  <2>2. QED
    BY <1>1, <2>1, LeaveFades
<1>6. ASSUME NEW k \in Id, PeerRouter!Tamper(k) \/ PeerRouter!Vanish(k)
      PROVE  /\ account' \in [Id -> Place(Initial, Desired)] /\ Fades /\ Sheltered(Initial)'
             /\ group' = group
  <2>1. nets' = nets /\ parent' = parent /\ group' = group
    BY <1>6 DEF PeerRouter!Tamper, PeerRouter!Vanish, PeerRouter!parentVars
  <2>2. account' \in [Id -> Place(Initial, Desired)] /\ Fades /\ Inside'
    <3>1. CASE PeerRouter!Tamper(k)
      <4>1. PICK d \in Desired : account' = [account EXCEPT ![k].spec = d]
        BY <3>1 DEF PeerRouter!Tamper
      <4>2. QED
        BY <1>1, <2>1, <4>1, TendFades
    <3>2. CASE PeerRouter!Vanish(k)
      BY <1>1, <2>1, <3>2, UprootFades
      DEF PeerRouter!Vanish, PeerRouter!Live, PeerRouter!Remains
    <3>3. QED
      BY <1>6, <3>1, <3>2
  <2>3. QED
    BY <2>1, <2>2 DEF Sheltered
<1>7. CASE PeerRouter!GroupComes \/ PeerRouter!GroupGoes
  <2>1. /\ account' = account /\ nets' = nets /\ parent' = parent
        /\ \/ group = "live" /\ group' = "deleted"
           \/ group = "unborn" /\ group' = "live"
    BY <1>7 DEF PeerRouter!GroupComes, PeerRouter!GroupGoes, PeerRouter!parentVars
  <2>2. Sheltered(Initial)' /\ Turns
    BY <2>1 DEF Sheltered, Inside, Turns
  <2>3. QED
    BY <1>1, <1>3, <2>1, <2>2, SameFades
<1>8. QED
  BY <1>1, <1>3, <1>4, <1>5, <1>6, <1>7 DEF Turns

LEMMA PeerRouterSteps ==
  ASSUME LoneParent, Typed(Desired, Names, Place(Initial, Desired)), Sheltered(Initial),
         group \in {"unborn", "live", "deleted"}, PeerRouter!Next
  PROVE  /\ Typed(Desired, Names, Place(Initial, Desired))' /\ Sheltered(Initial)'
         /\ Evolves({l \in MR : Present(l) = {}})
         /\ group' \in {"unborn", "live", "deleted"}
<1>1. CASE \E m \in MR, r \in Replica : PeerRouter!WorkerStep(m, r)
  BY <1>1, PeerRouterWorker
<1>2. ASSUME NEW m \in MR,
             PeerRouter!UserStep(m) \/ (PeerRouter!ClearPending(m) /\ UNCHANGED PeerRouter!others)
      PROVE  /\ Typed(Desired, Names, Place(Initial, Desired))' /\ Sheltered(Initial)'
             /\ Evolves({l \in MR : Present(l) = {}})
             /\ group' \in {"unborn", "live", "deleted"}
  <2>1. RequestDelete(m) \/ Asks(m, Desired) \/ ClearPending(m)
    BY <1>2, PeerRouterRuntime DEF PeerRouter!UserStep
  <2>2. account' = account /\ nets' = nets /\ parent' = parent /\ group' = group
    BY <1>2 DEF PeerRouter!UserStep, PeerRouter!others, PeerRouter!parentVars
  <2>3. Desired \subseteq Desired
    BY DesiredAssumption
  <2>4. Typed(Desired, Names, Place(Initial, Desired))' /\ Edits
    BY <2>1, <2>2, <2>3, UserTyped
  <2>5. Sheltered(Initial)'
    BY <2>2 DEF Sheltered, Inside
  <2>6. QED
    BY <2>2, <2>4, <2>5 DEF Evolves
<1>3. QED
  BY <1>1, <1>2, PeerRouterWorld DEF PeerRouter!Next

-----------------------------------------------------------------------------
(* What is always there: the account and its DNS settings *)

\* It is never observed to be missing.
Unmissed == \A m \in MR, r \in Replica : work[m][r].obs # "missing"

\* The phase of no object changes.
PhasesStand == \A l \in MR : mr'[l].phase = mr[l].phase

\* A deleted object is let go only if its policies say so.
LetsGo(K) ==
  \A l \in MR : mr[l].phase = "deleting" /\ mr'[l].phase = "gone" => mr[l].spec \in K

LEMMA UnmissedStays ==
  ASSUME Unmissed, NEW m \in MR, NEW r, Framed(m, r),
         r \in Replica => work'[m][r].obs # "missing"
  PROVE  Unmissed'
<1>1. ASSUME NEW l \in MR, NEW s \in Replica PROVE work'[l][s].obs # "missing"
  <2>1. CASE l = m /\ s = r
    BY <2>1
  <2>2. CASE l # m \/ s # r
    BY <2>2 DEF Framed, Overtaken, Unmissed
  <2>3. QED
    BY <2>1, <2>2
<1>2. QED
  BY <1>1 DEF Unmissed

\* So the loop of the library finds nothing to release.
LEMMA LoopUnmissed ==
  ASSUME RuntimeTypeOK, Unmissed, NEW m \in MR, NEW r \in Replica, SecretlessStep(m, r)
  PROVE  RuntimeTypeOK' /\ Unmissed' /\ PhasesStand
<1>1. ~Release(m, r)
  BY DEF Release, Unmissed
<1>2. RuntimeStep(m, r)
  BY <1>1 DEF SecretlessStep
<1>3. RuntimeTypeOK' /\ Framed(m, r) /\ RuntimeMove(m, r)
  BY <1>2, RuntimeStepEffect
<1>4. work'[m][r].obs # "missing"
  BY <1>3 DEF RuntimeMove, Ends, Starts, Advances, Creates, Unmissed
<1>5. Unmissed'
  BY <1>3, <1>4, UnmissedStays
<1>6. PhasesStand
  BY <1>2, <1>3, RuntimeStepKeeps DEF Framed, PhasesStand
<1>7. QED
  BY <1>3, <1>5, <1>6

LEMMA SyncUnmissed ==
  ASSUME RuntimeTypeOK, Unmissed, NEW m \in MR, NEW r \in Replica, SyncCache(m, r)
  PROVE  RuntimeTypeOK' /\ Unmissed' /\ PhasesStand
BY LoopUnmissed DEF SecretlessStep, RuntimeStep

LEMMA LetGoUnmissed ==
  ASSUME RuntimeTypeOK, Unmissed, NEW m \in MR, NEW r \in Replica, LetGo(m, r)
  PROVE  RuntimeTypeOK' /\ Unmissed' /\ LetsGo({cache[m][r].spec})
<1> DEFINE o == [mr[m] EXCEPT !.phase = "gone", !.fin = FALSE]
<1>1. o \in Object /\ o.phase = "gone" /\ work[m][r] \in Work
  BY DEF RuntimeTypeOK, Object
<1>2. Commit(m, r, o, work[m][r]) /\ cache[m][r] = mr[m]
  BY DEF LetGo
<1> HIDE DEF o
<1>3. RuntimeTypeOK' /\ Framed(m, r) /\ work'[m][r] = work[m][r]
  BY <1>1, <1>2, CommitFramed, CommitEffect
<1>4. Unmissed'
  BY <1>3, UnmissedStays DEF Unmissed
<1>5. LetsGo({cache[m][r].spec})
  BY <1>2, <1>3 DEF Framed, LetsGo
<1>6. QED
  BY <1>3, <1>4, <1>5

\* The initializer stores a name.
LEMMA NamedUnmissed ==
  ASSUME RuntimeTypeOK, Unmissed, NEW m \in MR, NEW r \in Replica,
         Commit(m, r, [mr[m] EXCEPT !.ext = ObjName],
                [Idle EXCEPT !.pc = "observe", !.cr = [mr[m] EXCEPT !.ext = ObjName]])
  PROVE  RuntimeTypeOK' /\ Unmissed' /\ PhasesStand
<1> DEFINE o == [mr[m] EXCEPT !.ext = ObjName]
           x == [Idle EXCEPT !.pc = "observe", !.cr = o]
<1>1. o \in Object /\ o.phase = mr[m].phase
  BY DEF RuntimeTypeOK, Object, ExtName, Hints
<1> HIDE DEF o
<1>2. x \in Work /\ x.obs = "none"
  BY <1>1 DEF Idle, Work, PC
<1>3. Commit(m, r, o, x)
  BY DEF o
<1> HIDE DEF x
<1>4. RuntimeTypeOK' /\ Framed(m, r) /\ work'[m][r] = x /\ mr'[m] = o
  BY <1>1, <1>2, <1>3, CommitFramed, CommitEffect DEF RuntimeTypeOK
<1>5. Unmissed'
  BY <1>2, <1>4, UnmissedStays
<1>6. PhasesStand
  BY <1>1, <1>4 DEF Framed, PhasesStand
<1>7. QED
  BY <1>4, <1>5, <1>6

\* What is observed is there.
LEMMA SeenUnmissed ==
  ASSUME RuntimeTypeOK, Unmissed, NEW m \in MR, NEW r \in Replica, NEW e \in ExtName,
         NEW verdict \in {"uptodate", "outdated"},
         Go(m, r, [work[m][r] EXCEPT !.pc = "act", !.obs = verdict, !.cr.ext = e])
  PROVE  RuntimeTypeOK' /\ Unmissed' /\ PhasesStand
<1> DEFINE x == [work[m][r] EXCEPT !.pc = "act", !.obs = verdict, !.cr.ext = e]
<1>1. work[m][r] \in Work
  BY DEF RuntimeTypeOK
<1>2. x \in Work /\ x.obs = verdict
  BY <1>1 DEF Work, PC, Object
<1> HIDE DEF x
<1>3. RuntimeTypeOK' /\ Framed(m, r) /\ work'[m][r] = x /\ mr' = mr
  BY <1>2, GoFramed, GoEffect DEF x
<1>4. QED
  BY <1>2, <1>3, UnmissedStays DEF PhasesStand

LEMMA ClosedUnmissed ==
  ASSUME RuntimeTypeOK, Unmissed, NEW m \in MR, NEW r \in Replica,
         Go(m, r, Close(work[m][r]))
  PROVE  RuntimeTypeOK' /\ Unmissed' /\ PhasesStand
<1>1. Moved(m, r) /\ Stops(m, r)
  BY Closed
<1>2. QED
  BY <1>1, UnmissedStays DEF Moved, Stops, PhasesStand

LEMMA UserUnmissed ==
  ASSUME RuntimeTypeOK, Unmissed, NEW m \in MR, RequestDelete(m) \/ Respecify(m)
  PROVE  RuntimeTypeOK' /\ Unmissed' /\ LetsGo({})
<1>1. PICK r : r \notin Replica
  BY NoSetContainsEverything
<1>2. RuntimeTypeOK' /\ Framed(m, r) /\ UserMove(m)
  BY <1>1, UserMoves
<1>3. Unmissed'
  BY <1>1, <1>2, UnmissedStays
<1>4. LetsGo({})
  BY <1>2 DEF UserMove, Framed, LetsGo
<1>5. QED
  BY <1>2, <1>3, <1>4

-----------------------------------------------------------------------------
(* The account *)

LEMMA AccountRuntime ==
  ASSUME NEW m, NEW r
  PROVE  /\ Account!SecretlessStep(m, r) <=> SecretlessStep(m, r)
         /\ Account!SyncCache(m, r) <=> SyncCache(m, r)
         /\ Account!LetGo(m, r) <=> LetGo(m, r)
         /\ \A o, x : Account!Commit(m, r, o, x) <=> Commit(m, r, o, x)
         /\ \A x : Account!Go(m, r, x) <=> Go(m, r, x)
         /\ \A w : Account!Close(w) = Close(w)
         /\ Account!RequestDelete(m) <=> RequestDelete(m)
         /\ Account!Respecify(m) <=> Respecify(m)
<1>1. Account!SecretlessStep(m, r) <=> SecretlessStep(m, r)
  BY DEF Account!SecretlessStep, Account!RuntimeStep, Account!Release,
         Account!Commit, Account!Go, Account!Outdate, Account!Reloaded,
         Account!Close, Account!Begin, Account!AwaitGrace, Account!Proceed,
         Account!EnsureFinalizer, Account!MarkPending, Account!CreateRefused,
         Account!Annotate, Account!StepFails, Account!ReportStatus, Account!Abandon,
         Account!SyncCache, Account!Idle, Account!Fresh, SecretlessStep,
         RuntimeStep, Release, Commit, Go, Outdate, Reloaded, Close, Begin,
         AwaitGrace, Proceed, EnsureFinalizer, MarkPending, CreateRefused, Annotate,
         StepFails, ReportStatus, Abandon, SyncCache, Idle, Fresh
<1>2. Account!SyncCache(m, r) <=> SyncCache(m, r)
  BY DEF Account!SyncCache, SyncCache
<1>3. \A o, x : Account!Commit(m, r, o, x) <=> Commit(m, r, o, x)
  BY DEF Account!Commit, Account!Outdate, Commit, Outdate
<1>4. Account!LetGo(m, r) <=> LetGo(m, r)
  BY <1>3 DEF Account!LetGo, LetGo
<1>5. \A x : Account!Go(m, r, x) <=> Go(m, r, x)
  BY DEF Account!Go, Go
<1>6. \A w : Account!Close(w) = Close(w)
  BY DEF Account!Close, Account!Idle, Account!Fresh, Close, Idle, Fresh
<1>7. Account!RequestDelete(m) <=> RequestDelete(m)
  BY DEF Account!RequestDelete, Account!Edit, Account!Outdate, RequestDelete, Edit,
         Outdate
<1>8. Account!Respecify(m) <=> Respecify(m)
  BY DEF Account!Respecify, Account!Edit, Account!Outdate, Respecify, Edit, Outdate
<1>9. QED
  BY <1>1, <1>2, <1>3, <1>4, <1>5, <1>6, <1>7, <1>8

LEMMA AccountTypes == Account!TypeOK <=> RuntimeTypeOK /\ account \in Desired
BY DEF Account!TypeOK, Account!RuntimeTypeOK, Account!Object, Account!Work,
       Account!PC, Account!ExtName, Account!StatusId, Account!Hints, RuntimeTypeOK,
       Object, Work, PC, StatusId, ExtName, Hints

LEMMA AccountOpens == Account!Init => RuntimeTypeOK /\ account \in Desired /\ Unmissed
<1> SUFFICES ASSUME Account!Init PROVE RuntimeTypeOK /\ account \in Desired /\ Unmissed
  OBVIOUS
<1>1. RuntimeInit({}) /\ account \in Desired
  BY DEF Account!Init, Account!RuntimeInit, Account!Hints, Account!Fresh, Account!Idle,
         RuntimeInit, Hints,
         Fresh, Idle
<1>2. RuntimeTypeOK
  BY <1>1, RuntimeInitTypes
<1>3. Unmissed
  BY <1>1 DEF RuntimeInit, Idle, Unmissed
<1>4. QED
  BY <1>1, <1>2, <1>3

LEMMA AccountSteps ==
  ASSUME RuntimeTypeOK, account \in Desired, Unmissed, Account!Next
  PROVE  RuntimeTypeOK' /\ account' \in Desired /\ Unmissed' /\ LetsGo(Desired \ {Spec0})
<1>1. PhasesStand => LetsGo(Desired \ {Spec0})
  BY DEF PhasesStand, LetsGo
<1>2. ASSUME NEW m \in MR, NEW r \in Replica, Account!InitializedStep(m, r)
      PROVE  RuntimeTypeOK' /\ Unmissed' /\ LetsGo(Desired \ {Spec0})
  <2>1. CASE Account!Initialize(m, r)
    <3>1. Commit(m, r, [mr[m] EXCEPT !.ext = ObjName],
                 [Idle EXCEPT !.pc = "observe", !.cr = [mr[m] EXCEPT !.ext = ObjName]])
      BY <2>1, AccountRuntime
      DEF Account!Initialize, Account!Idle, Account!Fresh, Idle, Fresh
    <3>2. QED
      BY <1>1, <3>1, NamedUnmissed
  <2>2. CASE Account!SyncCache(m, r)
    BY <1>1, <2>2, AccountRuntime, SyncUnmissed
  <2>3. CASE Account!LetGo(m, r) /\ cache[m][r].spec \in Desired \ {Spec0}
    <3>1. RuntimeTypeOK' /\ Unmissed' /\ LetsGo({cache[m][r].spec})
      BY <2>3, AccountRuntime, LetGoUnmissed
    <3>2. QED
      BY <2>3, <3>1 DEF LetsGo
  <2>4. CASE Account!SecretlessStep(m, r)
    BY <1>1, <2>4, AccountRuntime, LoopUnmissed
  <2>5. QED
    BY <1>2, <2>1, <2>2, <2>3, <2>4 DEF Account!InitializedStep, Account!PolicyStep
<1>3. ASSUME NEW m \in MR, NEW r \in Replica, Account!WorkerStep(m, r)
      PROVE  RuntimeTypeOK' /\ account' \in Desired /\ Unmissed'
                            /\ LetsGo(Desired \ {Spec0})
  <2> DEFINE w == work[m][r]
  <2>1. w \in Work /\ w.cr \in Object
    BY DEF RuntimeTypeOK, Work
  <2>2. CASE Account!InitializedStep(m, r) /\ account' = account
    BY <1>2, <2>2
  <2>3. CASE Account!Observe(m, r)
    <3> DEFINE e == Account!AccountId
               verdict == Account!Comparison(w.cr)
    <3>1. verdict \in {"uptodate", "outdated"}
      BY DEF Account!Comparison
    <3>2. e \in ExtName
      BY BoundsAssumption DEF Account!AccountId, ExtName
    <3>3. /\ Go(m, r, [w EXCEPT !.pc = "act", !.obs = verdict, !.cr.ext = e])
          /\ account' = account
      BY <2>3, AccountRuntime DEF Account!Observe, Account!Report
    <3> HIDE DEF e, verdict
    <3>4. QED
      BY <1>1, <3>1, <3>2, <3>3, SeenUnmissed
  <2>4. CASE Account!Update(m, r) \/ Account!Delete(m, r)
    <3>1. account' \in Desired /\ Go(m, r, Close(w))
      BY <2>1, <2>4, AccountRuntime
      DEF Account!Update, Account!Overwrite, Account!Delete, Account!LeaveAlone, Object
    <3>2. QED
      BY <1>1, <3>1, ClosedUnmissed
  <2>5. QED
    BY <1>3, <2>2, <2>3, <2>4 DEF Account!WorkerStep
<1>4. CASE Account!UserStep
  <2>1. PICK m \in MR : RequestDelete(m) \/ Respecify(m)
    BY <1>4, AccountRuntime DEF Account!UserStep
  <2>2. QED
    BY <1>4, <2>1, UserUnmissed DEF Account!UserStep, LetsGo
<1>5. CASE Account!Tamper
  <2>1. mr' = mr /\ cache' = cache /\ work' = work /\ account' \in Desired
    BY <1>5 DEF Account!Tamper, Account!runtimeVars
  <2>2. QED
    BY <2>1 DEF RuntimeTypeOK, Unmissed, LetsGo
<1>6. QED
  BY <1>3, <1>4, <1>5 DEF Account!Next

-----------------------------------------------------------------------------
(* DNS settings *)

LEMMA DnsSettingRuntime ==
  ASSUME NEW m, NEW r
  PROVE  /\ DnsSetting!SecretlessStep(m, r) <=> SecretlessStep(m, r)
         /\ DnsSetting!SyncCache(m, r) <=> SyncCache(m, r)
         /\ DnsSetting!LetGo(m, r) <=> LetGo(m, r)
         /\ \A o, x : DnsSetting!Commit(m, r, o, x) <=> Commit(m, r, o, x)
         /\ \A x : DnsSetting!Go(m, r, x) <=> Go(m, r, x)
         /\ \A w : DnsSetting!Close(w) = Close(w)
         /\ DnsSetting!RequestDelete(m) <=> RequestDelete(m)
         /\ DnsSetting!Respecify(m) <=> Respecify(m)
<1>1. DnsSetting!SecretlessStep(m, r) <=> SecretlessStep(m, r)
  BY DEF DnsSetting!SecretlessStep, DnsSetting!RuntimeStep, DnsSetting!Release,
         DnsSetting!Commit, DnsSetting!Go, DnsSetting!Outdate, DnsSetting!Reloaded,
         DnsSetting!Close, DnsSetting!Begin, DnsSetting!AwaitGrace,
         DnsSetting!Proceed, DnsSetting!EnsureFinalizer, DnsSetting!MarkPending,
         DnsSetting!CreateRefused, DnsSetting!Annotate, DnsSetting!StepFails,
         DnsSetting!ReportStatus, DnsSetting!Abandon, DnsSetting!SyncCache,
         DnsSetting!Idle, DnsSetting!Fresh, SecretlessStep, RuntimeStep, Release,
         Commit, Go, Outdate, Reloaded, Close, Begin, AwaitGrace, Proceed,
         EnsureFinalizer, MarkPending, CreateRefused, Annotate, StepFails,
         ReportStatus, Abandon, SyncCache, Idle, Fresh
<1>2. DnsSetting!SyncCache(m, r) <=> SyncCache(m, r)
  BY DEF DnsSetting!SyncCache, SyncCache
<1>3. \A o, x : DnsSetting!Commit(m, r, o, x) <=> Commit(m, r, o, x)
  BY DEF DnsSetting!Commit, DnsSetting!Outdate, Commit, Outdate
<1>4. DnsSetting!LetGo(m, r) <=> LetGo(m, r)
  BY <1>3 DEF DnsSetting!LetGo, LetGo
<1>5. \A x : DnsSetting!Go(m, r, x) <=> Go(m, r, x)
  BY DEF DnsSetting!Go, Go
<1>6. \A w : DnsSetting!Close(w) = Close(w)
  BY DEF DnsSetting!Close, DnsSetting!Idle, DnsSetting!Fresh, Close, Idle, Fresh
<1>7. DnsSetting!RequestDelete(m) <=> RequestDelete(m)
  BY DEF DnsSetting!RequestDelete, DnsSetting!Edit, DnsSetting!Outdate,
         RequestDelete, Edit, Outdate
<1>8. DnsSetting!Respecify(m) <=> Respecify(m)
  BY DEF DnsSetting!Respecify, DnsSetting!Edit, DnsSetting!Outdate, Respecify, Edit,
         Outdate
<1>9. QED
  BY <1>1, <1>2, <1>3, <1>4, <1>5, <1>6, <1>7, <1>8

LEMMA DnsSettingTypes == DnsSetting!TypeOK <=> RuntimeTypeOK /\ account \in Desired
BY DEF DnsSetting!TypeOK, DnsSetting!RuntimeTypeOK, DnsSetting!Object,
       DnsSetting!Work, DnsSetting!PC, DnsSetting!ExtName, DnsSetting!StatusId,
       DnsSetting!Hints, RuntimeTypeOK, Object, Work, PC, StatusId, ExtName, Hints

LEMMA DnsSettingOpens == DnsSetting!Init => RuntimeTypeOK /\ account \in Desired /\ Unmissed
<1> SUFFICES ASSUME DnsSetting!Init PROVE RuntimeTypeOK /\ account \in Desired /\ Unmissed
  OBVIOUS
<1>1. RuntimeInit({}) /\ account \in Desired
  BY DEF DnsSetting!Init, DnsSetting!RuntimeInit, DnsSetting!Hints, DnsSetting!Fresh,
         DnsSetting!Idle, RuntimeInit, Hints,
         Fresh, Idle
<1>2. RuntimeTypeOK
  BY <1>1, RuntimeInitTypes
<1>3. Unmissed
  BY <1>1 DEF RuntimeInit, Idle, Unmissed
<1>4. QED
  BY <1>1, <1>2, <1>3

LEMMA DnsSettingSteps ==
  ASSUME RuntimeTypeOK, account \in Desired, Unmissed, DnsSetting!Next
  PROVE  RuntimeTypeOK' /\ account' \in Desired /\ Unmissed' /\ LetsGo(Odd)
<1>1. PhasesStand => LetsGo(Odd)
  BY DEF PhasesStand, LetsGo
<1>2. ASSUME NEW m \in MR, NEW r \in Replica, DnsSetting!InitializedStep(m, r)
      PROVE  RuntimeTypeOK' /\ Unmissed' /\ LetsGo(Odd)
  <2>1. CASE DnsSetting!Initialize(m, r)
    <3>1. Commit(m, r, [mr[m] EXCEPT !.ext = ObjName],
                 [Idle EXCEPT !.pc = "observe", !.cr = [mr[m] EXCEPT !.ext = ObjName]])
      BY <2>1, DnsSettingRuntime
      DEF DnsSetting!Initialize, DnsSetting!Idle, DnsSetting!Fresh, Idle, Fresh
    <3>2. QED
      BY <1>1, <3>1, NamedUnmissed
  <2>2. CASE DnsSetting!SyncCache(m, r)
    BY <1>1, <2>2, DnsSettingRuntime, SyncUnmissed
  <2>3. CASE DnsSetting!LetGo(m, r) /\ cache[m][r].spec \in Odd
    <3>1. RuntimeTypeOK' /\ Unmissed' /\ LetsGo({cache[m][r].spec})
      BY <2>3, DnsSettingRuntime, LetGoUnmissed
    <3>2. QED
      BY <2>3, <3>1 DEF LetsGo
  <2>4. CASE DnsSetting!SecretlessStep(m, r)
    BY <1>1, <2>4, DnsSettingRuntime, LoopUnmissed
  <2>5. QED
    BY <1>2, <2>1, <2>2, <2>3, <2>4 DEF DnsSetting!InitializedStep, DnsSetting!PolicyStep
<1>3. ASSUME NEW m \in MR, NEW r \in Replica, DnsSetting!WorkerStep(m, r)
      PROVE  RuntimeTypeOK' /\ account' \in Desired /\ Unmissed' /\ LetsGo(Odd)
  <2> DEFINE w == work[m][r]
  <2>1. w \in Work /\ w.cr \in Object
    BY DEF RuntimeTypeOK, Work
  <2>2. CASE DnsSetting!InitializedStep(m, r) /\ account' = account
    BY <1>2, <2>2
  <2>3. CASE DnsSetting!Observe(m, r)
    <3> DEFINE e == w.cr.ext
               verdict == DnsSetting!Comparison(w.cr)
    <3>1. verdict \in {"uptodate", "outdated"}
      BY DEF DnsSetting!Comparison
    <3>2. e \in ExtName
      BY <2>1 DEF Object
    <3>3. /\ Go(m, r, [w EXCEPT !.pc = "act", !.obs = verdict, !.cr.ext = e])
          /\ account' = account
      BY <2>3, DnsSettingRuntime DEF DnsSetting!Observe, DnsSetting!Report
    <3> HIDE DEF e, verdict
    <3>4. QED
      BY <1>1, <3>1, <3>2, <3>3, SeenUnmissed
  <2>4. CASE DnsSetting!Update(m, r) \/ DnsSetting!Delete(m, r)
    <3>1. account' \in Desired /\ Go(m, r, Close(w))
      BY <2>1, <2>4, DnsSettingRuntime
      DEF DnsSetting!Update, DnsSetting!Overwrite, DnsSetting!Delete, DnsSetting!LeaveAlone,
          Object
    <3>2. QED
      BY <1>1, <3>1, ClosedUnmissed
  <2>5. QED
    BY <1>3, <2>2, <2>3, <2>4 DEF DnsSetting!WorkerStep
<1>4. CASE DnsSetting!UserStep
  <2>1. PICK m \in MR : RequestDelete(m) \/ Respecify(m)
    BY <1>4, DnsSettingRuntime DEF DnsSetting!UserStep
  <2>2. QED
    BY <1>4, <2>1, UserUnmissed DEF DnsSetting!UserStep, LetsGo
<1>5. CASE DnsSetting!Tamper
  <2>1. mr' = mr /\ cache' = cache /\ work' = work /\ account' \in Desired
    BY <1>5 DEF DnsSetting!Tamper, DnsSetting!runtimeVars
  <2>2. QED
    BY <2>1 DEF RuntimeTypeOK, Unmissed, LetsGo
<1>6. QED
  BY <1>3, <1>4, <1>5 DEF DnsSetting!Next
=============================================================================
