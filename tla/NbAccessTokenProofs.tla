------------------------- MODULE NbAccessTokenProofs -------------------------
(***************************************************************************)
(* Proofs about NbAccessToken for any number of resources, replicas and    *)
(* tokens, when one user has the name the resources give.                  *)
(***************************************************************************)
EXTENDS NbAccessToken, ManagedReconcilerProofs
-----------------------------------------------------------------------------
(* Users *)

\* Whichever way the user is looked up, it is the same one.
LEMMA TheUser ==
  ASSUME SameUser, users \in SUBSET User
  PROVE  /\ \A u, v \in User : u = v
         /\ users \cap Service = {} => users = {}
         /\ users # {} => /\ users \cap Service # {} /\ users = User
                          /\ Observed \in User /\ Rotated \in User /\ Chosen \in User
<1>1. PICK u \in User : User = {u} /\ Service = {u}
  BY DEF SameUser
<1>2. First({u}) = u /\ Last({u}) = u
  BY <1>1, UsersAssumption DEF First, Last
<1>3. CASE users = {}
  BY <1>1, <1>3
<1>4. CASE users # {}
  <2>1. users = {u} /\ users \cap Service = {u}
    BY <1>1, <1>4
  <2>2. Observed = u /\ Rotated = u /\ Chosen = u
    BY <1>2, <2>1 DEF Observed, Rotated, Chosen
  <2>3. QED
    BY <1>1, <1>4, <2>1, <2>2
<1>5. QED
  BY <1>3, <1>4

-----------------------------------------------------------------------------
(* Type correctness *)

AccountTypeOK ==
  /\ users \in SUBSET User
  /\ tokens \in [Id -> Token]
  /\ subject \in [MR -> [Replica -> User]]
  /\ secret \in [MR -> ExtName]

LEMMA TypeOKIs == TypeOK <=> RuntimeTypeOK /\ AccountTypeOK
BY DEF TypeOK, AccountTypeOK

\* An adopting worker stays within Work.
LEMMA AdoptedType ==
  ASSUME NEW w \in Work, NEW k \in Id
  PROVE  Adopted(w, k) \in Work
BY DEF Adopted, Work, Object, PC, ExtName, StatusId

\* Looking a worker's object up gives an identifier of NetBird or a hint.
LEMMA LookupType ==
  ASSUME NEW cr \in Object
  PROVE  /\ Lookup(cr) \in ExtName
         /\ IsId(Lookup(cr)) => Lookup(cr) \in Id
         /\ cr.ext \in Id => Lookup(cr) = cr.ext
BY IdentityAssumption DEF Lookup, IsId, Hints, ExtName, StatusId, Object

\* Deleting key j.
Removes(j) == Listed(j) /\ tokens' = [tokens EXCEPT ![j].state = "deleted"]

\* An observation is made, or adoption by name is still to be tried.
Observes(m, r) ==
  LET w == work[m][r]
      v == work'[m][r]
  IN
  /\ w.pc \in {"observe", "list"}
  /\ mr' = mr /\ UNCHANGED netbird
  /\ v.cr.phase = w.cr.phase /\ (v.cr.fin <=> w.cr.fin) /\ (v.stale <=> w.stale)
  /\ \/ v.pc = "list" /\ v.obs = w.obs
     \/ v.pc = "act" /\ v.obs = "uptodate"
     \/ v.pc = "act" /\ v.obs = "missing" /\ (TokensHaveUsers => NoToken(m))
     \/ /\ v.pc = "act" /\ v.obs = "outdated"
        /\ v.cr.ext \in Id /\ tokens[v.cr.ext].state = "dead"

\* A token is minted, heard of or not.
Mints(m, r) ==
  LET w == work[m][r]
      v == work'[m][r]
  IN
  /\ w.pc = "create" /\ v.pc = "annotate"
  /\ mr' = mr /\ users' = users
  /\ v.obs = w.obs /\ v.cr.phase = w.cr.phase
  /\ v.cr.create # "pending"
  /\ \E j \in Id, u \in users :
       /\ tokens[j].state = "unborn"
       /\ tokens' = [tokens EXCEPT ![j] = [state |-> "valid", user |-> u, of |-> m]]
       /\ v.cr.create = "succeeded" => v.cr.ext = j

\* Only the status write is left, or not even that; at most one token is deleted.
Finishes(m, r) ==
  LET v == work'[m][r] IN
  /\ v.pc \in {"idle", "status"} /\ v.obs = "none" /\ v.cr.phase = "live"
  /\ mr'[m].create = mr[m].create
  /\ users' = users
  /\ tokens' = tokens \/ \E j \in Id : Removes(j)

HandlerMove(m, r) == Observes(m, r) \/ Mints(m, r) \/ Finishes(m, r)

\* What the handlers do keeps the types and the frame, and is one of these
\* moves.
LEMMA HandlerStepEffect ==
  ASSUME TypeOK, SameUser, NEW m \in MR, NEW r \in Replica, HandlerStep(m, r)
  PROVE  TypeOK' /\ Framed(m, r) /\ HandlerMove(m, r)
<1> DEFINE w == work[m][r]
           v == work'[m][r]
           k == Lookup(w.cr)
           Goal == TypeOK' /\ Framed(m, r) /\ HandlerMove(m, r)
<1>1. RuntimeTypeOK /\ AccountTypeOK /\ w \in Work /\ mr[m] \in Object /\ w.cr \in Object
  BY TypeOKIs DEF RuntimeTypeOK, Work
<1>2. ASSUME NEW x \in Work, Go(m, r, x)
      PROVE  RuntimeTypeOK' /\ Framed(m, r) /\ v = x /\ mr' = mr
  BY <1>1, <1>2, GoFramed, GoEffect
<1>3. IsId(k) => k \in Id
  BY <1>1, LookupType
<1>4. UNCHANGED others => AccountTypeOK'
  BY <1>1 DEF others, netbird, AccountTypeOK
<1>5. ASSUME NEW u PROVE Under(k, u) => k \in Id
  BY DEF Under
<1>6. ASSUME NEW j \in Id PROVE [tokens EXCEPT ![j].state = "deleted"] \in [Id -> Token]
  BY <1>1 DEF AccountTypeOK, Token
<1>7. ASSUME v = Close(w), mr' = mr, users' = users,
             tokens' = tokens \/ \E j \in Id : Removes(j)
      PROVE  HandlerMove(m, r)
  BY <1>1, <1>7, CloseFields DEF HandlerMove, Finishes
\* An observation that changes nothing at NetBird.
<1>8. ASSUME NEW x \in Work, Go(m, r, x), UNCHANGED others,
             w.pc \in {"observe", "list"},
             x.cr.phase = w.cr.phase, x.cr.fin <=> w.cr.fin, x.stale <=> w.stale,
             x.pc = "act",
             \/ x.obs = "uptodate"
             \/ x.obs = "missing" /\ (TokensHaveUsers => NoToken(m))
             \/ x.obs = "outdated" /\ x.cr.ext \in Id /\ tokens[x.cr.ext].state = "dead"
      PROVE  Goal
  <2>1. RuntimeTypeOK' /\ Framed(m, r) /\ v = x /\ mr' = mr
    BY <1>2, <1>8
  <2>2. TypeOK'
    BY <1>4, <1>8, <2>1, TypeOKIs DEF TypeOK, AccountTypeOK
  <2>3. Observes(m, r)
    BY <1>8, <2>1 DEF Observes, others, netbird
  <2>4. QED
    BY <2>1, <2>2, <2>3 DEF HandlerMove
<1>9. /\ \A u, t \in User : u = t
      /\ users \cap Service = {} => users = {}
      /\ users # {} => /\ users \cap Service # {} /\ users = User
                       /\ Observed \in User /\ Rotated \in User /\ Chosen \in User
  BY <1>1, TheUser DEF AccountTypeOK
<1>a. CASE ObserveNoUser(m, r)
  <2> DEFINE x == [w EXCEPT !.pc = "act", !.obs = "missing"]
  <2>1. x \in Work /\ x.pc = "act" /\ x.obs = "missing" /\ x.cr = w.cr /\ (x.stale <=> w.stale)
    BY <1>1 DEF Work, PC
  <2>2. TokensHaveUsers => NoToken(m)
    BY <1>9, <1>a DEF ObserveNoUser, TokensHaveUsers, NoToken
  <2>3. Go(m, r, x) /\ UNCHANGED others /\ w.pc = "observe"
    BY <1>a DEF ObserveNoUser, others
  <2>4. QED
    BY <1>8, <2>1, <2>2, <2>3
<1>b. CASE ObserveValid(m, r)
  <2> DEFINE x == [w EXCEPT !.pc = "act", !.obs = "uptodate", !.cr.ext = k, !.cr.sid = k]
  <2>1. k \in Id /\ Go(m, r, x) /\ UNCHANGED others /\ w.pc = "observe"
    BY <1>5, <1>b DEF ObserveValid, others
  <2>2. /\ x \in Work /\ x.pc = "act" /\ x.obs = "uptodate"
        /\ x.cr.phase = w.cr.phase /\ (x.cr.fin <=> w.cr.fin) /\ (x.stale <=> w.stale)
    BY <1>1, <2>1 DEF Work, PC, Object, ExtName, StatusId
  <2>3. QED
    BY <1>8, <2>1, <2>2
<1>c. CASE ObserveDead(m, r)
  <2> DEFINE x == [w EXCEPT !.pc = "act", !.obs = "outdated", !.cr.ext = k]
  <2>1. k \in Id /\ Go(m, r, x) /\ UNCHANGED others /\ w.pc = "observe"
    BY <1>5, <1>c DEF ObserveDead, others
  <2>2. /\ x \in Work /\ x.pc = "act" /\ x.obs = "outdated" /\ x.cr.ext = k
        /\ x.cr.phase = w.cr.phase /\ (x.cr.fin <=> w.cr.fin) /\ (x.stale <=> w.stale)
    BY <1>1, <2>1 DEF Work, PC, Object, ExtName
  <2>3. tokens[k].state = "dead"
    BY <1>c DEF ObserveDead, Under, Listed, Valid
  <2>4. QED
    BY <1>8, <2>1, <2>2, <2>3
<1>d. CASE ObserveNotFound(m, r)
  <2> DEFINE x == [w EXCEPT !.pc = "list"]
  <2>1. /\ x \in Work /\ x.pc = "list" /\ x.obs = w.obs
        /\ x.cr = w.cr /\ (x.stale <=> w.stale)
    BY <1>1 DEF Work, PC
  <2>2. RuntimeTypeOK' /\ Framed(m, r) /\ v = x /\ mr' = mr
    BY <1>d, <1>2, <2>1 DEF ObserveNotFound
  <2>3. AccountTypeOK'
    BY <1>1, <1>9, <1>d DEF ObserveNotFound, netbird, AccountTypeOK
  <2>4. Observes(m, r)
    BY <1>d, <2>1, <2>2 DEF ObserveNotFound, Observes
  <2>5. QED
    BY <2>2, <2>3, <2>4 DEF TypeOK, AccountTypeOK, HandlerMove
<1>e. CASE Adopt(m, r)
  <2>1. PICK j \in Id : Go(m, r, Adopted(w, j))
    BY <1>e DEF Adopt
  <2>2. Adopted(w, j) \in Work
    BY <1>1, AdoptedType
  <2>3. /\ Adopted(w, j).pc = "act" /\ Adopted(w, j).obs = "uptodate"
        /\ Adopted(w, j).cr.phase = w.cr.phase /\ (Adopted(w, j).cr.fin <=> w.cr.fin)
        /\ (Adopted(w, j).stale <=> w.stale)
    BY <1>1 DEF Adopted, Work, Object
  <2>4. UNCHANGED others /\ w.pc \in {"observe", "list"}
    BY <1>e DEF Adopt, Listing, others
  <2>5. QED
    BY <1>8, <2>1, <2>2, <2>3, <2>4
<1>f. CASE ObserveMissing(m, r)
  <2> DEFINE x == [w EXCEPT !.pc = "act", !.obs = "missing"]
  <2>1. x \in Work /\ x.pc = "act" /\ x.obs = "missing" /\ x.cr = w.cr /\ (x.stale <=> w.stale)
    BY <1>1 DEF Work, PC
  <2>2. Go(m, r, x) /\ UNCHANGED others /\ w.pc \in {"observe", "list"}
    BY <1>f DEF ObserveMissing, Listing, others
  <2>3. NoToken(m)
    <3>1. Lister(m, r) \in User /\ \A j \in Id : ~Adoptable(j, m, r)
      BY <1>1, <1>f DEF ObserveMissing, AccountTypeOK
    <3>2. \A j \in Id : tokens[j].user = Lister(m, r)
      BY <1>1, <1>9, <3>1 DEF AccountTypeOK, Token
    <3>3. QED
      BY <3>1, <3>2 DEF Adoptable, Under, NoToken
  <2>4. QED
    BY <1>8, <2>1, <2>2, <2>3
<1>g. ASSUME NEW heard \in BOOLEAN, Create(m, r, heard) PROVE Goal
  <2>1. PICK j \in Id :
          /\ tokens[j].state = "unborn"
          /\ tokens' = [tokens EXCEPT ![j] = [state |-> "valid", user |-> Chosen, of |-> m]]
          /\ Go(m, r, IF heard
                        THEN [w EXCEPT !.pc = "annotate", !.cr.ext = j,
                                       !.cr.create = "succeeded"]
                        ELSE [w EXCEPT !.pc = "annotate", !.cr.create = "failed"])
          /\ w.pc = "create" /\ users # {}
          /\ UNCHANGED <<users, subject, secret>>
    BY <1>g DEF Create
  <2> DEFINE x == [w EXCEPT !.pc = "annotate", !.cr.ext = j, !.cr.create = "succeeded"]
             y == [w EXCEPT !.pc = "annotate", !.cr.create = "failed"]
  <2>2. /\ x \in Work /\ x.pc = "annotate" /\ x.obs = w.obs
        /\ x.cr.phase = w.cr.phase /\ x.cr.create = "succeeded" /\ x.cr.ext = j
        /\ y \in Work /\ y.pc = "annotate" /\ y.obs = w.obs
        /\ y.cr.phase = w.cr.phase /\ y.cr.create = "failed"
    BY <1>1 DEF Work, PC, Object, ExtName
  <2>3. RuntimeTypeOK' /\ Framed(m, r) /\ (v = x \/ v = y) /\ mr' = mr
    BY <1>2, <2>1, <2>2
  <2>4. Chosen \in users /\ Chosen \in User
    BY <1>9, <2>1
  <2>5. AccountTypeOK'
    BY <1>1, <2>1, <2>4 DEF AccountTypeOK, Token
  <2>6. Mints(m, r)
    <3>1. /\ v.pc = "annotate" /\ v.obs = w.obs /\ v.cr.phase = w.cr.phase
          /\ v.cr.create # "pending" /\ (v.cr.create = "succeeded" => v.cr.ext = j)
      BY <2>2, <2>3
    <3>2. PICK u \in users : u = Chosen
      BY <2>4
    <3>3. QED
      BY <2>1, <2>3, <3>1, <3>2 DEF Mints
  <2>7. QED
    BY <2>3, <2>5, <2>6 DEF TypeOK, AccountTypeOK, HandlerMove
<1>h. ASSUME NEW heard \in BOOLEAN, Update(m, r, heard) PROVE Goal
  <2> DEFINE x == IF heard THEN [w EXCEPT !.cr.ext = NoId, !.cr.sid = NoId] ELSE w
  <2>1. x \in Work
    <3>1. [w EXCEPT !.cr.ext = NoId, !.cr.sid = NoId] \in Work
      BY <1>1 DEF Work, Object, ExtName, StatusId, Hints
    <3>2. QED
      BY <1>1, <3>1
  <2>2. RuntimeTypeOK' /\ Framed(m, r) /\ v = Close(x) /\ mr' = mr
    BY <1>h, <1>2, <2>1, WorkTypes DEF Update
  <2>3. k \in Id /\ Removes(k) /\ tokens' \in [Id -> Token] /\ UNCHANGED <<users, subject, secret>>
    BY <1>h, <1>5, <1>6 DEF Update, Removes, Under
  <2>4. HandlerMove(m, r)
    BY <1>1, <2>1, <2>2, <2>3, CloseFields DEF HandlerMove, Finishes
  <2>5. QED
    BY <1>1, <2>2, <2>3, <2>4 DEF TypeOK, AccountTypeOK
<1>i. CASE Publish(m, r)
  <2>1. /\ RuntimeTypeOK' /\ Framed(m, r) /\ v = Close(w) /\ mr' = mr
        /\ secret' = [secret EXCEPT ![m] = w.cr.ext]
        /\ UNCHANGED <<users, tokens, subject>>
    BY <1>i, <1>1, <1>2, WorkTypes DEF Publish, netbird
  <2>2. w.cr.ext \in ExtName
    BY <1>1 DEF Object
  <2>3. QED
    BY <1>1, <1>7, <2>1, <2>2 DEF TypeOK, AccountTypeOK
<1>j. CASE Delete(m, r)
  <2>1. RuntimeTypeOK' /\ Framed(m, r) /\ v = Close(w) /\ mr' = mr
    BY <1>j, <1>1, <1>2, WorkTypes DEF Delete
  <2>2. k \in Id /\ Removes(k) /\ tokens' \in [Id -> Token] /\ UNCHANGED <<users, subject, secret>>
    BY <1>j, <1>5, <1>6 DEF Delete, Removes, Under
  <2>3. QED
    BY <1>1, <1>7, <2>1, <2>2 DEF TypeOK, AccountTypeOK
<1>k. CASE Dispose(m, r)
  <2> DEFINE o == [mr[m] EXCEPT !.phase = "gone", !.fin = FALSE]
  <2>1. o \in Object /\ o.phase = "gone" /\ o.create = mr[m].create
    BY <1>1 DEF Object
  <2>2. RuntimeTypeOK' /\ Framed(m, r) /\ v = Idle /\ mr' = [mr EXCEPT ![m] = o]
    <3>1. Commit(m, r, o, Idle)
      BY <1>k DEF Dispose, Release
    <3>2. RuntimeTypeOK' /\ Framed(m, r)
      BY <1>1, <2>1, <3>1, CommitFramed, WorkTypes
    <3>3. QED
      BY <1>1, <2>1, <3>1, <3>2, CommitEffect, WorkTypes
  <2>3. mr'[m].create = mr[m].create
    BY <2>1, <2>2 DEF TypeOK, RuntimeTypeOK
  <2>4. AccountTypeOK' /\ UNCHANGED <<users, tokens>>
    BY <1>1, <1>k DEF Dispose, netbird, AccountTypeOK, ExtName, Hints
  <2>5. QED
    BY <1>1, <2>2, <2>3, <2>4, CloseFields
    DEF TypeOK, AccountTypeOK, HandlerMove, Finishes
<1>l. CASE UnpublishOnly(m, r)
  <2>1. AccountTypeOK' /\ UNCHANGED <<users, tokens>>
    BY <1>1, <1>l DEF UnpublishOnly, netbird, AccountTypeOK, ExtName, Hints
  <2>2. RuntimeTypeOK' /\ Framed(m, r) /\ v = Close(w) /\ mr' = mr
    BY <1>l, <1>1, <1>2, WorkTypes DEF UnpublishOnly, StepFails
  <2>3. QED
    BY <1>7, <2>1, <2>2 DEF TypeOK, AccountTypeOK
<1>m. QED
  BY <1>a, <1>b, <1>c, <1>d, <1>e, <1>f, <1>g, <1>h, <1>i, <1>j, <1>k, <1>l DEF HandlerStep

\* Users, operators and the clock keep the types as well, and none of them makes a
\* token appear.
LEMMA WorldStepType ==
  ASSUME TypeOK,
         \/ \E m \in MR : UserDeletes(m)
         \/ \E m \in MR : ClearPending(m) /\ UNCHANGED others
         \/ \E k \in Id : Expire(k) \/ Vanish(k)
         \/ \E u \in User : Leave(u)
  PROVE  TypeOK'
<1>1. RuntimeTypeOK /\ AccountTypeOK
  BY TypeOKIs
<1>2. PICK r : r \notin Replica
  BY NoSetContainsEverything
<1>3. ASSUME NEW m \in MR, UserDeletes(m) PROVE TypeOK'
  <2>1. RuntimeTypeOK'
    BY <1>1, <1>2, <1>3, UserMoves DEF UserDeletes
  <2>2. AccountTypeOK'
    BY <1>1, <1>3 DEF UserDeletes, netbird, AccountTypeOK, ExtName, Hints
  <2>3. QED
    BY <2>1, <2>2 DEF TypeOK, AccountTypeOK
<1>4. ASSUME NEW m \in MR, ClearPending(m), UNCHANGED others PROVE TypeOK'
  <2>1. RuntimeTypeOK'
    BY <1>1, <1>2, <1>4, UserMoves
  <2>2. QED
    BY <1>1, <1>4, <2>1 DEF others, netbird, TypeOK, AccountTypeOK
<1>5. ASSUME NEW k \in Id, Expire(k) \/ Vanish(k) PROVE TypeOK'
  <2>1. tokens' \in [Id -> Token] /\ UNCHANGED <<runtimeVars, users, subject, secret>>
    BY <1>1, <1>5 DEF Expire, Vanish, AccountTypeOK, Token
  <2>2. QED
    BY <1>1, <2>1 DEF runtimeVars, RuntimeTypeOK, TypeOK, AccountTypeOK
<1>6. ASSUME NEW u \in User, Leave(u) PROVE TypeOK'
  <2>1. /\ tokens' \in [Id -> Token] /\ users' \in SUBSET User
        /\ UNCHANGED <<runtimeVars, subject, secret>>
    BY <1>1, <1>6 DEF Leave, AccountTypeOK, Token
  <2>2. QED
    BY <1>1, <2>1 DEF runtimeVars, RuntimeTypeOK, TypeOK, AccountTypeOK
<1>7. QED
  BY <1>3, <1>4, <1>5, <1>6

\* The declared types hold in every reachable state.
THEOREM TypeCorrect ==
  ASSUME SameUser
  PROVE  Spec => []TypeOK
<1>1. Init => TypeOK
  <2> SUFFICES ASSUME Init PROVE TypeOK
    OBVIOUS
  <2>1. PICK born \in SUBSET Imported, m \in MR, u \in User :
          /\ RuntimeInit(born)
          /\ users = User
          /\ tokens = [k \in Id |->
                         [state |-> IF k \in born THEN "valid" ELSE "unborn",
                          user |-> u, of |-> m]]
          /\ subject = [l \in MR |-> [r \in Replica |-> u]]
          /\ secret = [l \in MR |-> NoId]
    BY DEF Init
  <2>2. RuntimeTypeOK
    BY <2>1, BoundsAssumption, RuntimeInitTypes
  <2>3. AccountTypeOK
    BY <2>1 DEF AccountTypeOK, Token, ExtName, Hints
  <2>4. QED
    BY <2>2, <2>3, TypeOKIs
<1>2. TypeOK /\ [Next]_vars => TypeOK'
  <2> SUFFICES ASSUME TypeOK, [Next]_vars PROVE TypeOK'
    OBVIOUS
  <2>1. ASSUME NEW m \in MR, NEW r \in Replica, RuntimeStep(m, r), UNCHANGED others
        PROVE  TypeOK'
    BY <2>1, RuntimeStepEffect DEF TypeOK, others, netbird
  <2>2. ASSUME NEW m \in MR, NEW r \in Replica, HandlerStep(m, r) PROVE TypeOK'
    BY <2>2, HandlerStepEffect
  <2>3. CASE UNCHANGED vars
    BY <2>3 DEF vars, runtimeVars, TypeOK, RuntimeTypeOK
  <2>4. QED
    BY <2>1, <2>2, <2>3, WorldStepType DEF Next
<1>3. QED
  BY <1>1, <1>2, PTL DEF Spec

-----------------------------------------------------------------------------
(* What becomes of tokens *)

\* No token appears, and none gets better.
Withers ==
  \A k \in Id :
    /\ tokens'[k].of = tokens[k].of /\ tokens'[k].user = tokens[k].user
    /\ \/ tokens'[k].state = tokens[k].state
       \/ Listed(k) /\ tokens'[k].state = "deleted"
       \/ Valid(k) /\ tokens'[k].state = "dead"

\* What the world does to the account.
Meddles == \/ \E k \in Id : Expire(k) \/ Vanish(k)
           \/ \E u \in User : Leave(u)

LEMMA TurnWithers ==
  ASSUME TypeOK, NEW j \in Id, NEW x, tokens' = [tokens EXCEPT ![j].state = x],
         (Listed(j) /\ x = "deleted") \/ (Valid(j) /\ x = "dead")
  PROVE  Withers
<1>1. \A k \in Id : tokens[k] \in Token
  BY DEF TypeOK
<1>2. tokens' = [tokens EXCEPT ![j] = [tokens[j] EXCEPT !.state = x]]
  OBVIOUS
<1>3. /\ tokens'[j] = [tokens[j] EXCEPT !.state = x]
      /\ \A k \in Id : k # j => tokens'[k] = tokens[k]
  BY <1>2 DEF TypeOK
<1>4. QED
  BY <1>1, <1>3 DEF Withers, Token

LEMMA WitherMoves ==
  ASSUME TypeOK, Meddles \/ tokens' = tokens \/ \E j \in Id : Removes(j)
  PROVE  Withers
<1>1. CASE tokens' = tokens
  BY <1>1 DEF Withers
<1>2. ASSUME NEW k \in Id, Expire(k) \/ Vanish(k) \/ Removes(k) PROVE Withers
  <2>1. PICK x : /\ tokens' = [tokens EXCEPT ![k].state = x]
                 /\ (Listed(k) /\ x = "deleted") \/ (Valid(k) /\ x = "dead")
    BY <1>2 DEF Expire, Vanish, Removes
  <2>2. QED
    BY <2>1, TurnWithers
<1>3. ASSUME NEW u \in User, Leave(u) PROVE Withers
  <2> SUFFICES ASSUME NEW k \in Id
               PROVE  /\ tokens'[k].of = tokens[k].of /\ tokens'[k].user = tokens[k].user
                      /\ \/ tokens'[k].state = tokens[k].state
                         \/ Listed(k) /\ tokens'[k].state = "deleted"
    BY DEF Withers
  <2>1. tokens[k] \in Token
    BY DEF TypeOK
  <2>2. CASE Under(k, u)
    <3>1. tokens'[k] = [tokens[k] EXCEPT !.state = "deleted"]
      BY <1>3, <2>2 DEF Leave
    <3>2. QED
      BY <2>1, <2>2, <3>1 DEF Under, Token
  <2>3. CASE ~Under(k, u)
    <3>1. tokens'[k] = tokens[k]
      BY <1>3, <2>3 DEF Leave
    <3>2. QED
      BY <3>1
  <2>4. QED
    BY <2>2, <2>3
<1>4. QED
  BY <1>1, <1>2, <1>3 DEF Meddles

LEMMA MeddlingEffect ==
  ASSUME Meddles
  PROVE  mr' = mr /\ cache' = cache /\ work' = work /\ secret' = secret
BY DEF Meddles, Expire, Vanish, Leave, runtimeVars

\* The handlers make tokens wither or mint one.
LEMMA HandlerMoves ==
  ASSUME TypeOK, NEW m \in MR, NEW r \in Replica, HandlerMove(m, r)
  PROVE  Withers \/ Mints(m, r)
BY WitherMoves DEF HandlerMove, Observes, Finishes, netbird

\* A token that exists keeps its names, and only gets worse.
TokensAge ==
  \A k \in Id : tokens[k].state # "unborn" =>
    /\ tokens'[k].state # "unborn"
    /\ tokens'[k].of = tokens[k].of
    /\ Valid(k)' => Valid(k)
    /\ tokens[k].state \in {"dead", "deleted"} => tokens'[k].state \in {"dead", "deleted"}

LEMMA MovesAge ==
  ASSUME TypeOK, Withers \/ \E m \in MR, r \in Replica : Mints(m, r)
  PROVE  TokensAge
<1>1. CASE Withers
  BY <1>1 DEF Withers, Listed, Valid, TokensAge, TypeOK, Token
<1>2. CASE \E m \in MR, r \in Replica : Mints(m, r)
  BY <1>2 DEF Mints, Valid, TokensAge, TypeOK, Token
<1>3. QED
  BY <1>1, <1>2

\* No token of l appears.
NoneAppears(l) == NoToken(l) => NoToken(l)'

LEMMA WitherNone ==
  ASSUME Withers, NEW l \in MR PROVE NoneAppears(l)
BY DEF Withers, NoneAppears, NoToken, Listed, Valid

LEMMA MintNone ==
  ASSUME TypeOK, NEW m \in MR, NEW r \in Replica, Mints(m, r), NEW l \in MR, l # m
  PROVE  NoneAppears(l)
BY DEF Mints, NoneAppears, NoToken, Listed, TypeOK, Token

\* Users and operators, as a step of no worker at all.
LEMMA UserStepFramed ==
  ASSUME TypeOK, NEW m \in MR, UserDeletes(m) \/ (ClearPending(m) /\ UNCHANGED others),
         NEW r, r \notin Replica
  PROVE  /\ Framed(m, r) /\ UserMove(m) /\ mr'[m].ext = mr[m].ext
         /\ UNCHANGED netbird /\ Withers
         /\ \A l \in MR : l # m => secret'[l] = secret[l]
         /\ secret'[m] \in {NoId, secret[m]}
<1>1. Framed(m, r) /\ UserMove(m)
  BY UserMoves DEF TypeOK, UserDeletes
<1>2. mr'[m].ext = mr[m].ext
  BY DEF UserDeletes, RequestDelete, ClearPending, Edit, TypeOK, RuntimeTypeOK, Object
<1>3. UNCHANGED netbird /\ Withers
  BY WitherMoves DEF UserDeletes, others, netbird
<1>4. /\ \A l \in MR : l # m => secret'[l] = secret[l]
      /\ secret'[m] \in {NoId, secret[m]}
  BY DEF UserDeletes, others, TypeOK
<1>5. QED
  BY <1>1, <1>2, <1>3, <1>4

-----------------------------------------------------------------------------
(* A rotation hits only tokens that can no longer be used *)

\* DeletionIsReal and OutdatedIsDead, for worker state v of m.
Grounded(m, v) ==
  /\ v.cr.phase # "live" => mr[m].phase # "live"
  /\ v.pc = "update" => v.obs = "outdated"
  /\ v.obs = "outdated" =>
       /\ v.pc \in {"act", "update"}
       /\ v.cr.ext \in Id /\ tokens[v.cr.ext].state \in {"dead", "deleted"}

GroundInv ==
  /\ \A m \in MR, r \in Replica : cache[m][r].phase # "live" => mr[m].phase # "live"
  /\ \A m \in MR, r \in Replica : Grounded(m, work[m][r])

LEMMA GroundInvIs == GroundInv <=> DeletionIsReal /\ OutdatedIsDead
BY DEF GroundInv, Grounded, DeletionIsReal, OutdatedIsDead

\* It is enough to look at the worker that moves.
LEMMA GroundedByOne ==
  ASSUME GroundInv, TokensAge, NEW m \in MR, NEW r, Framed(m, r),
         r \in Replica => Grounded(m, work[m][r])'
  PROVE  GroundInv'
<1>1. ASSUME NEW l \in MR, NEW s \in Replica
      PROVE  cache'[l][s].phase # "live" => mr'[l].phase # "live"
  BY DEF Framed, GroundInv
<1>2. ASSUME NEW l \in MR, NEW s \in Replica, l # m \/ s # r
      PROVE  Grounded(l, work[l][s])'
  <2>1. Grounded(l, work[l][s]) /\ Overtaken(work'[l][s], work[l][s], mr'[l] # mr[l])
    BY <1>2 DEF Framed, GroundInv
  <2>2. mr[l].phase # "live" => mr'[l].phase # "live"
    BY DEF Framed
  <2>3. QED
    BY <2>1, <2>2 DEF Overtaken, Grounded, TokensAge
<1>3. QED
  BY <1>1, <1>2 DEF GroundInv

\* A worker about to rotate holds an expired or deleted token, and a worker that sees
\* a deletion sees a real one.
THEOREM RotationIsGrounded ==
  ASSUME SameUser
  PROVE  Spec => [](DeletionIsReal /\ OutdatedIsDead)
<1>1. Init => GroundInv
  BY DEF Init, RuntimeInit, Idle, Fresh, GroundInv, Grounded
<1>2. TypeOK /\ GroundInv /\ [Next]_vars => GroundInv'
  <2> SUFFICES ASSUME TypeOK, GroundInv, [Next]_vars PROVE GroundInv'
    OBVIOUS
  <2>1. PICK none : none \notin Replica
    BY NoSetContainsEverything
  <2>2. ASSUME NEW m \in MR, NEW r \in Replica, RuntimeStep(m, r), UNCHANGED others
        PROVE  GroundInv'
    <3>1. Framed(m, r) /\ RuntimeMove(m, r)
      BY <2>2, RuntimeStepEffect DEF TypeOK
    <3>2. TokensAge /\ tokens' = tokens
      BY <2>2, WitherMoves, MovesAge DEF others, netbird
    <3>3. Grounded(m, work[m][r]) /\ (cache[m][r].phase # "live" => mr[m].phase # "live")
      BY DEF GroundInv
    <3>4. Grounded(m, work[m][r])'
      BY <3>1, <3>2, <3>3
      DEF Framed, RuntimeMove, Ends, Starts, Advances, Creates, Grounded
    <3>5. QED
      BY <3>1, <3>2, <3>4, GroundedByOne
  <2>3. ASSUME NEW m \in MR, NEW r \in Replica, HandlerStep(m, r) PROVE GroundInv'
    <3>1. Framed(m, r) /\ HandlerMove(m, r)
      BY <2>3, HandlerStepEffect
    <3>2. TokensAge
      BY <3>1, HandlerMoves, MovesAge
    <3>3. Grounded(m, work[m][r])
      BY DEF GroundInv
    <3>4. Grounded(m, work[m][r])'
      BY <3>1, <3>3 DEF Framed, HandlerMove, Observes, Mints, Finishes, netbird, Grounded
    <3>5. QED
      BY <3>1, <3>2, <3>4, GroundedByOne
  <2>4. ASSUME NEW m \in MR, UserDeletes(m) \/ (ClearPending(m) /\ UNCHANGED others)
        PROVE  GroundInv'
    BY <2>1, <2>4, UserStepFramed, MovesAge, GroundedByOne
  <2>5. CASE Meddles
    <3>1. TokensAge /\ mr' = mr /\ cache' = cache /\ work' = work
      BY <2>5, WitherMoves, MovesAge, MeddlingEffect
    <3>2. QED
      BY <3>1 DEF GroundInv, Grounded, TokensAge
  <2>6. CASE UNCHANGED vars
    BY <2>6 DEF vars, runtimeVars, GroundInv, Grounded
  <2>7. QED
    BY <2>2, <2>3, <2>4, <2>5, <2>6 DEF Next, Meddles
<1>3. QED
  BY <1>1, <1>2, TypeCorrect, GroundInvIs, PTL DEF Spec

\* Whatever is lost on the way, a handler never destroys a usable token of a resource
\* nobody deleted.
THEOREM RotationIsSafe ==
  ASSUME SameUser
  PROVE  Spec => ValidTokenDiesOnlyWithItsResource
<1> DEFINE Step == \A m \in MR, r \in Replica :
                     work'[m][r] # work[m][r] /\ mr[m].phase = "live"
                       => \A k \in Id : Valid(k) => tokens'[k].state # "deleted"
<1>1. TypeOK /\ GroundInv /\ [Next]_vars => Step
  <2> SUFFICES ASSUME TypeOK, GroundInv, [Next]_vars PROVE Step
    OBVIOUS
  <2>1. CASE tokens' = tokens \/ work' = work
    BY <2>1 DEF Valid
  <2>2. ASSUME NEW m \in MR, NEW r \in Replica, HandlerStep(m, r), tokens' # tokens
        PROVE  Step
    <3> DEFINE w == work[m][r]
               k == Lookup(w.cr)
    <3>1. w \in Work /\ RuntimeTypeOK /\ Grounded(m, w)
      BY DEF TypeOK, RuntimeTypeOK, GroundInv
    <3>2. ASSUME NEW heard \in BOOLEAN, Create(m, r, heard) PROVE Step
      BY <3>2 DEF Create, Valid, TypeOK, Token
    <3>3. ASSUME NEW heard \in BOOLEAN, Update(m, r, heard) PROVE Step
      <4>1. tokens' = [tokens EXCEPT ![k].state = "deleted"]
        BY <3>3 DEF Update
      <4>2. k = w.cr.ext /\ ~Valid(k)
        BY <3>1, <3>3, IdentityAssumption DEF Update, Grounded, Lookup, Valid
      <4>3. QED
        BY <4>1, <4>2 DEF Valid, TypeOK, Token
    <3>4. CASE Delete(m, r)
      <4>1. mr[m].phase # "live"
        BY <3>1, <3>4 DEF Delete, Grounded
      <4>2. Close(w) \in Work /\ Go(m, r, Close(w))
        BY <3>1, <3>4, WorkTypes DEF Delete
      <4>3. \A l \in MR, s \in Replica : l # m \/ s # r => work'[l][s] = work[l][s]
        BY <3>1, <4>2, GoEffect
      <4>4. QED
        BY <4>1, <4>3
    <3>5. QED
      BY <2>2, <3>2, <3>3, <3>4
      DEF HandlerStep, ObserveNoUser, ObserveValid, ObserveDead, ObserveNotFound, Adopt,
          ObserveMissing, Publish, Dispose, UnpublishOnly, netbird
  <2>3. CASE Meddles
    BY <2>1, <2>3, MeddlingEffect
  <2>4. QED
    BY <2>1, <2>2, <2>3 DEF Next, Meddles, UserDeletes, others, netbird, vars
<1>2. Spec => [][Step]_vars
  BY <1>1, TypeCorrect, RotationIsGrounded, GroundInvIs, PTL DEF Spec
<1>3. QED
  BY <1>2 DEF ValidTokenDiesOnlyWithItsResource

-----------------------------------------------------------------------------
(* A pending annotation fences off every other create of its resource *)

\* No token survives its user.
THEOREM TokensGoWithUsers ==
  ASSUME SameUser
  PROVE  Spec => []TokensHaveUsers
<1>1. Init => TokensHaveUsers
  BY DEF Init, TokensHaveUsers
<1>2. TypeOK /\ TokensHaveUsers /\ [Next]_vars => TokensHaveUsers'
  <2> SUFFICES ASSUME TypeOK, TokensHaveUsers, [Next]_vars PROVE TokensHaveUsers'
    OBVIOUS
  <2>1. CASE Withers /\ users' = users
    BY <2>1 DEF Withers, TokensHaveUsers, Listed, Valid
  <2>2. ASSUME NEW m \in MR, NEW r \in Replica, Mints(m, r) PROVE TokensHaveUsers'
    BY <2>2 DEF Mints, TokensHaveUsers, Listed, TypeOK, Token
  <2>3. ASSUME NEW m \in MR, NEW r \in Replica, HandlerStep(m, r) PROVE TokensHaveUsers'
    <3>1. HandlerMove(m, r)
      BY <2>3, HandlerStepEffect
    <3>2. Mints(m, r) \/ (Withers /\ users' = users)
      BY <3>1, WitherMoves DEF HandlerMove, Observes, Finishes, netbird
    <3>3. QED
      BY <2>1, <2>2, <3>2
  <2>4. ASSUME NEW u \in User, Leave(u) PROVE TokensHaveUsers'
    <3>1. ASSUME NEW k \in Id, Listed(k)' PROVE tokens'[k].user \in users'
      <4>1. Withers /\ tokens[k] \in Token
        BY <2>4, WitherMoves DEF Meddles, TypeOK
      <4>2. Listed(k) /\ tokens'[k].user = tokens[k].user
        BY <3>1, <4>1 DEF Withers, Listed, Valid
      <4>3. ~Under(k, u)
        BY <2>4, <3>1, <4>1 DEF Leave, Listed, Token
      <4>4. QED
        BY <2>4, <4>2, <4>3 DEF Leave, Under, TokensHaveUsers
    <3>2. QED
      BY <3>1 DEF TokensHaveUsers
  <2>5. ASSUME NEW k \in Id, Expire(k) \/ Vanish(k) PROVE TokensHaveUsers'
    BY <2>1, <2>5, WitherMoves DEF Meddles, Expire, Vanish
  <2>6. CASE tokens' = tokens /\ users' = users
    BY <2>1, <2>6, WitherMoves
  <2>7. QED
    BY <2>3, <2>4, <2>5, <2>6 DEF Next, UserDeletes, others, netbird, vars
<1>3. QED
  BY <1>1, <1>2, TypeCorrect, PTL DEF Spec

\* The resources that have no token.
Void == {m \in MR : NoToken(m)}

FenceInv == Fence(Void)

LEMMA FenceInvIs == FenceInv <=> MissingIsMissing /\ PendingFences
BY DEF FenceInv, Void, Fence, Fenced, Sole, Early, Minting, MissingIsMissing, PendingFences

\* Resources have no token after a step that have none before it.
LEMMA VoidStays ==
  ASSUME \A l \in MR : NoneAppears(l)
  PROVE  Void \subseteq Void' /\ (FenceAfter(Void') => FenceInv')
BY DEF NoneAppears, Void, FenceInv, Fence, FenceAfter

LEMMA HandlerStepFenced ==
  ASSUME TypeOK, SameUser, TokensHaveUsers, FenceInv, NEW m \in MR, NEW r \in Replica,
         HandlerStep(m, r)
  PROVE  FenceInv'
<1> DEFINE v == work'[m][r]
<1>1. Framed(m, r) /\ HandlerMove(m, r)
  BY HandlerStepEffect
<1>2. FenceAfter(Void') => FenceInv'
  BY DEF Void, FenceInv, Fence, FenceAfter
<1>3. CASE Mints(m, r)
  <2>1. Makes(m, r)
    BY <1>3 DEF Mints, Makes
  <2>2. Void \ Void' \subseteq {m}
    BY <1>3, MintNone DEF NoneAppears, Void
  <2>3. QED
    BY <1>1, <1>2, <2>1, <2>2, MakingFenced DEF FenceInv
<1>4. CASE Observes(m, r) \/ Finishes(m, r)
  <2>1. Void \subseteq Void' /\ (NoToken(m) => m \in Void')
    <3>1. ~Mints(m, r)
      BY <1>4 DEF Observes, Finishes, Mints
    <3>2. \A l \in MR : NoneAppears(l)
      BY <1>1, <3>1, HandlerMoves, WitherNone
    <3>3. QED
      BY <3>2, VoidStays DEF NoneAppears, Void
  <2>2. /\ mr'[m].create = mr[m].create
        /\ v.pc \in Minting => work[m][r].pc \in Minting
    BY <1>4 DEF Observes, Finishes, Minting
  <2>3. Fenced(mr'[m], v, m \in Void')
    <3>1. Fenced(mr[m], work[m][r], m \in Void)
      BY DEF FenceInv, Fence
    <3>2. CASE Observes(m, r)
      <4>1. (v.obs = "missing" => NoToken(m)) \/ v.pc # "act"
        BY <3>2 DEF Observes
      <4>2. QED
        BY <2>1, <3>1, <3>2, <4>1 DEF Observes, Fenced, Early, Minting
    <3>3. CASE Finishes(m, r)
      BY <3>3 DEF Finishes, Fenced, Early, Minting
    <3>4. QED
      BY <1>4, <3>2, <3>3
  <2>4. QED
    BY <1>1, <1>2, <2>1, <2>2, <2>3, QuietStepFenced DEF FenceInv
<1>5. QED
  BY <1>1, <1>3, <1>4 DEF HandlerMove

LEMMA WorldStepFenced ==
  ASSUME TypeOK, FenceInv,
         \/ \E m \in MR : UserDeletes(m) \/ (ClearPending(m) /\ UNCHANGED others)
         \/ Meddles
  PROVE  FenceInv'
<1>1. ASSUME NEW m \in MR, UserDeletes(m) \/ (ClearPending(m) /\ UNCHANGED others)
      PROVE  FenceInv'
  <2>1. RequestDelete(m) \/ ClearPending(m)
    BY <1>1 DEF UserDeletes
  <2>2. \A l \in MR : NoneAppears(l)
    <3>1. PICK r : r \notin Replica
      BY NoSetContainsEverything
    <3>2. QED
      BY <1>1, <3>1, UserStepFramed, WitherNone
  <2>3. Void \subseteq Void' /\ (FenceAfter(Void') => FenceInv')
    BY <2>2, VoidStays
  <2>4. QED
    BY <2>1, <2>3, UserStepFenced DEF TypeOK, FenceInv
<1>2. CASE Meddles
  <2>1. mr' = mr /\ work' = work /\ \A l \in MR : NoneAppears(l)
    BY <1>2, MeddlingEffect, WitherMoves, WitherNone
  <2>2. QED
    BY <2>1, VoidStays, WorldFenced DEF FenceInv
<1>3. QED
  BY <1>1, <1>2

\* At most one worker of a resource is creating at a time, and it creates only if the
\* resource has no token, expired ones included.
THEOREM PendingIsAFence ==
  ASSUME SameUser
  PROVE  Spec => [](MissingIsMissing /\ PendingFences)
<1>1. Init => FenceInv
  BY DEF Init, RuntimeInit, Idle, Fresh, FenceInv, Fence, Sole, Fenced, Early, Minting
<1>2. TypeOK /\ TokensHaveUsers /\ FenceInv /\ [Next]_vars => FenceInv'
  <2> SUFFICES ASSUME TypeOK, TokensHaveUsers, FenceInv, [Next]_vars PROVE FenceInv'
    OBVIOUS
  <2>1. CASE UNCHANGED vars
    BY <2>1 DEF vars, runtimeVars, FenceInv, Void, Fence, Sole, Fenced, NoToken, Listed
  <2>2. ASSUME NEW m \in MR, NEW r \in Replica, RuntimeStep(m, r), UNCHANGED others
        PROVE  FenceInv'
    <3>1. Void \subseteq Void' /\ (FenceAfter(Void') => FenceInv')
      BY <2>2, WitherMoves, WitherNone, VoidStays DEF others, netbird
    <3>2. QED
      BY <2>2, <3>1, RuntimeStepFenced DEF TypeOK, FenceInv
  <2>3. QED
    BY <2>1, <2>2, HandlerStepFenced, WorldStepFenced DEF Next, Meddles
<1>3. QED
  BY <1>1, <1>2, FenceInvIs, TypeCorrect, TokensGoWithUsers, PTL DEF Spec

\* One token per resource, in every reachable state: no crash, lost reply, lagging
\* cache or second replica makes the controller mint another.
THEOREM OneToken ==
  ASSUME SameUser
  PROVE  Spec => []AtMostOneToken
<1>1. Init => AtMostOneToken
  BY DEF Init, AtMostOneToken, Listed
<1>2. TypeOK /\ MissingIsMissing /\ AtMostOneToken /\ [Next]_vars => AtMostOneToken'
  <2> SUFFICES ASSUME TypeOK, MissingIsMissing, AtMostOneToken, [Next]_vars
               PROVE  AtMostOneToken'
    OBVIOUS
  <2>1. CASE Withers
    BY <2>1 DEF Withers, AtMostOneToken, Listed, Valid
  <2>2. ASSUME NEW m \in MR, NEW r \in Replica, HandlerStep(m, r) PROVE AtMostOneToken'
    <3>1. Withers \/ Mints(m, r)
      BY <2>2, HandlerStepEffect, HandlerMoves
    <3>2. CASE Mints(m, r)
      <4>1. NoToken(m)
        BY <3>2 DEF Mints, MissingIsMissing
      <4>2. QED
        BY <3>2, <4>1 DEF Mints, NoToken, AtMostOneToken, Listed, TypeOK, Token
    <3>3. QED
      BY <2>1, <3>1, <3>2
  <2>3. CASE tokens' = tokens \/ Meddles
    BY <2>1, <2>3, WitherMoves
  <2>4. QED
    BY <2>2, <2>3 DEF Next, Meddles, UserDeletes, others, netbird, vars
<1>3. QED
  BY <1>1, <1>2, TypeCorrect, PendingIsAFence, PTL DEF Spec

-----------------------------------------------------------------------------
(* What a worker knows of its object when it acts *)

LEMMA CurrentInvIs == CurrentInv <=> SeenIsCurrent
BY DEF CurrentInv, Current, Watching, Minting, SeenIsCurrent

LEMMA HandlerStepKeeps ==
  ASSUME NEW m \in MR, NEW r \in Replica, HandlerStep(m, r)
  PROVE  mr' = mr \/ Dispose(m, r)
BY DEF HandlerStep, ObserveNoUser, ObserveValid, ObserveDead, ObserveNotFound, Adopt,
       ObserveMissing, Create, Update, Publish, Delete, UnpublishOnly, StepFails, Go

LEMMA TokenStepCurrent ==
  ASSUME TypeOK, SameUser, MissingIsMissing /\ PendingFences, CurrentInv,
         NEW m \in MR, NEW r \in Replica, HandlerStep(m, r)
  PROVE  CurrentInv'
<1>1. Framed(m, r) /\ HandlerMove(m, r) /\ (mr' = mr \/ Dispose(m, r))
  BY HandlerStepEffect, HandlerStepKeeps
<1>2. CASE mr' = mr
  <2>1. Current(m, work[m][r])
    BY DEF CurrentInv
  <2>2. Current(m, work[m][r])'
    BY <1>1, <1>2, <2>1
    DEF HandlerMove, Observes, Mints, Finishes, Current, Watching, Minting
  <2>3. QED
    BY <1>1, <1>2, <2>2, CurrentByOne DEF TypeOK, StaysGuarded
<1>3. CASE Dispose(m, r)
  <2>1. work[m][r].pc = "act" /\ ~work[m][r].stale
    BY <1>3 DEF Dispose, Release
  <2>2. \A s \in Replica : work[m][s].pc \notin Minting
    BY <2>1 DEF PendingFences, Minting
  <2>3. work'[m][r] = Idle
    BY <1>3 DEF Dispose, Release, Commit, TypeOK, RuntimeTypeOK
  <2>4. Current(m, work[m][r])'
    BY <2>3 DEF Idle, Current, Watching, Minting
  <2>5. QED
    BY <1>1, <2>2, <2>4, CurrentByOne DEF TypeOK
<1>4. QED
  BY <1>1, <1>2, <1>3

LEMMA WorldStepCurrent ==
  ASSUME TypeOK, CurrentInv,
         \/ \E m \in MR : UserDeletes(m) \/ (ClearPending(m) /\ UNCHANGED others)
         \/ Meddles
  PROVE  CurrentInv'
<1>1. CASE Meddles
  BY <1>1, MeddlingEffect DEF CurrentInv, Current
<1>2. QED
  BY <1>1, UserStepCurrent DEF UserDeletes, TypeOK

\* What a worker saw of its object is current unless its next write must fail.
THEOREM KnowledgeIsCurrent ==
  ASSUME SameUser
  PROVE  Spec => []SeenIsCurrent
<1>1. Init => CurrentInv
  BY DEF Init, RuntimeInit, Idle, CurrentInv, Current, Watching, Minting
<1>2. /\ TypeOK /\ MissingIsMissing /\ PendingFences /\ CurrentInv /\ [Next]_vars
      => CurrentInv'
  <2> SUFFICES ASSUME TypeOK, MissingIsMissing /\ PendingFences, CurrentInv, [Next]_vars
               PROVE  CurrentInv'
    OBVIOUS
  <2>1. CASE UNCHANGED vars
    BY <2>1 DEF vars, runtimeVars, CurrentInv, Current
  <2>2. QED
    BY <2>1, RuntimeStepCurrent, TokenStepCurrent, WorldStepCurrent
    DEF TypeOK, Next, Meddles
<1>3. QED
  BY <1>1, <1>2, CurrentInvIs, TypeCorrect, PendingIsAFence, PTL DEF Spec

-----------------------------------------------------------------------------
(* A deleted resource leaves nothing behind *)

\* A deleted resource is let go only when it has no token, expired ones included.
THEOREM ReleaseIsSafe ==
  ASSUME SameUser
  PROVE  Spec => ReleasedWithoutToken
<1> DEFINE Step == \A m \in MR :
                     mr[m].phase = "deleting" /\ mr'[m].phase = "gone"
                       => \A k \in Id : ~(Listed(k) /\ tokens[k].of = m)
<1>1. TypeOK /\ MissingIsMissing /\ [Next]_vars => Step
  <2> SUFFICES ASSUME TypeOK, MissingIsMissing, [Next]_vars,
                      NEW m \in MR, mr[m].phase = "deleting", mr'[m].phase = "gone"
               PROVE  NoToken(m)
    BY DEF NoToken
  <2>1. mr' # mr
    OBVIOUS
  <2>2. ASSUME NEW l \in MR, NEW r \in Replica, RuntimeStep(l, r) PROVE FALSE
    <3>1. mr'[l].phase = mr[l].phase /\ \A i \in MR : i # l => mr'[i] = mr[i]
      BY <2>2, RuntimeStepKeeps, RuntimeStepEffect DEF Framed, TypeOK
    <3>2. QED
      BY <3>1
  <2>3. ASSUME NEW l \in MR, NEW r \in Replica, HandlerStep(l, r) PROVE NoToken(m)
    <3>1. Dispose(l, r) /\ Framed(l, r)
      BY <2>1, <2>3, HandlerStepKeeps, HandlerStepEffect
    <3>2. l = m
      BY <3>1 DEF Framed
    <3>3. QED
      BY <3>1, <3>2 DEF Dispose, Release, MissingIsMissing
  <2>4. ASSUME NEW l \in MR, UserDeletes(l) \/ (ClearPending(l) /\ UNCHANGED others)
        PROVE  FALSE
    <3>1. PICK none : none \notin Replica
      BY NoSetContainsEverything
    <3>2. Framed(l, none) /\ UserMove(l)
      BY <2>4, <3>1, UserStepFramed
    <3>3. QED
      BY <3>2 DEF Framed, UserMove
  <2>5. ~(UNCHANGED vars) /\ ~Meddles
    BY <2>1, MeddlingEffect DEF vars, runtimeVars
  <2>6. QED
    BY <2>2, <2>3, <2>4, <2>5 DEF Next, Meddles
<1>2. Spec => [][Step]_vars
  BY <1>1, TypeCorrect, PendingIsAFence, PTL DEF Spec
<1>3. QED
  BY <1>2 DEF ReleasedWithoutToken

-----------------------------------------------------------------------------
(* The connection secret follows the identity of its resource *)

\* A step of worker r of m (or, if r is none, of the world) that gives up nothing m
\* has: the finalizer stays until the object is gone, and while there is a valid token
\* of m's the external name stays and r does not set out to mint another.
Preserves(m, r) ==
  /\ mr[m].fin \/ mr[m].phase = "gone" => mr'[m].fin \/ mr'[m].phase = "gone"
  /\ \A k \in Id : Owned(m, k) /\ Valid(k) =>
       /\ mr'[m].ext = mr[m].ext
       /\ r \in Replica => work'[m][r].pc \notin Minting

LEMMA OwnedStays ==
  ASSUME TokensAge, NEW m \in MR, NEW r, Framed(m, r), Preserves(m, r),
         NEW l \in MR, NEW k, Owned(l, k)
  PROVE  Owned(l, k)'
<1>1. Minted(l, k)' /\ k \in Id
  BY DEF Owned, Minted, TokensAge
<1>2. mr'[l].fin \/ mr'[l].phase = "gone"
  BY DEF Owned, Framed, Preserves
<1>3. ASSUME Valid(k)' PROVE mr'[l].ext = k
  BY <1>1, <1>3 DEF Owned, Minted, TokensAge, Framed, Preserves
<1>4. ASSUME Valid(k)', NEW s \in Replica PROVE work'[l][s].pc \notin Minting
  <2>1. Valid(k) /\ work[l][s].pc \notin Minting
    BY <1>1, <1>4 DEF Owned, Minted, TokensAge, Minting
  <2>2. QED
    BY <1>1, <2>1 DEF Framed, Overtaken, Preserves
<1>5. QED
  BY <1>1, <1>2, <1>3, <1>4 DEF Owned, Minting

\* It is enough to look at what the step itself puts into the secret, and at the
\* worker that moves.
LEMMA OwnedByOne ==
  ASSUME SecretIsOwned, TokensAge, NEW m \in MR, NEW r, Framed(m, r), Preserves(m, r),
         \A l \in MR : l # m => secret'[l] = secret[l],
         secret'[m] \in {NoId, secret[m]} \/ Owned(m, secret'[m]),
         r \in Replica => Carries(m, work[m][r])'
  PROVE  SecretIsOwned'
<1>1. ASSUME NEW l \in MR PROVE (secret[l] = NoId \/ Owned(l, secret[l]))'
  <2>1. PICK k : k = secret'[l]
    OBVIOUS
  <2>2. k = NoId \/ Owned(l, k)
    BY <2>1 DEF SecretIsOwned
  <2>3. k = NoId \/ Owned(l, k)'
    BY <2>2, OwnedStays
  <2>4. QED
    BY <2>1, <2>3 DEF Owned, Minted, Valid
<1>2. ASSUME NEW l \in MR, NEW s \in Replica, l # m \/ s # r
      PROVE  Carries(l, work[l][s])'
  <2>1. PICK k : k = work[l][s].cr.ext
    OBVIOUS
  <2>2. Carries(l, work[l][s])
    BY DEF SecretIsOwned
  <2>3. work'[l][s].pc = work[l][s].pc /\ work'[l][s].cr = work[l][s].cr
    BY <1>2 DEF Framed, Overtaken
  <2>4. Owned(l, k) => Owned(l, k)'
    BY OwnedStays
  <2>5. Minted(l, k) => Minted(l, k)'
    BY DEF Minted, TokensAge
  <2>6. QED
    BY <2>1, <2>2, <2>3, <2>4, <2>5 DEF Carries, Owned, Minted, Valid
<1>3. QED
  BY <1>1, <1>2 DEF SecretIsOwned

LEMMA RuntimeStepOwned ==
  ASSUME TypeOK, MissingIsMissing, PendingFences, SeenIsCurrent, SecretIsOwned,
         NEW m \in MR, NEW r \in Replica, RuntimeStep(m, r), UNCHANGED others
  PROVE  SecretIsOwned'
<1> DEFINE w == work[m][r]
           v == work'[m][r]
<1>1. /\ Framed(m, r) /\ RuntimeMove(m, r)
      /\ mr'[m].phase = mr[m].phase /\ (mr[m].fin => mr'[m].fin)
  BY RuntimeStepEffect, RuntimeStepKeeps DEF TypeOK
<1>2. TokensAge /\ tokens' = tokens /\ secret' = secret
  BY WitherMoves, MovesAge DEF others, netbird
<1>3. ASSUME NEW k \in Id, Owned(m, k), Valid(k)
      PROVE  mr'[m].ext = mr[m].ext /\ v.pc \notin Minting
  <2>1. w.pc \notin Minting /\ ~NoToken(m)
    BY <1>3 DEF Owned, Minted, NoToken, Valid, Listed, Minting
  <2>2. ~(w.pc = "pend" /\ ~w.stale)
    BY <2>1 DEF MissingIsMissing
  <2>3. ~(w.pc = "act" /\ w.cr.phase = "live" /\ ~w.cr.fin /\ ~w.stale)
    BY <1>3 DEF Owned, SeenIsCurrent
  <2>4. mr'[m].ext = mr[m].ext
    BY <2>1, <2>2, <2>3, RuntimeStepNames DEF Minting, TypeOK
  <2>5. v.pc \notin Minting
    BY <1>1, <2>1, <2>2 DEF RuntimeMove, Ends, Starts, Advances, Creates, Minting
  <2>6. QED
    BY <2>4, <2>5
<1>4. Preserves(m, r)
  BY <1>1, <1>3 DEF Preserves
<1>5. Carries(m, work[m][r])'
  <2>1. PICK k : k = w.cr.ext
    OBVIOUS
  <2>2. Carries(m, w)
    BY DEF SecretIsOwned
  <2>3. /\ Owned(m, k) => Owned(m, k)'
        /\ Minted(m, k) => Minted(m, k)'
    BY <1>1, <1>2, <1>4, OwnedStays DEF Minted, TokensAge
  <2>4. CASE work' = work
    BY <2>1, <2>2, <2>3, <2>4 DEF Carries, Owned, Minted, Valid
  <2>5. CASE w.pc = "annotate" /\ v.pc = "publish"
    <3>1. w.cr.create = "succeeded" /\ mr'[m].ext = k /\ v.cr.ext = k
      BY <1>1, <2>1, <2>5, RuntimeStepNames
      DEF RuntimeMove, Ends, Starts, Advances, Creates, TypeOK
    <3>2. Minted(m, k)'
      BY <2>1, <2>2, <2>3, <2>5, <3>1 DEF Carries
    <3>3. mr'[m].fin
      BY <1>1, <2>5 DEF SeenIsCurrent
    <3>4. \A s \in Replica : work'[m][s].pc \notin Minting
      BY <1>1, <2>5 DEF PendingFences, Framed, Overtaken, Minting
    <3>5. Owned(m, k)'
      BY <3>1, <3>2, <3>3, <3>4 DEF Owned, Minting
    <3>6. QED
      BY <2>5, <3>1, <3>5 DEF Carries, Owned, Minted, Valid
  <2>6. CASE work' # work /\ ~(w.pc = "annotate" /\ v.pc = "publish")
    <3>1. v.pc # "publish" /\ ~(v.pc = "annotate" /\ v.cr.create = "succeeded")
      BY <1>1, <2>6 DEF RuntimeMove, Ends, Starts, Advances, Creates
    <3>2. QED
      BY <3>1 DEF Carries
  <2>7. QED
    BY <2>4, <2>5, <2>6
<1>6. QED
  BY <1>1, <1>2, <1>4, <1>5, OwnedByOne

\* What the handlers write to the connection secret.
LEMMA HandlerStepSecret ==
  ASSUME TypeOK, NEW m \in MR, NEW r \in Replica, HandlerStep(m, r)
  PROVE  /\ \A l \in MR : l # m => secret'[l] = secret[l]
         /\ \/ secret'[m] \in {NoId, secret[m]}
            \/ work[m][r].pc = "publish" /\ secret'[m] = work[m][r].cr.ext
BY DEF HandlerStep, ObserveNoUser, ObserveValid, ObserveDead, ObserveNotFound, Adopt,
       ObserveMissing, Create, Update, Publish, Delete, Dispose, UnpublishOnly, TypeOK

LEMMA HandlerStepOwned ==
  ASSUME TypeOK, SameUser, MissingIsMissing, SecretIsOwned,
         NEW m \in MR, NEW r \in Replica, HandlerStep(m, r)
  PROVE  SecretIsOwned'
<1> DEFINE w == work[m][r]
           v == work'[m][r]
<1>1. Framed(m, r) /\ HandlerMove(m, r)
  BY HandlerStepEffect
<1>2. TokensAge
  BY <1>1, HandlerMoves, MovesAge
<1>3. /\ mr[m].fin \/ mr[m].phase = "gone" => mr'[m].fin \/ mr'[m].phase = "gone"
      /\ mr'[m].ext = mr[m].ext
  <2>1. CASE mr' = mr
    BY <2>1
  <2>2. CASE Dispose(m, r)
    BY <2>2 DEF Dispose, Release, Commit, TypeOK, RuntimeTypeOK, Object
  <2>3. QED
    BY <2>1, <2>2, HandlerStepKeeps
<1>4. ASSUME NEW k \in Id, Owned(m, k), Valid(k) PROVE v.pc \notin Minting
  <2>1. w.pc # "create"
    BY <1>4 DEF Owned
  <2>2. QED
    BY <1>1, <2>1 DEF HandlerMove, Observes, Mints, Finishes, Minting
<1>5. Preserves(m, r)
  BY <1>3, <1>4 DEF Preserves
<1>6. Carries(m, work[m][r])'
  <2>1. v.pc # "publish"
    BY <1>1 DEF HandlerMove, Observes, Mints, Finishes
  <2>2. ASSUME v.pc = "annotate", v.cr.create = "succeeded"
        PROVE  Minted(m, work[m][r].cr.ext)'
    <3>1. Mints(m, r)
      BY <1>1, <2>2 DEF HandlerMove, Observes, Finishes
    <3>2. QED
      BY <2>2, <3>1 DEF Mints, Minted, TypeOK
  <2>3. QED
    BY <2>1, <2>2 DEF Carries
<1>7. /\ \A l \in MR : l # m => secret'[l] = secret[l]
      /\ secret'[m] \in {NoId, secret[m]} \/ Owned(m, secret'[m])
  BY HandlerStepSecret DEF SecretIsOwned, Carries
<1>8. QED
  BY <1>1, <1>2, <1>5, <1>6, <1>7, OwnedByOne

LEMMA WorldStepOwned ==
  ASSUME TypeOK, SecretIsOwned,
         \/ \E m \in MR : UserDeletes(m) \/ (ClearPending(m) /\ UNCHANGED others)
         \/ Meddles
  PROVE  SecretIsOwned'
<1>1. PICK r : r \notin Replica
  BY NoSetContainsEverything
<1>2. ASSUME NEW m \in MR, UserDeletes(m) \/ (ClearPending(m) /\ UNCHANGED others)
      PROVE  SecretIsOwned'
  <2>1. /\ Framed(m, r) /\ UserMove(m) /\ mr'[m].ext = mr[m].ext /\ TokensAge
        /\ \A l \in MR : l # m => secret'[l] = secret[l]
        /\ secret'[m] \in {NoId, secret[m]}
    BY <1>1, <1>2, UserStepFramed, MovesAge
  <2>2. Preserves(m, r)
    BY <1>1, <2>1 DEF UserMove, Preserves
  <2>3. QED
    BY <1>1, <2>1, <2>2, OwnedByOne
<1>3. CASE Meddles
  <2>1. TokensAge /\ mr' = mr /\ work' = work /\ secret' = secret
    BY <1>3, WitherMoves, MovesAge, MeddlingEffect
  <2>2. ASSUME NEW l \in MR, NEW j, Minted(l, j) PROVE Minted(l, j)'
    BY <2>1, <2>2 DEF Minted, TokensAge
  <2>3. ASSUME NEW l \in MR, NEW j, Owned(l, j) PROVE Owned(l, j)'
    BY <2>1, <2>2, <2>3 DEF Owned, Minted, TokensAge
  <2>4. ASSUME NEW l \in MR PROVE (secret[l] = NoId \/ Owned(l, secret[l]))'
    <3>1. PICK j : j = secret[l]
      OBVIOUS
    <3>2. j = NoId \/ Owned(l, j)'
      BY <2>3, <3>1 DEF SecretIsOwned
    <3>3. QED
      BY <2>1, <3>1, <3>2 DEF Owned, Minted, Valid
  <2>5. ASSUME NEW l \in MR, NEW s \in Replica PROVE Carries(l, work[l][s])'
    <3>1. PICK j : j = work[l][s].cr.ext
      OBVIOUS
    <3>2. /\ work[l][s].pc = "publish" => Owned(l, j)'
          /\ work[l][s].pc = "annotate" /\ work[l][s].cr.create = "succeeded"
               => Minted(l, j)'
      BY <2>2, <2>3, <3>1 DEF SecretIsOwned, Carries
    <3>3. QED
      BY <2>1, <3>1, <3>2 DEF Carries, Owned, Minted, Valid
  <2>6. QED
    BY <2>4, <2>5 DEF SecretIsOwned
<1>4. QED
  BY <1>2, <1>3

\* The whole inductive invariant holds when only one service user has the name.
THEOREM InvariantHolds ==
  ASSUME SameUser
  PROVE  Spec => []IInv
<1>1. Init => SecretIsOwned
  BY DEF Init, RuntimeInit, Idle, SecretIsOwned, Carries
<1>2. /\ TypeOK /\ MissingIsMissing /\ PendingFences /\ SeenIsCurrent /\ SecretIsOwned
      /\ [Next]_vars
      => SecretIsOwned'
  <2> SUFFICES ASSUME TypeOK, MissingIsMissing, PendingFences, SeenIsCurrent,
                      SecretIsOwned, [Next]_vars
               PROVE  SecretIsOwned'
    OBVIOUS
  <2>1. CASE UNCHANGED vars
    BY <2>1 DEF vars, runtimeVars, SecretIsOwned, Carries, Owned, Minted, Valid
  <2>2. QED
    BY <2>1, RuntimeStepOwned, HandlerStepOwned, WorldStepOwned DEF Next, Meddles
<1>3. IInv <=> /\ TokensHaveUsers /\ DeletionIsReal /\ OutdatedIsDead
               /\ MissingIsMissing /\ PendingFences /\ SeenIsCurrent /\ SecretIsOwned
  BY DEF IInv
<1>4. QED
  BY <1>1, <1>2, <1>3, TypeCorrect, TokensGoWithUsers, RotationIsGrounded,
     PendingIsAFence, KnowledgeIsCurrent, PTL DEF Spec

\* While the token in the connection secret can be used, the resource's identity is
\* that very token, for any number of replicas.
THEOREM SecretIsTheIdentity ==
  ASSUME SameUser
  PROVE  Spec => []SecretMatchesIdentity
<1>1. TypeOK /\ IInv => SecretMatchesIdentity
  <2> SUFFICES ASSUME TypeOK, IInv, NEW m \in MR, secret[m] # NoId, Valid(secret[m])
               PROVE  Lookup(mr[m]) = secret[m]
    BY DEF SecretMatchesIdentity
  <2>1. mr[m].ext = secret[m] /\ secret[m] \in Id
    BY DEF IInv, SecretIsOwned, Owned, Minted
  <2>2. QED
    BY <2>1, LookupType DEF TypeOK, RuntimeTypeOK
<1>2. QED
  BY <1>1, TypeCorrect, InvariantHolds, PTL
=============================================================================
