------------------------ MODULE SharedConnectorProofs ------------------------
(***************************************************************************)
(* TLAPS proofs about SharedConnector: types, the mutex, and the tokens    *)
(* handlers work with, for any number of workers and managers, whatever    *)
(* lifetimes the issuer gives and whichever credentials are not OAuth.     *)
(***************************************************************************)
EXTENDS SharedConnector, TLAPS

\* The initial state has the declared types and the invariant.
LEMMA InitInv == Init => TypeOK /\ IInv
  BY ClockAssumption, NobodyAssumption
  DEF Init, TypeOK, IInv, HoldsManager, MutexHeldByRefresher, TokenAges,
      TokensMatchCredentials, AuthManager, Client, Issued, Age, Reconcile, PC, Rest,
      Unused, NoClient

\* Growing older keeps the type, kind and lifetime, and adds at most one tick.
LEMMA AgedClient ==
  ASSUME NEW c \in Client
  PROVE  /\ Aged(c) \in Client
         /\ Aged(c).state = c.state
         /\ Aged(c).life = c.life
         /\ Aged(c).age <= c.age + 1
  BY ClockAssumption DEF Aged, Issued, Client, Age, Older

\* A revoked client is as old as it was, and an issued one still.
LEMMA SpoiltClient ==
  ASSUME NEW c \in Client
  PROVE  /\ Spoilt(c) \in Client
         /\ Spoilt(c).age = c.age
         /\ Spoilt(c).life = c.life
         /\ Issued(Spoilt(c)) <=> Issued(c)
         /\ Spoilt(c).state = "static" <=> c.state = "static"
  BY DEF Spoilt, Issued, Client

\* The literals the actions write are of the declared types.
LEMMA Literals ==
  /\ NoClient \in Client
  /\ StaticClient \in Client /\ StaticClient.state = "static"
  /\ 0 \in 0 .. Timeout /\ 0 \in Age /\ 1 \in 1 .. MaxCreds
  /\ PC = {"idle", "load", "store", "get", "refresh", "call", "force", "forcing"}
  BY ClockAssumption DEF NoClient, StaticClient, Client, Age, PC

\* An idle worker is well typed.
LEMMA RestIsTyped == Rest \in Reconcile /\ Rest.pc = "idle"
  BY ClockAssumption DEF Rest, Reconcile, PC, NoClient, Client, Age

\* A worker that starts and ends outside a token request moves on its own.
LEMMA WorkerMoves ==
  ASSUME TypeOK, IInv, NEW w \in Worker, NEW x \in Reconcile,
         work' = [work EXCEPT ![w] = x], UNCHANGED <<creds, lapsed, slot, mgr>>,
         work[w].pc \notin {"refresh", "forcing"},
         x.pc \notin {"refresh", "forcing"},
         x.pc \in {"get", "call", "force"} => x.mgr \in Manager,
         x.pc = "call" =>
           /\ Issued(x.client) =>
                \/ x.client.age + Timeout <= x.client.life + x.spent
                \/ x.client.age <= Timeout + x.spent
           /\ IF mgr[x.mgr].creds \in Static THEN x.client.state = "static"
                                             ELSE Issued(x.client)
  PROVE  TypeOK' /\ IInv'
<1>1. TypeOK'
  BY DEF TypeOK
<1>2. HoldsManager'
  BY DEF TypeOK, IInv, HoldsManager
<1>3. MutexHeldByRefresher'
  BY DEF TypeOK, IInv, MutexHeldByRefresher
<1>4. TokenAges'
  BY DEF TypeOK, IInv, TokenAges
<1>5. TokensMatchCredentials'
  BY DEF TypeOK, IInv, TokensMatchCredentials
<1> QED
  BY <1>1, <1>2, <1>3, <1>4, <1>5 DEF IInv

\* Every step keeps the declared types and the invariant.
LEMMA NextInv ==
  ASSUME TypeOK, IInv, [Next]_vars
  PROVE  TypeOK' /\ IInv'
<1> USE ClockAssumption, NobodyAssumption
<1>1. ASSUME NEW w \in Worker, Extract(w) PROVE TypeOK' /\ IInv'
  <2>1. [Rest EXCEPT !.pc = "load", !.seen = creds] \in Reconcile
    BY Literals DEF TypeOK, Rest, Reconcile
  <2> QED
    BY <1>1, <2>1, WorkerMoves DEF Extract, Rest
<1>2. ASSUME NEW w \in Worker, Load(w) PROVE TypeOK' /\ IInv'
  <2>1. CASE slot = Nobody
    <3> DEFINE x == [work[w] EXCEPT !.pc = "store"]
    <3>1. x \in Reconcile /\ x.pc = "store"
      BY DEF TypeOK, Reconcile, PC
    <3> QED
      BY <1>2, <2>1, <3>1, WorkerMoves DEF Load
  <2>2. CASE slot # Nobody
    <3> DEFINE x == [work[w] EXCEPT !.pc = "get", !.mgr = slot]
    <3>1. x \in Reconcile /\ x.pc = "get" /\ x.mgr \in Manager
      BY <2>2 DEF TypeOK, Reconcile, PC
    <3> QED
      BY <1>2, <2>2, <3>1, WorkerMoves DEF Load
  <2> QED
    BY <2>1, <2>2
<1>3. ASSUME NEW w \in Worker, Store(w) PROVE TypeOK' /\ IInv'
  BY <1>3 DEF Store, Unreferenced, Unused, NoClient, TypeOK, IInv, HoldsManager,
     MutexHeldByRefresher, TokenAges, TokensMatchCredentials, AuthManager, Client,
     Issued, Age, Reconcile, PC
<1>4. ASSUME NEW w \in Worker, Serve(w) PROVE TypeOK' /\ IInv'
  <2> DEFINE a == work[w].mgr
             x == [work[w] EXCEPT !.pc = "call", !.client = mgr[a].client, !.spent = 0]
  <2>1. a \in Manager /\ mgr[a] \in AuthManager /\ work[w] \in Reconcile
    BY <1>4 DEF Serve, IInv, HoldsManager, TypeOK
  <2>2. x \in Reconcile /\ x.pc = "call" /\ x.mgr = a
    BY <2>1, Literals DEF Reconcile, AuthManager
  <2>3. /\ Issued(mgr[a].client) => mgr[a].client.age <= mgr[a].since + Timeout
        /\ mgr[a].since + Margin <= mgr[a].client.life
    BY <1>4, <2>1 DEF Serve, TokenNeedsRefresh, IInv, TokenAges, AuthManager, Client, Age
  <2>4. Issued(x.client) => x.client.age + Timeout <= x.client.life + x.spent
    BY <2>1, <2>3 DEF Reconcile, AuthManager, Client, Age
  <2>5. IF mgr[a].creds \in Static THEN x.client.state = "static" ELSE Issued(x.client)
    BY <1>4, <2>1 DEF Serve, IInv, TokensMatchCredentials, AuthManager, Client, Issued
  <2>6. work' = [work EXCEPT ![w] = x]
    BY <1>4, <2>1 DEF Serve, TypeOK
  <2> QED
    <3> HIDE DEF x
    <3> QED
      BY <1>4, <2>1, <2>2, <2>4, <2>5, <2>6, WorkerMoves DEF Serve
<1>5. ASSUME NEW w \in Worker, StartRefresh(w) PROVE TypeOK' /\ IInv'
  <2> DEFINE a == work[w].mgr
  <2>1. /\ a \in Manager /\ mgr[a].owner = Nobody /\ mgr[a].creds \notin Static
        /\ work[w].pc \in {"get", "force"}
    BY <1>5 DEF StartRefresh, Refreshes, IInv, HoldsManager
  <2>2. PICK pc \in {"refresh", "forcing"} :
          work' = [work EXCEPT ![w].pc = pc, ![w].spent = 0]
    BY <1>5 DEF StartRefresh
  <2>3. mgr' = [mgr EXCEPT ![a].owner = w] /\ UNCHANGED <<creds, lapsed, slot>>
    BY <1>5 DEF StartRefresh
  <2>4. TypeOK'
    <3>1. mgr' \in [Manager -> AuthManager]
      BY <2>1, <2>3 DEF TypeOK, AuthManager
    <3>2. [work[w] EXCEPT !.pc = pc, !.spent = 0] \in Reconcile
      BY <2>2, Literals DEF TypeOK, Reconcile
    <3>3. work' = [work EXCEPT ![w] = [work[w] EXCEPT !.pc = pc, !.spent = 0]]
      BY <2>2 DEF TypeOK
    <3>4. work' \in [Worker -> Reconcile]
      BY <3>2, <3>3 DEF TypeOK
    <3> QED
      BY <2>3, <3>1, <3>4 DEF TypeOK
  <2>5. HoldsManager'
    BY <2>1, <2>2 DEF TypeOK, Reconcile, IInv, HoldsManager
  <2>6. MutexHeldByRefresher'
    BY <2>1, <2>2, <2>3 DEF TypeOK, AuthManager, Reconcile, IInv, MutexHeldByRefresher
  <2>7. TokenAges'
    BY <2>1, <2>2, <2>3 DEF TypeOK, AuthManager, Reconcile, IInv, TokenAges
  <2>8. TokensMatchCredentials'
    BY <2>1, <2>2, <2>3 DEF TypeOK, AuthManager, Reconcile, IInv, TokensMatchCredentials
  <2> QED
    BY <2>4, <2>5, <2>6, <2>7, <2>8 DEF IInv
<1>6. ASSUME NEW w \in Worker, Receive(w) PROVE TypeOK' /\ IInv'
  <2> DEFINE a == work[w].mgr
  <2>1. PICK c : /\ \E age \in 0 .. work[w].spent, life \in Lifetimes :
                      c = [age |-> age, life |-> life, state |-> "good"]
                 /\ mgr' = [mgr EXCEPT ![a].client = c, ![a].since = 0, ![a].owner = Nobody]
                 /\ work' = [work EXCEPT ![w] = IF work[w].pc = "refresh"
                               THEN [@ EXCEPT !.pc = "call", !.client = c, !.spent = 0]
                               ELSE Rest]
    BY <1>6 DEF Receive
  <2> DEFINE x == IF work[w].pc = "refresh"
                    THEN [work[w] EXCEPT !.pc = "call", !.client = c, !.spent = 0]
                    ELSE Rest
  <2>2. /\ a \in Manager /\ mgr[a] \in AuthManager /\ work[w] \in Reconcile
        /\ work[w].pc \in {"refresh", "forcing"} /\ mgr[a].creds \notin Static
        /\ UNCHANGED <<creds, lapsed, slot>>
    BY <1>6 DEF Receive, IInv, HoldsManager, TokensMatchCredentials, TypeOK
  <2>3. c \in Client /\ Issued(c) /\ c.state # "static" /\ c.age <= Timeout
    BY <2>1, <2>2 DEF Reconcile, Client, Age, Issued
  <2>4. /\ x \in Reconcile /\ x.pc \in {"call", "idle"}
        /\ x.pc = "call" => x.mgr = a /\ x.client = c /\ x.spent = 0
    BY <2>2, <2>3, Literals, RestIsTyped DEF Reconcile
  <2>5. work' = [work EXCEPT ![w] = x]
    BY <2>1, <2>2
  <2> HIDE DEF x
  <2>6. TypeOK'
    BY <2>1, <2>2, <2>3, <2>4, <2>5, Literals DEF TypeOK, AuthManager
  <2>7. HoldsManager'
    BY <2>2, <2>4, <2>5 DEF TypeOK, IInv, HoldsManager
  <2>8. MutexHeldByRefresher'
    BY <2>1, <2>2, <2>4, <2>5 DEF TypeOK, AuthManager, IInv, MutexHeldByRefresher
  <2>9. TokenAges'
    BY <2>1, <2>2, <2>3, <2>4, <2>5 DEF TypeOK, AuthManager, Client, Age, IInv, TokenAges
  <2>10. TokensMatchCredentials'
    <3>1. ASSUME NEW b \in Manager
          PROVE  /\ mgr'[b].creds = mgr[b].creds
                 /\ Issued(mgr'[b].client) => mgr[b].creds \notin Static
                 /\ mgr'[b].client.state = "static" => mgr[b].creds \in Static
      <4>1. CASE b = a
        BY <2>1, <2>2, <2>3, <4>1 DEF TypeOK, AuthManager
      <4>2. CASE b # a
        BY <2>1, <4>2 DEF TypeOK, AuthManager, IInv, TokensMatchCredentials
      <4> QED
        BY <4>1, <4>2
    <3>2. ASSUME NEW v \in Worker
          PROVE  /\ work'[v].pc \in {"refresh", "forcing"} =>
                      mgr[work'[v].mgr].creds \notin Static
                 /\ work'[v].pc = "call" =>
                      IF mgr[work'[v].mgr].creds \in Static
                        THEN work'[v].client.state = "static"
                        ELSE Issued(work'[v].client)
      <4>1. CASE v = w
        BY <2>2, <2>3, <2>4, <2>5, <4>1 DEF TypeOK
      <4>2. CASE v # w
        BY <2>5, <4>2 DEF TypeOK, IInv, TokensMatchCredentials
      <4> QED
        BY <4>1, <4>2
    <3> QED
      BY <2>7, <3>1, <3>2 DEF HoldsManager, TokensMatchCredentials
  <2> QED
    BY <2>6, <2>7, <2>8, <2>9, <2>10 DEF IInv
<1>7. ASSUME NEW w \in Worker, Rewrap(w) PROVE TypeOK' /\ IInv'
  <2> DEFINE a == work[w].mgr
             x == IF work[w].pc = "get"
                    THEN [work[w] EXCEPT !.pc = "call", !.client = StaticClient, !.spent = 0]
                    ELSE Rest
  <2>1. /\ a \in Manager /\ mgr[a] \in AuthManager /\ work[w] \in Reconcile
        /\ mgr[a].owner = Nobody /\ mgr[a].creds \in Static
        /\ work[w].pc \in {"get", "force"}
    BY <1>7 DEF Rewrap, Refreshes, IInv, HoldsManager, TypeOK
  <2>2. /\ mgr' = [mgr EXCEPT ![a].client = StaticClient, ![a].since = 0]
        /\ work' = [work EXCEPT ![w] = x] /\ UNCHANGED <<creds, lapsed, slot>>
    BY <1>7, <2>1 DEF Rewrap, TypeOK
  <2>3. /\ x \in Reconcile /\ x.pc \in {"call", "idle"}
        /\ x.pc = "call" => x.mgr = a /\ x.client = StaticClient
    BY <2>1, Literals, RestIsTyped DEF Reconcile
  <2> HIDE DEF x
  <2>4. TypeOK'
    BY <2>1, <2>2, <2>3, Literals DEF TypeOK, AuthManager
  <2>5. HoldsManager'
    BY <2>1, <2>2, <2>3 DEF TypeOK, IInv, HoldsManager
  <2>6. MutexHeldByRefresher'
    BY <2>1, <2>2, <2>3 DEF TypeOK, AuthManager, IInv, MutexHeldByRefresher
  <2>7. TokenAges'
    BY <2>1, <2>2, <2>3, Literals DEF TypeOK, AuthManager, Issued, IInv, TokenAges
  <2>8. TokensMatchCredentials'
    <3>1. ASSUME NEW b \in Manager
          PROVE  /\ mgr'[b].creds = mgr[b].creds
                 /\ Issued(mgr'[b].client) => mgr[b].creds \notin Static
                 /\ mgr'[b].client.state = "static" => mgr[b].creds \in Static
      <4>1. CASE b = a
        BY <2>1, <2>2, <4>1, Literals DEF TypeOK, AuthManager, Issued
      <4>2. CASE b # a
        BY <2>2, <4>2 DEF TypeOK, AuthManager, IInv, TokensMatchCredentials
      <4> QED
        BY <4>1, <4>2
    <3>2. ASSUME NEW v \in Worker
          PROVE  /\ work'[v].pc \in {"refresh", "forcing"} =>
                      mgr[work'[v].mgr].creds \notin Static
                 /\ work'[v].pc = "call" =>
                      IF mgr[work'[v].mgr].creds \in Static
                        THEN work'[v].client.state = "static"
                        ELSE Issued(work'[v].client)
      <4>1. CASE v = w
        BY <2>1, <2>2, <2>3, <4>1, Literals DEF TypeOK
      <4>2. CASE v # w
        BY <2>2, <4>2 DEF TypeOK, IInv, TokensMatchCredentials
      <4> QED
        BY <4>1, <4>2
    <3> QED
      BY <2>5, <3>1, <3>2 DEF HoldsManager, TokensMatchCredentials
  <2> QED
    BY <2>4, <2>5, <2>6, <2>7, <2>8 DEF IInv
<1>8. ASSUME NEW w \in Worker, RefreshFails(w) PROVE TypeOK' /\ IInv'
  BY <1>8 DEF RefreshFails, TypeOK, IInv, HoldsManager, Rest, NoClient,
     MutexHeldByRefresher, TokenAges, TokensMatchCredentials, AuthManager, Client,
     Issued, Age, Reconcile, PC
<1>9. ASSUME NEW w \in Worker, Accept(w) PROVE TypeOK' /\ IInv'
  <2> DEFINE x == [work[w] EXCEPT !.pc = "get", !.stage = "act", !.client = NoClient]
  <2>1. work[w] \in Reconcile /\ work[w].mgr \in Manager
    BY <1>9 DEF Accept, TypeOK, IInv, HoldsManager
  <2>2. x \in Reconcile /\ x.pc = "get" /\ x.mgr \in Manager
    BY <2>1, Literals DEF Reconcile
  <2>3. CASE work' = [work EXCEPT ![w] = x]
    BY <1>9, <2>2, <2>3, WorkerMoves DEF Accept
  <2>4. CASE work' = [work EXCEPT ![w] = Rest]
    BY <1>9, <2>4, RestIsTyped, WorkerMoves DEF Accept
  <2> QED
    BY <1>9, <2>1, <2>3, <2>4 DEF Accept, TypeOK
<1>10. ASSUME NEW w \in Worker, Reject(w) PROVE TypeOK' /\ IInv'
  <2> DEFINE x == [work[w] EXCEPT !.pc = "force", !.client = NoClient]
  <2>1. work[w] \in Reconcile /\ work[w].mgr \in Manager
    BY <1>10 DEF Reject, TypeOK, IInv, HoldsManager
  <2>2. x \in Reconcile /\ x.pc = "force" /\ x.mgr \in Manager
    BY <2>1, Literals DEF Reconcile
  <2>3. CASE work' = [work EXCEPT ![w] = x]
    BY <1>10, <2>2, <2>3, WorkerMoves DEF Reject
  <2>4. CASE work' = [work EXCEPT ![w] = Rest]
    BY <1>10, <2>4, RestIsTyped, WorkerMoves DEF Reject
  <2> QED
    BY <1>10, <2>3, <2>4 DEF Reject
<1>11. ASSUME Tick PROVE TypeOK' /\ IInv'
  <2> DEFINE Busy(w) == work[w].pc \in {"refresh", "forcing", "call"}
  <2>1. ASSUME NEW a \in Manager
        PROVE  /\ mgr[a] \in AuthManager
               /\ mgr'[a] \in AuthManager
               /\ mgr'[a].owner = mgr[a].owner /\ mgr'[a].creds = mgr[a].creds
               /\ mgr'[a].client.state = mgr[a].client.state
               /\ Issued(mgr'[a].client) =>
                    mgr'[a].client.age <= mgr'[a].since + Timeout
    <3>1. mgr[a] \in AuthManager /\ mgr[a].client \in Client
      BY DEF TypeOK, AuthManager
    <3>2. mgr'[a] = [mgr[a] EXCEPT !.client = Aged(@),
            !.since = IF mgr[a].client.state = "none" THEN 0 ELSE Older(@)]
      BY <1>11 DEF Tick
    <3>3. /\ mgr'[a] \in AuthManager /\ mgr'[a].owner = mgr[a].owner
          /\ mgr'[a].creds = mgr[a].creds /\ mgr'[a].client.state = mgr[a].client.state
      <4>1. Aged(mgr[a].client) \in Client
        BY <3>1, AgedClient
      <4>2. mgr[a].since \in Age /\ Older(mgr[a].since) \in Age /\ 0 \in Age
        BY <3>1 DEF AuthManager, Age, Older
      <4> QED
        BY <3>1, <3>2, <4>1, <4>2, AgedClient DEF AuthManager
    <3>4. Issued(mgr[a].client) => mgr[a].client.age <= mgr[a].since + Timeout
      BY DEF IInv, TokenAges
    <3>5. Issued(mgr'[a].client) => mgr'[a].client.age <= mgr'[a].since + Timeout
      BY <3>1, <3>2, <3>4, ClockAssumption
      DEF AuthManager, Age, Older, Client, Issued, Aged
    <3> QED
      BY <3>1, <3>3, <3>5
  <2>2. ASSUME NEW w \in Worker
        PROVE  /\ work'[w] \in Reconcile
               /\ work'[w].pc = work[w].pc /\ work'[w].mgr = work[w].mgr
               /\ work'[w].client.state = work[w].client.state
               /\ work'[w].pc = "call" /\ Issued(work'[w].client) =>
                    \/ work'[w].client.age + Timeout <= work'[w].client.life + work'[w].spent
                    \/ work'[w].client.age <= Timeout + work'[w].spent
    <3>1. work[w] \in Reconcile /\ work[w].client \in Client
      BY DEF TypeOK, Reconcile
    <3>2. work[w].pc = "call" /\ Issued(work[w].client) =>
            \/ work[w].client.age + Timeout <= work[w].client.life + work[w].spent
            \/ work[w].client.age <= Timeout + work[w].spent
      BY DEF IInv, TokenAges
    <3>3. CASE ~Busy(w)
      BY <1>11, <3>1, <3>3, <3>2 DEF Tick
    <3>4. CASE Busy(w)
      <4>1. /\ work'[w] = [work[w] EXCEPT !.client = Aged(@), !.spent = @ + 1]
            /\ work[w].spent < Timeout
        BY <1>11, <3>4 DEF Tick
      <4>2. work'[w] \in Reconcile
        <5>1. Aged(work[w].client) \in Client
          BY <3>1, AgedClient
        <5>2. work[w].spent + 1 \in 0 .. Timeout
          BY <3>1, <4>1 DEF Reconcile
        <5> QED
          BY <3>1, <4>1, <5>1, <5>2 DEF Reconcile
      <4>3. /\ work'[w].pc = work[w].pc /\ work'[w].mgr = work[w].mgr
            /\ work'[w].spent = work[w].spent + 1 /\ work'[w].client = Aged(work[w].client)
        BY <3>1, <4>1 DEF Reconcile
      <4> QED
        BY <3>1, <3>2, <4>2, <4>3, AgedClient, ClockAssumption
        DEF Reconcile, Client, Age, Issued
    <3> QED
      BY <3>3, <3>4
  <2>3. TypeOK'
    BY <1>11, <2>1, <2>2 DEF Tick, TypeOK
  <2>4. HoldsManager'
    BY <2>2 DEF IInv, HoldsManager
  <2>5. MutexHeldByRefresher'
    BY <2>1, <2>2 DEF IInv, MutexHeldByRefresher
  <2>6. TokenAges'
    BY <2>1, <2>2 DEF TokenAges
  <2>7. TokensMatchCredentials'
    BY <2>1, <2>2 DEF TypeOK, Reconcile, IInv, HoldsManager, Issued, TokensMatchCredentials
  <2> QED
    BY <2>3, <2>4, <2>5, <2>6, <2>7 DEF IInv
<1>12. ASSUME Revoke PROVE TypeOK' /\ IInv'
  <2>1. ASSUME NEW a \in Manager
        PROVE  /\ mgr'[a] \in AuthManager
               /\ mgr'[a].owner = mgr[a].owner /\ mgr'[a].since = mgr[a].since
               /\ mgr'[a].creds = mgr[a].creds
               /\ mgr'[a].client.age = mgr[a].client.age
               /\ Issued(mgr'[a].client) <=> Issued(mgr[a].client)
               /\ mgr'[a].client.state = "static" <=> mgr[a].client.state = "static"
    BY <1>12, SpoiltClient DEF Revoke, TypeOK, AuthManager
  <2>2. ASSUME NEW w \in Worker
        PROVE  /\ work'[w] \in Reconcile
               /\ work'[w].pc = work[w].pc /\ work'[w].mgr = work[w].mgr
               /\ work'[w].spent = work[w].spent
               /\ work'[w].client.age = work[w].client.age
               /\ work'[w].client.life = work[w].client.life
               /\ Issued(work'[w].client) <=> Issued(work[w].client)
               /\ work'[w].client.state = "static" <=> work[w].client.state = "static"
    <3>1. work[w] \in Reconcile /\ work'[w] = [work[w] EXCEPT !.client = Spoilt(@)]
      BY <1>12 DEF Revoke, TypeOK
    <3>2. /\ Spoilt(work[w].client) \in Client
          /\ Spoilt(work[w].client).age = work[w].client.age
          /\ Spoilt(work[w].client).life = work[w].client.life
          /\ Issued(Spoilt(work[w].client)) <=> Issued(work[w].client)
          /\ Spoilt(work[w].client).state = "static" <=> work[w].client.state = "static"
      BY <3>1, SpoiltClient DEF Reconcile
    <3> QED
      BY <3>1, <3>2 DEF Reconcile
  <2>3. TypeOK'
    BY <1>12, <2>1, <2>2 DEF Revoke, TypeOK
  <2>4. HoldsManager'
    BY <2>2 DEF IInv, HoldsManager
  <2>5. MutexHeldByRefresher'
    BY <2>1, <2>2 DEF IInv, MutexHeldByRefresher
  <2>6. TokenAges'
    BY <2>1, <2>2 DEF IInv, TokenAges
  <2>7. TokensMatchCredentials'
    BY <2>1, <2>2 DEF IInv, HoldsManager, TokensMatchCredentials
  <2> QED
    BY <2>3, <2>4, <2>5, <2>6, <2>7 DEF IInv
<1>13. CASE RotateCredentials
  BY <1>13 DEF RotateCredentials, TypeOK, IInv, HoldsManager,
     MutexHeldByRefresher, TokenAges, TokensMatchCredentials
<1>14. CASE Lapse
  BY <1>14 DEF Lapse, TypeOK, IInv, HoldsManager,
     MutexHeldByRefresher, TokenAges, TokensMatchCredentials
<1>15. CASE Restart
  BY <1>15 DEF Restart, TypeOK, IInv, HoldsManager, Rest, Unused, NoClient,
     MutexHeldByRefresher, TokenAges, TokensMatchCredentials, AuthManager, Client,
     Issued, Age, Reconcile, PC
<1>16. CASE UNCHANGED vars
  BY <1>16 DEF vars, TypeOK, IInv, HoldsManager, MutexHeldByRefresher, TokenAges,
     TokensMatchCredentials
<1> QED
  BY <1>1, <1>2, <1>3, <1>4, <1>5, <1>6, <1>7, <1>8, <1>9, <1>10, <1>11, <1>12,
     <1>13, <1>14, <1>15, <1>16
  DEF Next, WorkerStep

-----------------------------------------------------------------------------

\* The declared types hold in every reachable state.
THEOREM TypeCorrect == Spec => []TypeOK
<1>1. TypeOK /\ IInv /\ [Next]_vars => TypeOK' /\ IInv'
  BY NextInv
<1> QED
  BY InitInv, <1>1, PTL DEF Spec

\* The invariant holds in every reachable state.
THEOREM InvariantHolds == Spec => []IInv
<1>1. TypeOK /\ IInv /\ [Next]_vars => TypeOK' /\ IInv'
  BY NextInv
<1> QED
  BY InitInv, <1>1, PTL DEF Spec

\* auth.go:77-89, 102-108: the mutex of a manager is held by the one worker that
\* asks for a token, and by nobody once that request has ended, however it ended.
THEOREM OneRefreshAtATime == Spec => []MutexHeldByRefresher
<1>1. IInv => MutexHeldByRefresher
  BY DEF IInv
<1> QED
  BY InvariantHolds, <1>1, PTL

\* auth.go:110-115, 134-136: whatever lifetime the issuer gives a token, no handler
\* calls NetBird with it when it has expired, unless it was issued for less than the
\* request and the handler may take: then it is used no longer than those two.
THEOREM NoExpiredToken == Spec => []NoExpiredTokenInUse
<1>1. TypeOK /\ IInv => NoExpiredTokenInUse
  <2> SUFFICES ASSUME TypeOK, IInv, NEW w \in Worker,
                      work[w].pc = "call", Issued(work[w].client)
               PROVE  \/ work[w].client.age <= work[w].client.life
                      \/ work[w].client.age <= 2 * Timeout
    BY DEF NoExpiredTokenInUse
  <2>1. /\ work[w].client.age \in Nat /\ work[w].client.life \in Nat
        /\ work[w].spent \in 0 .. Timeout
    BY ClockAssumption DEF TypeOK, Reconcile, Client, Age
  <2>2. \/ work[w].client.age + Timeout <= work[w].client.life + work[w].spent
        \/ work[w].client.age <= Timeout + work[w].spent
    BY DEF IInv, TokenAges
  <2> QED
    BY <2>1, <2>2, ClockAssumption
<1> QED
  BY TypeCorrect, InvariantHolds, <1>1, PTL
=============================================================================
