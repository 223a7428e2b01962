--------------------------- MODULE SharedConnector ---------------------------
(***************************************************************************)
(* internal/controller/nb/auth.go: the AuthManager of one ProviderConfig   *)
(* and the SharedConnector that hands it to the reconciles of one kind.    *)
(*                                                                         *)
(* A reconcile extracts the credentials, loads or stores the AuthManager,  *)
(* and then calls GetClient before every handler.  AuthManager.mu is held  *)
(* while a token is requested from the OAuth issuer.  Credentials that are *)
(* not OAuth are a token themselves: a refresh wraps the same token again  *)
(* and assumes that it lives for another day, without any request.  When   *)
(* such a token really ends is known to nobody here (Lapse).  Time passes  *)
(* in ticks of one request timeout or less.  Other ProviderConfigs have    *)
(* managers of their own (the cache key is the UID).                       *)
(***************************************************************************)
EXTENDS Naturals

CONSTANTS
  Worker,     \* concurrent reconciles
  Manager,    \* AuthManagers; an unreferenced one may be allocated again
  Nobody,     \* nil
  Lifetimes,  \* what an issuer may give as expires_in
  Day,        \* the 24 hours assumed of a token that was not issued
  Margin,     \* the five minutes of tokenNeedsRefresh
  Timeout,    \* what the context of a reconcile allows a request
  Longest,    \* bound: ages are counted up to this one
  MaxCreds,   \* bound: versions of the credentials
  Static      \* those of the versions that are not OAuth

\* Nothing is assumed of expires_in: a token may live for less than its request.
ASSUME ClockAssumption ==
  /\ Longest \in Nat /\ Margin \in Nat /\ Timeout \in Nat /\ MaxCreds \in Nat \ {0}
  /\ Lifetimes \subseteq 0 .. Longest /\ Day \in 0 .. Longest
  /\ 2 * Timeout <= Margin /\ 2 * Timeout <= Longest
  /\ Static \subseteq 1 .. MaxCreds

ASSUME NobodyAssumption == Nobody \notin Worker \cup Manager

VARIABLES
  creds,   \* the version of the credentials the ProviderConfig names now
  lapsed,  \* the static credentials NetBird takes no more: expired, or revoked
  slot,    \* SharedConnector.cache
  mgr,     \* mgr[a]: the AuthManager a
  work     \* work[w]: the reconcile w

vars == <<creds, lapsed, slot, mgr, work>>

Age == 0 .. Longest + 1
Older(n) == IF n <= Longest THEN n + 1 ELSE n

\* A client carries its token, and "life" is the manager's expiresIn for it.  An
\* issued token is "good" until it is "revoked", and "age" is the time since its
\* issue.  A "static" one is what the credentials say.  "none" is the nil client.
Client == [age : Age, life : Age, state : {"none", "good", "revoked", "static"}]
NoClient == [age |-> 0, life |-> 0, state |-> "none"]
StaticClient == [age |-> 0, life |-> Day, state |-> "static"]
Issued(c) == c.state \in {"good", "revoked"}
Aged(c) == IF Issued(c) THEN [c EXCEPT !.age = Older(@)] ELSE c

\* oauthConfig, mu, client and the time since lastTokenTime.
AuthManager == [creds : 1 .. MaxCreds, owner : Worker \cup {Nobody},
                client : Client, since : Age]

PC == {"idle", "load", "store", "get", "refresh", "call", "force", "forcing"}

\* "stage" tells Observe from the handlers after it, "seen" are the credentials
\* Connect extracted, "mgr" is the manager it returned, "client" the one GetClient
\* returned and "spent" the ticks the pending request has taken.
Reconcile == [pc : PC, stage : {"observe", "act"}, seen : 1 .. MaxCreds,
              mgr : Manager \cup {Nobody}, client : Client, spent : 0 .. Timeout]

TypeOK ==
  /\ creds \in 1 .. MaxCreds
  /\ lapsed \in SUBSET Static
  /\ slot \in Manager \cup {Nobody}
  /\ mgr \in [Manager -> AuthManager]
  /\ work \in [Worker -> Reconcile]

Rest == [pc |-> "idle", stage |-> "observe", seen |-> 1, mgr |-> Nobody,
         client |-> NoClient, spent |-> 0]

Unused == [creds |-> 1, owner |-> Nobody, client |-> NoClient, since |-> 0]

Init ==
  /\ creds = 1
  /\ lapsed = {}
  /\ slot = Nobody
  /\ mgr = [a \in Manager |-> Unused]
  /\ work = [w \in Worker |-> Rest]

-----------------------------------------------------------------------------
(* SharedConnector.Connect *)

\* The credentials are extracted on every call.
Extract(w) ==
  /\ work[w].pc = "idle"
  /\ work' = [work EXCEPT ![w] = [Rest EXCEPT !.pc = "load", !.seen = creds]]
  /\ UNCHANGED <<creds, lapsed, slot, mgr>>

\* A cached manager is returned whatever the credentials.
Load(w) ==
  /\ work[w].pc = "load"
  /\ work' = [work EXCEPT ![w] = IF slot = Nobody
                THEN [@ EXCEPT !.pc = "store"]
                ELSE [@ EXCEPT !.pc = "get", !.mgr = slot]]
  /\ UNCHANGED <<creds, lapsed, slot, mgr>>

Unreferenced(a) == slot # a /\ \A w \in Worker : work[w].mgr # a

\* Load and Store are two steps: a manager stored in between is replaced.
Store(w) ==
  /\ work[w].pc = "store"
  /\ \E a \in Manager :
       /\ Unreferenced(a)
       /\ mgr' = [mgr EXCEPT ![a] = [Unused EXCEPT !.creds = work[w].seen]]
       /\ slot' = a
       /\ work' = [work EXCEPT ![w].pc = "get", ![w].mgr = a]
  /\ UNCHANGED <<creds, lapsed>>

-----------------------------------------------------------------------------
(* AuthManager *)

\* Mutant: the margin is forgotten.
TokenNeedsRefreshLate(a) == mgr[a].since > mgr[a].client.life

\* time.Since(lastTokenTime) > expiresIn - 5 minutes
TokenNeedsRefresh(a) == mgr[a].since + Margin > mgr[a].client.life

\* GetClient, when the client at hand will do.
Serve(w) ==
  LET a == work[w].mgr IN
  /\ work[w].pc = "get"
  /\ mgr[a].owner = Nobody
  /\ mgr[a].client.state # "none" /\ ~TokenNeedsRefresh(a)
  /\ work' = [work EXCEPT ![w].pc = "call", ![w].client = mgr[a].client, ![w].spent = 0]
  /\ UNCHANGED <<creds, lapsed, slot, mgr>>

\* GetClient finds that its manager needs a client, or ForceRefresh is called, and
\* the mutex is free.
Refreshes(w) ==
  LET a == work[w].mgr IN
  /\ work[w].pc \in {"get", "force"}
  /\ mgr[a].owner = Nobody
  /\ work[w].pc = "get" => mgr[a].client.state = "none" \/ TokenNeedsRefresh(a)

\* The worker takes the mutex and asks the issuer for a token.
StartRefresh(w) ==
  LET a == work[w].mgr IN
  /\ Refreshes(w)
  /\ mgr[a].creds \notin Static
  /\ work' = [work EXCEPT ![w].pc = IF @ = "get" THEN "refresh" ELSE "forcing", ![w].spent = 0]
  /\ mgr' = [mgr EXCEPT ![a].owner = w]
  /\ UNCHANGED <<creds, lapsed, slot>>

\* The token arrives.  It was issued at some time during the request, but its
\* lifetime is counted from now.  After ForceRefresh the handler returns the error
\* that made it refresh.
Receive(w) ==
  LET a == work[w].mgr IN
  \E age \in 0 .. work[w].spent, life \in Lifetimes :
    LET c == [age |-> age, life |-> life, state |-> "good"] IN
    /\ work[w].pc \in {"refresh", "forcing"}
    /\ mgr' = [mgr EXCEPT ![a].client = c, ![a].since = 0, ![a].owner = Nobody]
    /\ work' = [work EXCEPT ![w] = IF work[w].pc = "refresh"
                  THEN [@ EXCEPT !.pc = "call", !.client = c, !.spent = 0]
                  ELSE Rest]
    /\ UNCHANGED <<creds, lapsed, slot>>

\* Other credentials are wrapped again at once, under the mutex, and taken to live
\* for a day from now: a static token that has lapsed is not replaced.
Rewrap(w) ==
  LET a == work[w].mgr IN
  /\ Refreshes(w)
  /\ mgr[a].creds \in Static
  /\ mgr' = [mgr EXCEPT ![a].client = StaticClient, ![a].since = 0]
  /\ work' = [work EXCEPT ![w] = IF work[w].pc = "get"
                THEN [@ EXCEPT !.pc = "call", !.client = StaticClient, !.spent = 0]
                ELSE Rest]
  /\ UNCHANGED <<creds, lapsed, slot>>

\* Mutant: the error path forgets the mutex.
RefreshFailsLocked(w) ==
  /\ work[w].pc \in {"refresh", "forcing"}
  /\ work' = [work EXCEPT ![w] = Rest]
  /\ UNCHANGED <<creds, lapsed, slot, mgr>>

\* The request fails or times out: the manager keeps the client it had.
RefreshFails(w) ==
  /\ work[w].pc \in {"refresh", "forcing"}
  /\ mgr' = [mgr EXCEPT ![work[w].mgr].owner = Nobody]
  /\ work' = [work EXCEPT ![w] = Rest]
  /\ UNCHANGED <<creds, lapsed, slot>>

-----------------------------------------------------------------------------
(* The handlers *)

\* An issued token is good for as long as its issuer said, a static one until it
\* lapses.
Accepted(w) ==
  LET c == work[w].client IN
  \/ c.state = "good" /\ c.age <= c.life
  \/ c.state = "static" /\ mgr[work[w].mgr].creds \notin lapsed

\* NetBird accepts the token: another handler follows, or the reconcile is over.
\* (One handler makes several requests with one client; they share its deadline.)
Accept(w) ==
  /\ work[w].pc = "call"
  /\ Accepted(w)
  /\ \/ work' = [work EXCEPT ![w].pc = "get", ![w].stage = "act", ![w].client = NoClient]
     \/ work' = [work EXCEPT ![w] = Rest]
  /\ UNCHANGED <<creds, lapsed, slot, mgr>>

\* Mutant: no handler reacts to an invalid token.
RejectSilently(w) ==
  /\ work[w].pc = "call"
  /\ ~Accepted(w)
  /\ work' = [work EXCEPT ![w] = Rest]
  /\ UNCHANGED <<creds, lapsed, slot, mgr>>

\* NetBird answers 401: Observe forces a refresh, the other handlers give up.
Reject(w) ==
  /\ work[w].pc = "call"
  /\ ~Accepted(w)
  /\ work' = [work EXCEPT ![w] = IF work[w].stage = "observe"
                THEN [@ EXCEPT !.pc = "force", !.client = NoClient]
                ELSE Rest]
  /\ UNCHANGED <<creds, lapsed, slot, mgr>>

-----------------------------------------------------------------------------
(* The rest of the world *)

\* Mutant: requests are made without the context of the reconcile.
TickWithoutDeadline ==
  /\ mgr' = [a \in Manager |-> [mgr[a] EXCEPT !.client = Aged(@),
               !.since = IF mgr[a].client.state = "none" THEN 0 ELSE Older(@)]]
  /\ work' = [w \in Worker |->
               IF work[w].pc \in {"refresh", "forcing", "call"}
                 THEN [work[w] EXCEPT !.client = Aged(@), !.spent = @ + 1]
                 ELSE work[w]]
  /\ UNCHANGED <<creds, lapsed, slot>>

\* A request ends when its context does; nobody's clock outruns it.
Tick ==
  /\ \A w \in Worker : work[w].pc \in {"refresh", "forcing", "call"} => work[w].spent < Timeout
  /\ mgr' = [a \in Manager |-> [mgr[a] EXCEPT !.client = Aged(@),
               !.since = IF mgr[a].client.state = "none" THEN 0 ELSE Older(@)]]
  /\ work' = [w \in Worker |->
               IF work[w].pc \in {"refresh", "forcing", "call"}
                 THEN [work[w] EXCEPT !.client = Aged(@), !.spent = @ + 1]
                 ELSE work[w]]
  /\ UNCHANGED <<creds, lapsed, slot>>

Spoilt(c) == IF c.state = "good" THEN [c EXCEPT !.state = "revoked"] ELSE c

\* NetBird takes a static token no more.
Lapse ==
  /\ \E c \in Static \ lapsed : lapsed' = lapsed \cup {c}
  /\ UNCHANGED <<creds, slot, mgr, work>>

\* The issuer or NetBird revokes every token issued so far.
Revoke ==
  /\ mgr' = [a \in Manager |-> [mgr[a] EXCEPT !.client = Spoilt(@)]]
  /\ work' = [w \in Worker |-> [work[w] EXCEPT !.client = Spoilt(@)]]
  /\ UNCHANGED <<creds, lapsed, slot>>

\* The user replaces the credentials.
RotateCredentials ==
  /\ creds < MaxCreds
  /\ creds' = creds + 1
  /\ UNCHANGED <<lapsed, slot, mgr, work>>

\* The process is restarted: the cache and everything in memory is lost.
Restart ==
  /\ slot' = Nobody
  /\ mgr' = [a \in Manager |-> Unused]
  /\ work' = [w \in Worker |-> Rest]
  /\ UNCHANGED <<creds, lapsed>>

-----------------------------------------------------------------------------
(* Specification *)

WorkerStep(w) ==
  \/ Extract(w) \/ Load(w) \/ Store(w)
  \/ Serve(w) \/ Rewrap(w) \/ StartRefresh(w) \/ Receive(w) \/ RefreshFails(w)
  \/ Accept(w) \/ Reject(w)

Next ==
  \/ \E w \in Worker : WorkerStep(w)
  \/ Tick \/ Lapse \/ Revoke \/ RotateCredentials \/ Restart

Spec == Init /\ [][Next]_vars

\* Requests come back, reconciles are repeated, and sync.Mutex starves nobody.
\* At some point the issuer and the process stop failing and tokens are not
\* revoked faster than they are used.
Fairness ==
  /\ \A w \in Worker :
       /\ WF_vars(WorkerStep(w))
       /\ SF_vars(Serve(w) \/ Rewrap(w) \/ StartRefresh(w))
  /\ <>[][~Restart /\ ~Revoke /\ \A w \in Worker : RefreshFails(w) => Receive(w)]_vars

LiveSpec == Spec /\ Fairness

-----------------------------------------------------------------------------
(* Properties *)

\* The mutex of a manager is held by exactly the worker that is refreshing it, so
\* no failing path keeps it and no two tokens are requested at once.
MutexHeldByRefresher ==
  \A a \in Manager, w \in Worker :
    mgr[a].owner = w <=> work[w].pc \in {"refresh", "forcing"} /\ work[w].mgr = a

\* The margin of tokenNeedsRefresh does its work: no handler calls NetBird with an
\* issued token that has expired, however late in its request time the issuer's
\* answer came and however long the handler then takes.  A token that was issued for
\* less than the request and the handler may take cannot be saved by any margin; it
\* is requested anew for each handler, and never used for longer than those two.
NoExpiredTokenInUse ==
  \A w \in Worker :
    LET c == work[w].client IN
    work[w].pc = "call" /\ Issued(c) => c.age <= c.life \/ c.age <= 2 * Timeout

\* Nobody waits for the mutex for ever.
NobodyWaitsForever ==
  \A w \in Worker : work[w].pc \in {"get", "force"} ~> work[w].pc \notin {"get", "force"}

\* A revoked token in the shared manager is replaced, by whichever reconcile
\* meets the 401 in Observe, when it was issued: for a static token that has lapsed
\* ForceRefresh (auth.go:128-134) has no other to install.
RevokedTokenReplaced ==
  slot # Nobody /\ mgr[slot].client.state = "revoked"
    ~> slot = Nobody \/ mgr[slot].client.state # "revoked"

\* nbgroup.go:97-101 and its ten siblings: Connect forms a client "using the
\* credentials" of the resource's ProviderConfig, which it has just extracted.
ClientFollowsCredentials ==
  \A w \in Worker :
    work[w].pc \in {"get", "refresh", "call"} => mgr[work[w].mgr].creds = work[w].seen

-----------------------------------------------------------------------------
(* The inductive invariant behind the safety properties *)

\* Whoever has connected holds a manager.
HoldsManager ==
  \A w \in Worker :
    work[w].pc \in {"get", "refresh", "call", "force", "forcing"} => work[w].mgr \in Manager

\* A manager misjudges the age of an issued token by the time the request took, and
\* a handler set out with one that had a request's time left, or with a new one.
TokenAges ==
  /\ \A a \in Manager :
       Issued(mgr[a].client) => mgr[a].client.age <= mgr[a].since + Timeout
  /\ \A w \in Worker :
       LET c == work[w].client IN
       work[w].pc = "call" /\ Issued(c) =>
         \/ c.age + Timeout <= c.life + work[w].spent
         \/ c.age <= Timeout + work[w].spent

\* Only managers of OAuth credentials hold issued tokens and ask for them, only the
\* others hold static ones, and a handler works with a token of its own manager.
TokensMatchCredentials ==
  /\ \A a \in Manager :
       /\ Issued(mgr[a].client) => mgr[a].creds \notin Static
       /\ mgr[a].client.state = "static" => mgr[a].creds \in Static
  /\ \A w \in Worker :
       LET c == work[w].client
           static == mgr[work[w].mgr].creds \in Static
       IN  /\ work[w].pc \in {"refresh", "forcing"} => ~static
           /\ work[w].pc = "call" => IF static THEN c.state = "static" ELSE Issued(c)

\* Whoever has connected has a manager, a mutex is held by the worker that refreshes,
\* no manager takes an issued token for younger by more than a request's time, and
\* what a handler works with is of the kind its credentials are.
IInv == HoldsManager /\ MutexHeldByRefresher /\ TokenAges /\ TokensMatchCredentials
=============================================================================
