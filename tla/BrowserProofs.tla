---------------------------- MODULE BrowserProofs ----------------------------
(***************************************************************************)
(* Proofs about what a browser meets: the preview gateways (Preview), for  *)
(* every set of registrations, devices, requests and projects and every    *)
(* limit, and the page's controller (ControlClient), for any number of     *)
(* faults, hides, pastes and session lists.                                *)
(***************************************************************************)
EXTENDS Preview, ControlClient, FiniteSetTheorems, TLAPS

Request == [at : Holding \cup {"done", "consume", "found"}, preview : Reg \cup {None},
            client : Client \cup {None}, token : {"live", "cut", "orphan"}]

\* A request past its arrival is at a preview whose gateway was started (proxy_inner).
RequestsServed ==
  \A q \in Task : req[q].at # "done" =>
    /\ req[q].preview \in Reg /\ req[q].client \in Client
    /\ reg[req[q].preview] \in {"serving", "closed"}

\* A ticket is for a listed preview, or for one whose reservation failed (register, launch).
TicketsListed == \A g \in launches : g[1] \in entries \/ reg[g[1]] = "failed"

\* A cookie is for a listed preview whose gateway was started (proxy_inner, remove).
CookiesServed == \A g \in browsers : g[1] \in entries /\ reg[g[1]] \in {"serving", "closed"}

\* A preview that left the list before its gateway was started has been stopped (remove).
UnlistedTold ==
  \A r \in Reg \ entries : reg[r] \in {"listed", "serving"} => r \in canceled

Finite == IsFiniteSet(launches) /\ IsFiniteSet(browsers)

IInv ==
  /\ TypeOK /\ Finite
  /\ RequestsServed /\ TicketsListed /\ CookiesServed /\ UnlistedTold
  /\ CookiesDie

\* The limits, one by one.
LEMMA Bounds == MaxLaunches \in Nat \ {0} /\ MaxBrowsers \in Nat \ {0} /\ MaxProcess \in Nat \ {0}
BY PreviewBounds

\* Dropping grants keeps them within their limit.
LEMMA FewerGrants ==
  ASSUME NEW S, IsFiniteSet(S), NEW n \in Nat, Cardinality(S) <= n, NEW T \in SUBSET S
  PROVE  IsFiniteSet(T) /\ Cardinality(T) <= n
<1>1. IsFiniteSet(T) /\ Cardinality(T) <= Cardinality(S)
  BY FS_Subset
<1>2. Cardinality(S) \in Nat /\ Cardinality(T) \in Nat
  BY <1>1, FS_CardinalityType
<1> QED
  BY <1>1, <1>2

\* A grant is added below the limit only.
LEMMA OneMoreGrant ==
  ASSUME NEW S, IsFiniteSet(S), NEW n \in Nat, Cardinality(S) < n, NEW x
  PROVE  IsFiniteSet(S \cup {x}) /\ Cardinality(S \cup {x}) <= n
<1>1. /\ IsFiniteSet(S \cup {x})
      /\ Cardinality(S \cup {x}) = IF x \in S THEN Cardinality(S) ELSE Cardinality(S) + 1
  BY FS_AddElement
<1>2. Cardinality(S) \in Nat
  BY FS_CardinalityType
<1> QED
  BY <1>1, <1>2

LEMMA InitIInv == Init => IInv
<1> USE PreviewBounds DEF Init, IInv, Grant, Done, Holding
<1>0. IsFiniteSet({}) /\ Cardinality({}) = 0
  BY FS_EmptySet
<1>1. Init => TypeOK /\ Finite
  <2> SUFFICES ASSUME Init PROVE TypeOK /\ Finite
    OBVIOUS
  <2>1. 0 \in 0 .. MaxProcess /\ 1 \in 1 .. MaxProcess /\ 0 <= MaxLaunches /\ 0 <= MaxBrowsers
    BY Bounds
  <2>2. Finite /\ Cardinality(launches) <= MaxLaunches /\ Cardinality(browsers) <= MaxBrowsers
    BY <1>0, <2>1 DEF Finite
  <2> QED
    BY <2>1, <2>2 DEF TypeOK
<1>2. Init => RequestsServed /\ TicketsListed /\ CookiesServed /\ UnlistedTold /\ CookiesDie
  BY DEF RequestsServed, TicketsListed, CookiesServed, UnlistedTold, CookiesDie, GrantsDie, TokensCut, Usable
<1> QED
  BY <1>1, <1>2

\* A step of a register call.
LEMMA RegisteringStep ==
  ASSUME IInv, NEW r \in Reg, Registering(r) \/ GatewayStops(r)
  PROVE  IInv'
<1> USE PreviewBounds DEF IInv, TypeOK, Finite, RequestsServed, TicketsListed, CookiesServed,
                          UnlistedTold, CookiesDie, GrantsDie, TokensCut, Usable, Go, grants, auth, registry
<1>1. CASE Identify(r)
  BY <1>1 DEF Identify
<1>2. CASE Bind(r)
  BY <1>2 DEF Bind
<1>3. CASE Insert(r)
  <2>1. CASE entries # {}
    <3>1. reg' = [reg EXCEPT ![r] = "failed"] /\ UNCHANGED entries
      BY <1>3, <2>1 DEF Insert
    <3> QED
      BY <1>3, <3>1 DEF Insert
  <2>2. CASE entries = {}
    <3>1. reg' = [reg EXCEPT ![r] = "listed"] /\ entries' = {r}
      BY <1>3, <2>2 DEF Insert
    <3>2. TypeOK' /\ Finite'
      BY <1>3, <3>1 DEF Insert
    <3>3. RequestsServed'
      BY <1>3, <3>1 DEF Insert
    <3>4. TicketsListed' /\ CookiesServed' /\ CookiesDie'
      BY <1>3, <3>1, <2>2 DEF Insert
    <3>5. UnlistedTold'
      BY <1>3, <3>1, <2>2 DEF Insert
    <3> QED
      BY <3>2, <3>3, <3>4, <3>5
  <2> QED
    BY <2>1, <2>2
<1>4. CASE Reserve(r)
  <2>1. CASE reg' = [reg EXCEPT ![r] = "serving"] /\ UNCHANGED entries
    BY <1>4, <2>1 DEF Reserve
  <2>2. CASE reg' = [reg EXCEPT ![r] = "failed"] /\ entries' = entries \ {r}
    BY <1>4, <2>2 DEF Reserve
  <2> QED
    BY <1>4, <2>1, <2>2 DEF Reserve
<1>5. CASE Abandon(r)
  BY <1>5 DEF Abandon
<1>6. CASE GatewayStops(r)
  BY <1>6 DEF GatewayStops
<1> QED
  BY <1>1, <1>2, <1>3, <1>4, <1>5, <1>6 DEF Registering

\* remove, shutdown, the launch of a preview and the end of a grant's time.
LEMMA GrantStep ==
  ASSUME IInv,
         \/ Shutdown \/ Expire
         \/ \E r \in Reg : Remove(r)
         \/ \E c \in Client : LaunchAuth(c) \/ \E r \in Reg : Launch(c, r)
         \/ \E c \in Client \cup {None} : Purge(c)
  PROVE  IInv'
<1> USE PreviewBounds, Bounds
        DEF IInv, Finite, RequestsServed, TicketsListed, CookiesServed,
            UnlistedTold, CookiesDie, GrantsDie, TokensCut, Usable, grants, auth, registry, Grant
<1>0. ASSUME launches' \subseteq launches, browsers' \subseteq browsers
      PROVE  /\ Finite'
             /\ Cardinality(launches)' <= MaxLaunches /\ Cardinality(browsers)' <= MaxBrowsers
  <2>1. launches' \in SUBSET launches /\ browsers' \in SUBSET browsers
    BY <1>0
  <2> QED
    BY <2>1, FewerGrants DEF TypeOK
<1>1. CASE Shutdown
  BY <1>0, <1>1 DEF Shutdown, TypeOK
<1>2. CASE Expire
  BY <1>0, <1>2 DEF Expire, TypeOK
<1>3. ASSUME NEW r \in Reg, Remove(r) PROVE IInv'
  BY <1>0, <1>3 DEF Remove, TypeOK
<1>4. ASSUME NEW c \in Client, LaunchAuth(c) PROVE IInv'
  BY <1>4 DEF LaunchAuth, TypeOK
<1>5. ASSUME NEW c \in Client, NEW r \in Reg, Launch(c, r) PROVE IInv'
  <2>1. CASE r \in entries /\ Cardinality(launches) < MaxLaunches
    <3>1. launches' = launches \cup {<<r, c>>} /\ <<r, c>> \in Grant
      BY <1>5, <2>1 DEF Launch
    <3>2. IsFiniteSet(launches') /\ Cardinality(launches') <= MaxLaunches
      BY <2>1, <3>1, OneMoreGrant
    <3> QED
      BY <1>5, <2>1, <3>1, <3>2 DEF Launch, TypeOK
  <2>2. CASE ~(r \in entries /\ Cardinality(launches) < MaxLaunches)
    BY <1>5, <2>2 DEF Launch, TypeOK
  <2> QED
    BY <2>1, <2>2
<1>6. ASSUME NEW c \in Client \cup {None}, Purge(c) PROVE IInv'
  BY <1>0, <1>6 DEF Purge, TypeOK
<1> QED
  BY <1>1, <1>2, <1>3, <1>4, <1>5, <1>6

\* A step of a request at a gateway.
LEMMA RequestStep ==
  ASSUME IInv, NEW q \in Task,
         Serving(q) \/ \E r \in Reg, c \in Client, place \in {"consume", "found"} : Arrive(q, r, place, c)
  PROVE  IInv'
<1> USE PreviewBounds, Bounds
        DEF IInv, Finite, RequestsServed, TicketsListed, CookiesServed, UnlistedTold,
            CookiesDie, GrantsDie, TokensCut, Usable, grants, auth, registry, inner, Grant, At,
            Step, End, Done, Holding
<1>1. ASSUME NEW r \in Reg, NEW c \in Client, NEW place \in {"consume", "found"}, Arrive(q, r, place, c)
      PROVE  IInv'
  BY <1>1 DEF Arrive, TypeOK
<1>2. CASE Consume(q)
  <2> DEFINE g == <<req[q].preview, req[q].client>>
  <2>1. /\ g \in Reg \X Client /\ g[1] = req[q].preview /\ g[2] = req[q].client
        /\ reg[g[1]] \in {"serving", "closed"}
    BY <1>2 DEF Consume, TypeOK
  <2>2. CASE g \in launches /\ Usable(g[2]) /\ Cardinality(browsers) < MaxBrowsers
    <3>1. browsers' = browsers \cup {g} /\ launches' = launches \ {g}
      BY <1>2, <2>2 DEF Consume
    <3>2. IsFiniteSet(browsers') /\ Cardinality(browsers') <= MaxBrowsers
      BY <2>2, <3>1, OneMoreGrant
    <3>3. IsFiniteSet(launches') /\ Cardinality(launches') <= MaxLaunches
      BY <3>1, FewerGrants DEF TypeOK
    <3>4. g[1] \in entries /\ g[2] \notin revoked /\ ~blocked
      BY <2>1, <2>2 DEF Usable
    <3>5. TypeOK'
      BY <1>2, <2>1, <3>1, <3>2, <3>3 DEF Consume, TypeOK
    <3> QED
      BY <1>2, <2>1, <3>1, <3>2, <3>3, <3>4, <3>5 DEF Consume, TypeOK
  <2>3. CASE ~(g \in launches /\ Usable(g[2]) /\ Cardinality(browsers) < MaxBrowsers)
    <3>1. browsers' = browsers /\ launches' = launches \ {g}
      BY <1>2, <2>3 DEF Consume
    <3>2. IsFiniteSet(launches') /\ Cardinality(launches') <= MaxLaunches
      BY <3>1, FewerGrants DEF TypeOK
    <3> QED
      BY <1>2, <3>1, <3>2 DEF Consume, TypeOK
  <2> QED
    BY <2>2, <2>3
<1>8. ASSUME NEW place \in Holding, req[q].at # "done", Step(q, place),
             req[q].at \in Holding \/ Usable(req[q].client), UNCHANGED <<reg, auth>>
      PROVE  req' \in [Task -> Request] /\ RequestsServed' /\ TokensCut'
  BY <1>8 DEF TypeOK, Request
<1>9. ASSUME End(q), UNCHANGED <<reg, auth>>
      PROVE  req' \in [Task -> Request] /\ RequestsServed' /\ TokensCut'
  BY <1>9 DEF TypeOK, Request
<1> HIDE DEF Step, End, RequestsServed, TokensCut, Usable
<1>3. CASE Authorise(q)
  BY <1>3, <1>8, <1>9 DEF Authorise, TypeOK, Request
<1>4. CASE CheckIdentity(q)
  <2>1. req[q].preview \in Reg
    BY <1>4 DEF CheckIdentity, RequestsServed
  <2>2. req' \in [Task -> Request] /\ RequestsServed' /\ TokensCut'
    BY <1>4, <1>8, <1>9 DEF CheckIdentity
  <2> QED
    BY <1>4, <2>1, <2>2 DEF CheckIdentity, TypeOK, Request
<1>5. CASE Reply(q) \/ Forward(q)
  BY <1>5, <1>8 DEF Reply, Forward, TypeOK, Request
<1>6. CASE Finish(q) \/ CutOff(q)
  BY <1>6, <1>9 DEF Finish, CutOff, TypeOK, Request
<1>7. CASE Upgrade(q) \/ Forwarded(q)
  BY <1>7, <1>8, <1>9 DEF Upgrade, Forwarded, TypeOK, Request
<1> QED
  BY <1>1, <1>2, <1>3, <1>4, <1>5, <1>6, <1>7 DEF Serving

\* Tokens are canceled or replaced, and nothing else of the requests changes.
LEMMA TokensBecome ==
  ASSUME TypeOK, NEW token \in {"cut", "orphan"}, NEW cs \in SUBSET Client, Becomes(token, cs)
  PROVE  /\ req' \in [Task -> Request]
         /\ \A q \in Task :
              /\ req'[q].at = req[q].at /\ req'[q].preview = req[q].preview
              /\ req'[q].client = req[q].client
              /\ req[q].token # "live" => req'[q].token = req[q].token
              /\ req[q].at \in Holding /\ req[q].client \in cs => req'[q].token # "live"
<1>1. ASSUME NEW v \in Request
      PROVE  LET w == [v EXCEPT !.token = token]
             IN  w \in Request /\ w.at = v.at /\ w.preview = v.preview /\ w.client = v.client
                 /\ w.token = token
  BY DEF Request
<1>2. req \in [Task -> Request]
  BY DEF Request, TypeOK
<1> QED
  BY <1>1, <1>2 DEF Becomes

\* Revocation, block and resume, and the process behind the port.
LEMMA AuthStep ==
  ASSUME IInv, \/ Block \/ Resume \/ UpstreamRestarts
               \/ \E c \in Client, saved \in BOOLEAN : Revoke(c, saved)
  PROVE  IInv'
<1> USE PreviewBounds, Bounds
        DEF IInv, Finite, RequestsServed, TicketsListed, CookiesServed, UnlistedTold,
            CookiesDie, GrantsDie, grants, auth, registry, inner, TypeOK
<1>0. \A q \in Task : /\ req[q] \in Request
                      /\ req[q].at \in Holding => req[q].client \in Client /\ req[q].at # "done"
  BY DEF Request, Holding
<1>1. ASSUME NEW token \in {"cut", "orphan"}, NEW cs \in SUBSET Client, Becomes(token, cs), UNCHANGED reg
      PROVE  req' \in [Task -> Request] /\ RequestsServed'
  <2>1. /\ req' \in [Task -> Request]
        /\ \A q \in Task : /\ req'[q].at = req[q].at /\ req'[q].preview = req[q].preview
                           /\ req'[q].client = req[q].client
    BY <1>1, TokensBecome
  <2> QED
    BY <1>1, <2>1
<1>2. CASE Block
  <2>1. req' \in [Task -> Request] /\ RequestsServed'
    BY <1>1, <1>2 DEF Block
  <2>2. TokensCut'
    <3>1. \A q \in Task : req'[q].at \in Holding => req'[q].token # "live"
      BY <1>0, <1>2, TokensBecome DEF Block
    <3> QED
      BY <2>1, <3>1 DEF TokensCut, Request
  <2> QED
    BY <1>2, <2>1, <2>2 DEF Block, Request
<1>3. CASE Resume
  <2>1. req' \in [Task -> Request] /\ RequestsServed'
    BY <1>1, <1>3 DEF Resume
  <2>2. TokensCut'
    <3> SUFFICES ASSUME NEW q \in Task, req'[q].at \in Holding, ~Usable(req[q].client)', req'[q].token = "live"
                 PROVE  FALSE
      BY <2>1 DEF TokensCut, Request
    <3>1. /\ req'[q].at = req[q].at /\ req'[q].client = req[q].client
          /\ req[q].token # "live" => req'[q].token = req[q].token
      BY <1>3, TokensBecome DEF Resume
    <3>2. req[q].client \in revoked /\ req[q].token = "live" /\ req[q].at \in Holding
      BY <1>3, <3>1 DEF Resume, Usable
    <3> QED
      BY <3>2 DEF TokensCut, Usable
  <2> QED
    BY <1>3, <2>1, <2>2 DEF Resume, Request
<1>4. CASE UpstreamRestarts
  BY <1>4 DEF UpstreamRestarts, TokensCut, Usable
<1>5. ASSUME NEW c \in Client, NEW saved \in BOOLEAN, Revoke(c, saved) PROVE IInv'
  <2>1. req' \in [Task -> Request] /\ RequestsServed'
    BY <1>1, <1>5 DEF Revoke
  <2>2. TokensCut'
    <3> SUFFICES ASSUME NEW q \in Task, req'[q].at \in Holding, ~Usable(req[q].client)', req'[q].token = "live"
                 PROVE  FALSE
      BY <2>1 DEF TokensCut, Request
    <3>1. /\ req'[q].at = req[q].at /\ req'[q].client = req[q].client
          /\ req[q].token # "live" => req'[q].token = req[q].token
          /\ req[q].at \in Holding /\ req[q].client \in {c} => req'[q].token # "live"
      BY <1>5, TokensBecome DEF Revoke
    <3>2. /\ req[q].token = "live" /\ req[q].at \in Holding /\ req[q].client # c
          /\ blocked \/ req[q].client \in revoked
      BY <1>5, <3>1 DEF Revoke, Usable
    <3> QED
      BY <3>2 DEF TokensCut, Usable
  <2> QED
    BY <1>5, <2>1, <2>2 DEF Revoke, Request
<1> QED
  BY <1>2, <1>3, <1>4, <1>5

\* The inductive invariant holds in every reachable state.
THEOREM Invariance == Spec => []IInv
<1>1. IInv /\ [Next]_vars => IInv'
  <2> SUFFICES ASSUME IInv, [Next]_vars PROVE IInv'
    OBVIOUS
  <2>1. CASE UNCHANGED vars
    BY <2>1 DEF vars, IInv, TypeOK, Finite, RequestsServed, TicketsListed, CookiesServed,
                UnlistedTold, CookiesDie, GrantsDie, TokensCut, Usable
  <2>2. CASE Next
    BY <2>2, RegisteringStep, GrantStep, RequestStep, AuthStep DEF Next
  <2> QED
    BY <2>1, <2>2
<1> QED
  BY <1>1, InitIInv, PTL DEF Spec

\* The registry, the grants and the requests stay well-typed and within their limits.
THEOREM TypeCorrect == Spec => []TypeOK
<1>1. IInv => TypeOK
  BY DEF IInv
<1> QED
  BY <1>1, Invariance, PTL

\* A browser's cookie outlives its preview or its device's access only until the purge that is
\* under way, or after a revocation that could not be saved, and no request of a device without
\* access holds a live token (preview.rs proxy_inner, remove, revoke_client, block_all;
\* http.rs revoke_device; auth.rs revoke, resume_local).
THEOREM CookiesDieWithGrant == Spec => []CookiesDie
<1>1. IInv => CookiesDie
  BY DEF IInv
<1> QED
  BY <1>1, Invariance, PTL

\* A gateway that left the list has been told to stop (preview.rs register, remove).
THEOREM UnlistedIsStopped == Spec => []UnlistedStops
<1>1. IInv => UnlistedStops
  BY DEF IInv, UnlistedTold, UnlistedStops
<1> QED
  BY <1>1, Invariance, PTL

-----------------------------------------------------------------------------
(* The page's controller. *)

One(b) == IF b THEN 1 ELSE 0

\* A broken socket whose close event will start a timer: the controller's, or one that
\* the current call may still adopt.
Closing == socket \in Call /\ ws[socket] = "closing"
Adopting == attempt \in Call /\ CallAt(attempt, "made") /\ ws[attempt] = "closing"

\* What has started, or will start, a connect(), is paid for by a fault or by the page.
Paced ==
  attempt + One(attempt = 0) + One(timer) + strays + One(Closing) + One(Adopting) + One(~visible)
    <= 1 + faults + 2 * hides

\* A call makes its socket before it can be over, and one that has not begun makes none.
Sockets ==
  \A k \in Call :
    /\ ws[k] = "none" \/ CallAt(k, "made") \/ CallAt(k, "over")
    /\ k > attempt => CallAt(k, "none")
    /\ k = socket => CallAt(k, "over")

\* The inductive invariant.
PageInv == PageTypeOK /\ NoLeftovers /\ Paced /\ Sockets

\* The bounds, one by one.
LEMMA PageBounds ==
  /\ MaxFaults \in Nat /\ MaxHides \in Nat /\ MaxPastes \in Nat /\ MaxAsks \in Nat
  /\ MaxAttempt \in Nat /\ Other \in Nat /\ MaxAttempt = 1 + MaxFaults + 2 * MaxHides
BY ClientBounds DEF MaxAttempt, Other

\* A call of connect().
CallRec == [at : {"none", "auth", "host", "list", "ticket", "made", "over"},
            origin : {"page", "timer"}]

LEMMA PageInitInv == PageInit => PageInv
<1> SUFFICES ASSUME PageInit PROVE PageInv
  OBVIOUS
<1> USE PageBounds
<1>1. PageTypeOK
  <2>1. call \in [Call -> CallRec]
    BY DEF PageInit, NoCall, CallRec
  <2>2. ws \in [Call -> {"none", "open", "greeted", "closing", "closed"}]
    BY DEF PageInit
  <2>3. Other \in Nat
    BY DEF Other
  <2>4. /\ lease \in 0 .. Other /\ attempt \in 0 .. MaxAttempt
        /\ socket \in 0 .. MaxAttempt /\ conn \in 0 .. MaxAttempt
    BY <2>3 DEF PageInit
  <2>5. /\ hides \in 0 .. MaxHides /\ faults \in 0 .. MaxFaults
        /\ pastes \in 0 .. MaxPastes /\ asks \in 0 .. MaxAsks
    BY DEF PageInit
  <2> QED
    BY <2>1, <2>2, <2>4, <2>5 DEF PageInit, PageTypeOK, CallRec
<1>2. NoLeftovers
  BY DEF PageInit, NoLeftovers, Live
<1>4. Sockets
  BY DEF PageInit, Sockets, CallAt, NoCall, Call
<1>3. Paced
  BY DEF PageInit, Paced, One, Closing, Adopting, Call
<1> QED
  BY <1>1, <1>2, <1>3, <1>4 DEF PageInv

\* There is room for one more attempt.
LEMMA RoomLeft ==
  ASSUME PageTypeOK, Paced, attempt = 0 \/ timer \/ strays > 0 \/ ~visible \/ hides < MaxHides
  PROVE  attempt + 1 \in 0 .. MaxAttempt
BY PageBounds DEF PageTypeOK, Paced, One

\* A call goes on.
LEMMA Goes ==
  ASSUME PageTypeOK, NEW k \in Call, NEW place \in {"host", "list", "ticket", "made", "over"},
         CallGo(k, place)
  PROVE  /\ call' \in [Call -> CallRec]
         /\ call'[k].at = place /\ \A j \in Call : j # k => call'[j] = call[j]
BY DEF PageTypeOK, CallGo, CallRec

\* disconnected() starts at most one timer, and none when stopped.
LEMMA Loses ==
  ASSUME PageTypeOK, Disconnected
  PROVE  /\ connected' = FALSE /\ conn' = 0 /\ lease' = 0 /\ pending' = {} /\ gate' = FALSE
         /\ timer' \in BOOLEAN /\ strays' \in Nat /\ UNCHANGED <<met, pastes>>
         /\ One(timer') + strays' <= One(timer) + strays + 1
BY DEF PageTypeOK, Disconnected, One

\* What disconnected() leaves of the view, the input and the timers, if it is called at all.
Quieter ==
  /\ connected' \in BOOLEAN /\ conn' \in 0 .. MaxAttempt /\ lease' \in 0 .. Other
  /\ lease' \in {0, lease} /\ pending' \subseteq pending /\ gate' \in BOOLEAN /\ (gate' => gate)
  /\ timer' \in BOOLEAN /\ strays' \in Nat /\ UNCHANGED <<met, pastes>>
  /\ One(timer') + strays' <= One(timer) + strays + 1

LEMMA Quiets ==
  ASSUME PageTypeOK, Disconnected \/ UNCHANGED <<view, input, clock>>
  PROVE  Quieter
<1> USE PageBounds
<1>1. CASE Disconnected
  <2>1. 0 \in 0 .. Other /\ 0 \in 0 .. MaxAttempt
    OBVIOUS
  <2> QED
    BY <1>1, <2>1, Loses DEF Quieter
<1>2. CASE UNCHANGED <<view, input, clock>>
  BY <1>2 DEF PageTypeOK, view, input, clock, One, Quieter
<1> QED
  BY <1>1, <1>2

\* connect(), from wherever it is called.
LEMMA Connects ==
  ASSUME PageInv, attempt + 1 \in 0 .. MaxAttempt,
         NEW origin \in {"page", "timer"}, NEW n \in Nat, Connect(origin, n)
  PROVE  /\ call' \in [Call -> CallRec] /\ call'[attempt + 1].at = "auth"
         /\ \A j \in Call : j # attempt + 1 => call'[j] = call[j]
         /\ attempt' = attempt + 1 /\ attempt' \in Call
         /\ stopped' = FALSE /\ timer' = FALSE /\ strays' = n
         /\ UNCHANGED <<socket, ws, lists, connected, conn, lease, met, pending, gate, pastes,
                        faults, asks>>
<1>1. attempt + 1 \in Call
  BY PageBounds DEF PageInv, PageTypeOK, Call
<1>2. [at |-> "auth", origin |-> origin] \in CallRec
  BY DEF CallRec
<1>3. call \in [Call -> CallRec]
  BY DEF PageInv, PageTypeOK, CallRec
<1> QED
  BY <1>1, <1>2, <1>3 DEF Connect, view, input, bounds

\* connect() keeps the invariant when what calls it pays for it: the page has just been
\* opened or was hidden, or a timer has run out.
LEMMA ConnectStep ==
  ASSUME PageInv, NEW origin \in {"page", "timer"}, NEW n \in Nat, Connect(origin, n),
         visible' \in BOOLEAN, UNCHANGED hides, n <= strays,
         One(~visible') + n + 1 <= One(attempt = 0) + One(timer) + strays + One(~visible)
  PROVE  PageInv'
<1> USE PageBounds
<1>0. PageTypeOK /\ NoLeftovers /\ Paced /\ Sockets
  BY DEF PageInv
<1>1. attempt + 1 \in 0 .. MaxAttempt
  BY <1>0, RoomLeft DEF PageTypeOK, One
<1>2. /\ call' \in [Call -> CallRec] /\ call'[attempt + 1].at = "auth"
      /\ \A j \in Call : j # attempt + 1 => call'[j] = call[j]
      /\ attempt' = attempt + 1 /\ attempt' \in Call
      /\ stopped' = FALSE /\ timer' = FALSE /\ strays' = n
      /\ UNCHANGED <<socket, ws, lists, connected, conn, lease, met, pending, gate, pastes,
                     faults, asks>>
  BY <1>1, Connects
<1>3. PageTypeOK'
  BY <1>0, <1>1, <1>2 DEF PageTypeOK, CallRec
<1>4. NoLeftovers'
  BY <1>0, <1>2 DEF NoLeftovers, Live, CallAt, Sockets, PageTypeOK
<1>5. Sockets'
  <2>1. attempt \in Nat /\ \A k \in Call : k \in Nat
    BY <1>0 DEF PageTypeOK, Call
  <2>2. /\ attempt + 1 # socket /\ ws[attempt + 1] = "none"
        /\ \A k \in Call : k > attempt + 1 => k > attempt
    BY <1>0, <1>2, <2>1 DEF Sockets, CallAt
  <2>3. ASSUME NEW k \in Call, k # attempt + 1
        PROVE  /\ ws'[k] = "none" \/ CallAt(k, "made")' \/ CallAt(k, "over")'
               /\ k > attempt' => CallAt(k, "none")'
               /\ k = socket' => CallAt(k, "over")'
    BY <1>0, <1>2, <2>2, <2>3 DEF Sockets, CallAt
  <2>4. ws'[attempt + 1] = "none" /\ ~(attempt + 1 > attempt') /\ attempt + 1 # socket'
    BY <1>2, <2>1, <2>2
  <2> QED
    BY <2>3, <2>4 DEF Sockets
<1>6. Paced'
  <2>1. ~Adopting' /\ (Closing' <=> Closing) /\ attempt' # 0
    BY <1>0, <1>2 DEF Adopting, Closing, CallAt, PageTypeOK
  <2>2. /\ One(Adopting') = 0 /\ One(Closing') = One(Closing)
        /\ One(attempt' = 0) = 0 /\ One(timer') = 0
    BY <1>2, <2>1 DEF One
  <2>3. /\ One(attempt = 0) \in {0, 1} /\ One(timer) \in {0, 1} /\ One(~visible) \in {0, 1}
        /\ One(~visible') \in {0, 1} /\ One(Adopting) \in {0, 1} /\ One(Closing) \in {0, 1}
    BY DEF One
  <2> QED
    BY <1>0, <1>2, <2>2, <2>3 DEF Paced, PageTypeOK
<1> QED
  BY <1>3, <1>4, <1>5, <1>6 DEF PageInv

-----------------------------------------------------------------------------
(* One lemma for each action. *)

LEMMA OpenStep == ASSUME PageInv, Open PROVE PageInv'
<1>1. attempt = 0 /\ Connect("page", strays) /\ UNCHANGED <<visible, hides>>
  BY DEF Open, page
<1>2. One(attempt = 0) = 1 /\ One(timer) \in {0, 1} /\ One(~visible) \in {0, 1}
      /\ One(~visible') = One(~visible) /\ strays \in Nat /\ visible' \in BOOLEAN
  BY <1>1 DEF One, PageInv, PageTypeOK
<1>3. One(~visible') + strays + 1 <= One(attempt = 0) + One(timer) + strays + One(~visible)
  BY <1>2
<1> QED
  BY <1>1, <1>2, <1>3, ConnectStep

LEMMA ShowStep == ASSUME PageInv, Show PROVE PageInv'
<1>1. ~visible /\ Connect("page", strays) /\ visible' = TRUE /\ UNCHANGED hides
  BY DEF Show
<1>2. One(attempt = 0) \in {0, 1} /\ One(timer) \in {0, 1} /\ One(~visible) = 1
      /\ One(~visible') = 0 /\ strays \in Nat
  BY <1>1 DEF One, PageInv, PageTypeOK
<1>3. One(~visible') + strays + 1 <= One(attempt = 0) + One(timer) + strays + One(~visible)
  BY <1>2
<1> QED
  BY <1>1, <1>2, <1>3, ConnectStep

LEMMA FireTimerStep == ASSUME PageInv, FireTimer PROVE PageInv'
<1>0. timer
  BY DEF FireTimer
<1>1. Connect("timer", strays) /\ UNCHANGED <<visible, hides>>
  BY DEF FireTimer, page
<1>2. One(attempt = 0) \in {0, 1} /\ One(timer) = 1 /\ One(~visible) \in {0, 1}
      /\ One(~visible') = One(~visible) /\ strays \in Nat /\ visible' \in BOOLEAN
  BY <1>0, <1>1 DEF One, PageInv, PageTypeOK
<1>3. One(~visible') + strays + 1 <= One(attempt = 0) + One(timer) + strays + One(~visible)
  BY <1>2
<1> QED
  BY <1>1, <1>2, <1>3, ConnectStep

LEMMA FireStrayStep == ASSUME PageInv, FireStray PROVE PageInv'
<1>1. strays > 0 /\ Connect("timer", strays - 1) /\ UNCHANGED <<visible, hides>>
  BY DEF FireStray, page
<1>2. One(attempt = 0) \in {0, 1} /\ One(timer) \in {0, 1} /\ One(~visible) \in {0, 1}
      /\ One(~visible') = One(~visible) /\ strays \in Nat /\ visible' \in BOOLEAN
  BY <1>1 DEF One, PageInv, PageTypeOK
<1>3. strays - 1 \in Nat
  BY <1>1, <1>2
<1>4. One(~visible') + (strays - 1) + 1 <= One(attempt = 0) + One(timer) + strays + One(~visible)
  BY <1>1, <1>2
<1> QED
  BY <1>1, <1>2, <1>3, <1>4, ConnectStep

LEMMA StopStep == ASSUME PageInv, Stop PROVE PageInv'
<1> USE PageBounds
<1>0. PageTypeOK /\ NoLeftovers /\ Paced /\ Sockets
  BY DEF PageInv
<1>a. attempt + 1 \in 0 .. MaxAttempt
  BY <1>0, RoomLeft DEF Stop
<1>b. ws' \in [Call -> {"none", "open", "greeted", "closing", "closed"}]
  BY <1>0 DEF Stop, Closed, PageTypeOK
<1>c. /\ visible' = FALSE /\ stopped' = TRUE /\ hides < MaxHides /\ hides' = hides + 1 /\ visible
      /\ attempt' = attempt + 1 /\ socket' = 0 /\ connected' = FALSE /\ conn' = 0 /\ lease' = 0
      /\ met' = FALSE /\ pending' = {} /\ gate' = FALSE /\ timer' = FALSE
      /\ UNCHANGED <<call, lists, pastes, strays, faults, asks>>
  BY DEF Stop, bounds
<1>1. PageTypeOK'
  <2>1. 0 \in 0 .. Other /\ 0 \in 0 .. MaxAttempt
    OBVIOUS
  <2>2. hides' \in 0 .. MaxHides
    BY <1>0, <1>c DEF PageTypeOK
  <2> QED
    BY <1>0, <1>a, <1>b, <1>c, <2>1, <2>2 DEF PageTypeOK
<1>2. NoLeftovers'
  BY <1>0 DEF NoLeftovers, Live, CallAt, Closed, Stop
<1>3. Sockets'
  <2>1. attempt \in Nat /\ \A k \in Call : k \in Nat /\ k # 0
    BY <1>0 DEF PageTypeOK, Call
  <2>2. \A k \in Call : k > attempt + 1 => k > attempt
    BY <2>1
  <2>3. \A k \in Call : ws'[k] = "none" <=> ws[k] = "none"
    BY DEF Stop, Closed, Live
  <2> QED
    BY <1>0, <1>c, <2>1, <2>2, <2>3 DEF Sockets, CallAt
<1>4. Paced'
  <2>1. attempt \in Nat /\ 0 \notin Call /\ (attempt + 1 \in Call => attempt + 1 > attempt)
    BY <1>0 DEF PageTypeOK, Call
  <2>2. ~Closing' /\ ~Adopting' /\ attempt' # 0
    BY <1>0, <1>c, <2>1 DEF Closing, Adopting, Sockets, CallAt
  <2>3. One(Closing') = 0 /\ One(Adopting') = 0 /\ One(attempt' = 0) = 0 /\ One(timer') = 0
    BY <1>c, <2>2 DEF One
  <2>4. One(~visible') = 1 /\ One(~visible) = 0
    BY <1>c DEF One
  <2>5. /\ One(attempt = 0) \in {0, 1} /\ One(timer) \in {0, 1}
        /\ One(Closing) \in {0, 1} /\ One(Adopting) \in {0, 1}
    BY DEF One
  <2> QED
    BY <1>0, <1>c, <2>3, <2>4, <2>5 DEF Paced, PageTypeOK
<1> QED
  BY <1>1, <1>2, <1>3, <1>4 DEF PageInv

LEMMA ResumeStep == ASSUME PageInv, NEW k \in Call, ResumeCall(k) PROVE PageInv'
<1> USE PageBounds
<1>0. PageTypeOK /\ NoLeftovers /\ Paced /\ Sockets
  BY DEF PageInv
<1>a. /\ UNCHANGED <<visible, hides, stopped, attempt, socket, ws, connected, conn, lease, met,
                    pending, gate, pastes, timer, strays, faults, asks>>
      /\ lists' \subseteq Call
  BY <1>0 DEF ResumeCall, page, view, input, clock, bounds, PageTypeOK
<1>b. call' \in [Call -> CallRec]
  BY <1>0, Goes DEF ResumeCall
<1>1. PageTypeOK'
  BY <1>0, <1>a, <1>b DEF PageTypeOK, CallRec
<1>2. NoLeftovers'
  BY <1>0 DEF PageTypeOK, NoLeftovers, Live, CallAt, CallGo, view, input, ResumeCall
<1>3. Sockets'
  BY <1>0 DEF PageTypeOK, Sockets, CallAt, CallGo, ResumeCall
<1>4. Paced'
  BY <1>0 DEF PageTypeOK, Paced, Closing, Adopting, CallAt, Sockets, CallGo, page, clock, bounds,
              ResumeCall
<1> QED
  BY <1>1, <1>2, <1>3, <1>4 DEF PageInv

\* A request of call k fails; if the call is rejected, disconnected() may follow.
LEMMA FailureStep ==
  ASSUME PageInv, NEW k \in Call, lists' \subseteq Call,
         faults < MaxFaults, faults' = faults + 1,
         UNCHANGED <<visible, hides, stopped, attempt, socket, ws, asks>>,
         \/ call[k].at \in {"auth", "host", "list", "ticket"} /\ Rejected(k)
         \/ UNCHANGED <<call, view, input, clock>>
  PROVE  PageInv'
<1> USE PageBounds
<1>0. PageTypeOK /\ NoLeftovers /\ Paced /\ Sockets
  BY DEF PageInv
<1>1. /\ call' \in [Call -> CallRec]
      /\ \A j \in Call : \/ call'[j] = call[j]
                         \/ j = k /\ call[j].at # "made" /\ call'[j].at = "over"
  <2>1. call \in [Call -> CallRec]
    BY <1>0 DEF PageTypeOK, CallRec
  <2> QED
    BY <1>0, <2>1, Goes DEF Rejected
<1>2. Quieter
  BY <1>0, Quiets DEF Rejected
<1>3. PageTypeOK'
  BY <1>0, <1>1, <1>2 DEF PageTypeOK, CallRec, Quieter
<1>4. NoLeftovers'
  BY <1>0, <1>1, <1>2 DEF NoLeftovers, Live, CallAt, Quieter
<1>5. Sockets'
  BY <1>0, <1>1 DEF Sockets, CallAt, Call, PageTypeOK
<1>6. Paced'
  <2>1. One(Adopting') <= One(Adopting) /\ One(Adopting) \in {0, 1} /\ One(Adopting') \in {0, 1}
    BY <1>1 DEF One, Adopting, CallAt
  <2>2. One(Closing') = One(Closing) /\ One(Closing) \in {0, 1}
    BY DEF One, Closing
  <2>3. /\ One(timer) \in {0, 1} /\ One(timer') \in {0, 1}
        /\ One(attempt = 0) \in {0, 1} /\ One(~visible) \in {0, 1}
    BY DEF One
  <2>4. strays' \in Nat /\ One(timer') + strays' <= One(timer) + strays + 1
    BY <1>2 DEF Quieter
  <2> QED
    BY <1>0, <2>1, <2>2, <2>3, <2>4 DEF Paced, PageTypeOK
<1> QED
  BY <1>3, <1>4, <1>5, <1>6 DEF PageInv

LEMMA RequestFailsStep == ASSUME PageInv, NEW k \in Call, RequestFails(k) PROVE PageInv'
<1>1. lists' \subseteq Call
  BY DEF RequestFails, PageInv, PageTypeOK
<1> QED
  BY <1>1, FailureStep DEF RequestFails, Fault, CallAt, page

LEMMA MakeSocketStep == ASSUME PageInv, NEW k \in Call, MakeSocket(k) PROVE PageInv'
<1> USE PageBounds
<1>0. PageTypeOK /\ NoLeftovers /\ Paced /\ Sockets
  BY DEF PageInv
<1>1. PageTypeOK'
  BY <1>0 DEF PageTypeOK, CallGo, page, view, input, clock, bounds, MakeSocket
<1>2. NoLeftovers'
  BY <1>0 DEF PageTypeOK, NoLeftovers, Live, CallAt, CallGo, view, input, MakeSocket
<1>3. Sockets'
  BY <1>0 DEF PageTypeOK, Sockets, CallAt, CallGo, MakeSocket
<1>4. Paced'
  BY <1>0 DEF Paced, Closing, Adopting, CallAt, Sockets, CallGo, page, view, input, clock, bounds,
              MakeSocket
<1> QED
  BY <1>1, <1>2, <1>3, <1>4 DEF PageInv

LEMMA AdoptStep == ASSUME PageInv, NEW k \in Call, Adopt(k) PROVE PageInv'
<1> USE PageBounds
<1>0. PageTypeOK /\ NoLeftovers /\ Paced /\ Sockets
  BY DEF PageInv
<1>1. PageTypeOK'
  BY <1>0 DEF PageTypeOK, One, Stale, Closed, CallGo, page, view, input, clock, bounds, Adopt
<1>2. NoLeftovers'
  BY <1>0 DEF NoLeftovers, Live, CallAt, Stale, Closed, CallGo, view, input, Adopt
<1>3. Sockets'
  BY <1>0 DEF PageTypeOK, Sockets, CallAt, Stale, Closed, CallGo, Adopt
<1>4. Paced'
  <2>1. UNCHANGED <<visible, hides, attempt, timer, strays, faults>>
    BY DEF Adopt, page, clock, bounds
  <2>2. One(Adopting) \in {0, 1} /\ One(Closing) \in {0, 1}
    BY DEF One
  <2>3. One(Adopting') + One(Closing') <= One(Adopting) + One(Closing)
    <3>1. CASE Stale(k)
      <4>1. socket' = socket /\ socket # k
        BY <1>0, <3>1 DEF Adopt, Sockets, CallAt
      <4>2. Closing' <=> Closing
        BY <1>0, <3>1, <4>1 DEF Adopt, Closing, Closed, PageTypeOK
      <4>3. Adopting' => Adopting
        BY <1>0, <3>1 DEF Adopt, Adopting, Closed, CallAt, CallGo, PageTypeOK
      <4> QED
        BY <4>2, <4>3 DEF One
    <3>2. CASE ~Stale(k)
      <4>1. k = attempt /\ socket' = k /\ ~Adopting'
        BY <1>0, <3>2 DEF Adopt, Adopting, CallAt, CallGo, PageTypeOK, Stale
      <4>2. Closing' => Adopting
        BY <1>0, <4>1 DEF Adopt, Adopting, Closing, Closed, CallAt, Sockets
      <4> QED
        BY <4>1, <4>2 DEF One
    <3> QED
      BY <3>1, <3>2
  <2>4. One(Adopting') \in {0, 1} /\ One(Closing') \in {0, 1}
    BY DEF One
  <2>5. One(attempt = 0) \in {0, 1} /\ One(timer) \in {0, 1} /\ One(~visible) \in {0, 1}
    BY DEF One
  <2> HIDE DEF One
  <2> QED
    BY <1>0, <2>1, <2>2, <2>3, <2>4, <2>5 DEF Paced, PageTypeOK
<1> QED
  BY <1>1, <1>2, <1>3, <1>4 DEF PageInv

\* A step that touches no call, socket or timer.
LEMMA CalmStep ==
  ASSUME Paced, Sockets,
         UNCHANGED <<visible, hides, attempt, socket, call, ws, timer, strays, faults>>
  PROVE  Paced' /\ Sockets'
BY DEF Paced, Closing, Adopting, Sockets, CallAt

LEMMA AskListStep == ASSUME PageInv, AskList PROVE PageInv'
<1> USE PageBounds
<1>0. PageTypeOK /\ NoLeftovers /\ Paced /\ Sockets
  BY DEF PageInv
<1>1. PageTypeOK'
  BY <1>0 DEF PageTypeOK, page, view, input, clock, AskList
<1>2. NoLeftovers'
  BY <1>0 DEF NoLeftovers, Live, CallAt, view, input, AskList
<1>3. Paced' /\ Sockets'
  BY <1>0, CalmStep DEF AskList, page, clock
<1> QED
  BY <1>1, <1>2, <1>3 DEF PageInv

LEMMA ListReplyStep ==
  ASSUME PageInv, NEW k \in Call, NEW owner \in {Other, socket, conn},
         ListReply(k, owner)
  PROVE  PageInv'
<1> USE PageBounds
<1>0. PageTypeOK /\ NoLeftovers /\ Paced /\ Sockets
  BY DEF PageInv
<1>a. /\ UNCHANGED <<visible, hides, stopped, attempt, socket, ws, connected, conn, met,
                    pending, gate, pastes, timer, strays, faults, asks>>
      /\ lists' \subseteq Call
  BY <1>0 DEF ListReply, page, input, clock, bounds, PageTypeOK
<1>b. call' \in [Call -> CallRec]
  <2>1. call \in [Call -> CallRec]
    BY <1>0 DEF PageTypeOK, CallRec
  <2> QED
    BY <1>0, <2>1, Goes DEF ListReply
<1>c. lease' \in 0 .. Other
  BY <1>0 DEF ListReply, ListShown, PageTypeOK, Other
<1>1. PageTypeOK'
  BY <1>0, <1>a, <1>b, <1>c DEF PageTypeOK, CallRec
<1>2. NoLeftovers'
  BY <1>0 DEF PageTypeOK, NoLeftovers, Live, CallAt, ListShown, CallGo, input, ListReply
<1>3. Sockets'
  BY <1>0 DEF PageTypeOK, Sockets, CallAt, CallGo, ListReply
<1>4. Paced'
  BY <1>0 DEF PageTypeOK, Paced, Closing, Adopting, CallAt, Sockets, CallGo, page, clock, bounds,
              ListReply
<1> QED
  BY <1>1, <1>2, <1>3, <1>4 DEF PageInv

LEMMA ListFailsStep == ASSUME PageInv, NEW k \in Call, ListFails(k) PROVE PageInv'
<1>1. lists' \subseteq Call
  BY DEF ListFails, PageInv, PageTypeOK
<1> QED
  BY <1>1, FailureStep DEF ListFails, Fault, CallAt, page

LEMMA HelloStep == ASSUME PageInv, NEW k \in Call, Hello(k) PROVE PageInv'
<1> USE PageBounds
<1>0. PageTypeOK /\ NoLeftovers /\ Paced /\ Sockets
  BY DEF PageInv
<1>1. PageTypeOK'
  BY <1>0 DEF PageTypeOK, Heard, page, input, clock, bounds, Hello
<1>2. NoLeftovers'
  BY <1>0 DEF NoLeftovers, Live, CallAt, Hello
<1>3. Sockets'
  BY <1>0 DEF Sockets, CallAt, Hello
<1>4. Paced'
  BY <1>0 DEF Paced, Closing, Adopting, CallAt, page, clock, bounds, Hello
<1> QED
  BY <1>1, <1>2, <1>3, <1>4 DEF PageInv

LEMMA LeaseMessageStep == ASSUME PageInv, NEW k \in Call, LeaseMessage(k) PROVE PageInv'
<1> USE PageBounds
<1>0. PageTypeOK /\ NoLeftovers /\ Paced /\ Sockets
  BY DEF PageInv
<1>1. PageTypeOK'
  <2>1. lease' \in 0 .. Other
    BY DEF LeaseMessage, Call, Other
  <2> QED
    BY <1>0, <2>1 DEF PageTypeOK, page, net, input, clock, bounds, LeaseMessage
<1>2. NoLeftovers'
  BY <1>0 DEF NoLeftovers, Live, CallAt, Sockets, Heard, net, LeaseMessage
<1>3. Paced' /\ Sockets'
  BY <1>0, CalmStep DEF LeaseMessage, page, net, clock, bounds
<1> QED
  BY <1>1, <1>2, <1>3 DEF PageInv

LEMMA SettledStep == ASSUME PageInv, NEW k \in Call, Settled(k) PROVE PageInv'
<1> USE PageBounds
<1>0. PageTypeOK /\ NoLeftovers /\ Paced /\ Sockets
  BY DEF PageInv
<1>1. PageTypeOK'
  BY <1>0 DEF PageTypeOK, page, net, view, clock, bounds, Settled
<1>2. NoLeftovers'
  BY <1>0 DEF NoLeftovers, Live, CallAt, net, Settled
<1>3. Paced' /\ Sockets'
  BY <1>0, CalmStep DEF Settled, page, net, clock, bounds
<1> QED
  BY <1>1, <1>2, <1>3 DEF PageInv

LEMMA BreakStep == ASSUME PageInv, NEW k \in Call, Break(k) PROVE PageInv'
<1> USE PageBounds
<1>0. PageTypeOK /\ NoLeftovers /\ Paced /\ Sockets
  BY DEF PageInv
<1>1. PageTypeOK'
  BY <1>0 DEF PageTypeOK, Fault, page, view, input, clock, Break
<1>2. NoLeftovers'
  BY <1>0 DEF NoLeftovers, Live, CallAt, view, input, Break
<1>3. Sockets'
  BY <1>0 DEF Sockets, CallAt, Live, Break
<1>4. Paced'
  BY <1>0 DEF PageTypeOK, Paced, One, Closing, Adopting, CallAt, Sockets, Fault, page, clock,
              Break
<1> QED
  BY <1>1, <1>2, <1>3, <1>4 DEF PageInv

LEMMA OnCloseStep == ASSUME PageInv, NEW k \in Call, OnClose(k) PROVE PageInv'
<1> USE PageBounds
<1>0. PageTypeOK /\ NoLeftovers /\ Paced /\ Sockets
  BY DEF PageInv
<1>a. /\ UNCHANGED <<visible, hides, stopped, attempt, socket, call, lists, faults, asks>>
      /\ ws[k] = "closing" /\ call[k].at # "made" /\ ws' = [ws EXCEPT ![k] = "closed"]
      /\ \/ socket = k /\ Disconnected
         \/ socket # k /\ UNCHANGED <<view, input, clock>>
  BY DEF OnClose, CallAt, page, bounds
<1>b. /\ ws' \in [Call -> {"none", "open", "greeted", "closing", "closed"}]
      /\ ws'[k] = "closed"
      /\ \A j \in Call : j # k => ws'[j] = ws[j]
  BY <1>0, <1>a DEF PageTypeOK
<1>d. Quieter
  BY <1>0, <1>a, Quiets
<1>1. PageTypeOK'
  BY <1>0, <1>a, <1>b, <1>d DEF PageTypeOK, Quieter
<1>2. NoLeftovers'
  BY <1>0, <1>a, <1>b, <1>d DEF NoLeftovers, Live, CallAt, Quieter
<1>3. Sockets'
  BY <1>0, <1>a, <1>b DEF Sockets, CallAt, Call, PageTypeOK
<1>4. Paced'
  <2>1. One(Adopting') <= One(Adopting) /\ One(Adopting) \in {0, 1} /\ One(Adopting') \in {0, 1}
    BY <1>a, <1>b DEF One, Adopting, CallAt
  <2>4. /\ One(timer) \in {0, 1} /\ One(timer') \in {0, 1}
        /\ One(attempt = 0) \in {0, 1} /\ One(~visible) \in {0, 1}
    BY DEF One
  <2>2. CASE socket = k
    <3>1. One(Closing) = 1 /\ One(Closing') = 0
      BY <1>a, <1>b, <2>2 DEF One, Closing
    <3>2. strays' \in Nat /\ One(timer') + strays' <= One(timer) + strays + 1
      BY <1>d DEF Quieter
    <3> QED
      BY <1>0, <1>a, <2>1, <2>4, <3>1, <3>2 DEF Paced, PageTypeOK
  <2>3. CASE socket # k
    <3>1. One(Closing') = One(Closing) /\ One(Closing) \in {0, 1}
      BY <1>a, <1>b, <2>3 DEF One, Closing
    <3>2. timer' = timer /\ strays' = strays
      BY <1>a, <2>3 DEF clock
    <3> QED
      BY <1>0, <1>a, <2>1, <2>4, <3>1, <3>2 DEF Paced, PageTypeOK
  <2> QED
    BY <2>2, <2>3
<1> QED
  BY <1>1, <1>2, <1>3, <1>4 DEF PageInv

LEMMA InputStep == ASSUME PageInv, Input PROVE PageInv'
<1> USE PageBounds
<1>0. PageTypeOK /\ NoLeftovers /\ Paced /\ Sockets
  BY DEF PageInv
<1>1. PageTypeOK'
  BY <1>0 DEF PageTypeOK, page, net, view, clock, bounds, Input
<1>2. NoLeftovers'
  BY <1>0 DEF NoLeftovers, Live, CallAt, owns, net, Input
<1>3. Paced' /\ Sockets'
  BY <1>0, CalmStep DEF Input, page, net, clock, bounds
<1> QED
  BY <1>1, <1>2, <1>3 DEF PageInv

LEMMA PasteStep == ASSUME PageInv, Paste PROVE PageInv'
<1> USE PageBounds
<1>0. PageTypeOK /\ NoLeftovers /\ Paced /\ Sockets
  BY DEF PageInv
<1>1. PageTypeOK'
  BY <1>0 DEF PageTypeOK, page, net, view, clock, bounds, Paste
<1>2. NoLeftovers'
  BY <1>0 DEF NoLeftovers, Live, CallAt, net, Paste
<1>3. Paced' /\ Sockets'
  BY <1>0, CalmStep DEF Paste, page, net, clock, bounds
<1> QED
  BY <1>1, <1>2, <1>3 DEF PageInv

LEMMA PasteEndsStep == ASSUME PageInv, PasteEnds PROVE PageInv'
<1> USE PageBounds
<1>0. PageTypeOK /\ NoLeftovers /\ Paced /\ Sockets
  BY DEF PageInv
<1>a. /\ UNCHANGED <<visible, hides, stopped, attempt, socket, call, ws, lists, connected, conn,
                    lease, met, timer, strays, faults, asks>>
      /\ pastes > 0 /\ pastes' = pastes - 1 /\ gate' = FALSE /\ pending' \subseteq pending
  BY DEF PasteEnds, page, net, view, clock, bounds
<1>b. pastes' \in 0 .. MaxPastes /\ pending' \subseteq {"key", "paste"}
  BY <1>0, <1>a DEF PageTypeOK
<1>1. PageTypeOK'
  BY <1>0, <1>a, <1>b DEF PageTypeOK
<1>2. NoLeftovers'
  BY <1>0 DEF NoLeftovers, Live, CallAt, net, view, PasteEnds
<1>3. Paced' /\ Sockets'
  BY <1>0, CalmStep DEF PasteEnds, page, net, clock, bounds
<1> QED
  BY <1>1, <1>2, <1>3 DEF PageInv

\* Every step keeps the invariant.
LEMMA PageNextInv == PageInv /\ [PageNext]_pageVars => PageInv'
<1> SUFFICES ASSUME PageInv, [PageNext]_pageVars PROVE PageInv'
  OBVIOUS
<1>1. CASE UNCHANGED pageVars
  BY <1>1 DEF PageInv, PageTypeOK, NoLeftovers, Live, Paced, Closing, Adopting, Sockets, CallAt,
              pageVars, page, net, view, input, clock, bounds
<1>2. ASSUME NEW k \in Call, CallStep(k) PROVE PageInv'
  BY <1>2, ResumeStep, RequestFailsStep, MakeSocketStep, AdoptStep, ListFailsStep, ListReplyStep,
     HelloStep, LeaseMessageStep, SettledStep, BreakStep, OnCloseStep DEF CallStep
<1> QED
  BY <1>1, <1>2, OpenStep, ShowStep, StopStep, FireTimerStep, FireStrayStep, AskListStep,
     InputStep, PasteStep, PasteEndsStep DEF PageNext

\* The inductive invariant holds in every reachable state.
THEOREM PageInvariance == PageSpec => []PageInv
<1>1. PageInit => PageInv
  BY PageInitInv
<1>2. PageInv /\ [PageNext]_pageVars => PageInv'
  BY PageNextInv
<1> QED
  BY <1>1, <1>2, PTL DEF PageSpec

\* The controller's variables keep their types: in particular connect() runs at most MaxAttempt
\* times, so that the bound of the model cuts off no behaviour (controller.ts: connect, stop,
\* disconnected).
THEOREM PageTypeCorrect == PageSpec => []PageTypeOK
<1>1. PageInv => PageTypeOK
  BY DEF PageInv
<1> QED
  BY <1>1, PageInvariance, PTL

\* However connection attempts, hiding and retries overlap, an open socket is the controller's
\* or will be decided about, and a stopped controller keeps no lease and no input
\* (controller.ts: connect, stop, disconnected).
THEOREM NothingLeft == PageSpec => []NoLeftovers
<1>1. PageInv => NoLeftovers
  BY DEF PageInv
<1> QED
  BY <1>1, PageInvariance, PTL
=============================================================================
