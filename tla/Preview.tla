------------------------------- MODULE Preview -------------------------------
(***************************************************************************)
(* Preview gateways (preview.rs): an administrator registers a loopback    *)
(* port, which opens a gateway; a paired device launches it with a ticket  *)
(* that a browser turns into a cookie, and every proxied request is        *)
(* checked against the cookie, the device and the process behind the port. *)
(* Registrations compete for one gateway port.  A grant is its preview and *)
(* its device; headers, cookies and bodies are left out.                   *)
(***************************************************************************)
EXTENDS Naturals, FiniteSets

CONSTANTS
  Reg,          \* register calls; each is the preview it creates
  Client,       \* paired devices
  Task,         \* requests at the gateways
  Project,      \* projects
  ProjectOf,    \* [Reg -> Project]
  None,
  MaxLaunches,  \* tickets outstanding (64)
  MaxBrowsers,  \* cookies outstanding (128)
  MaxProcess    \* bound of the model: processes that listen on the upstream port

ASSUME PreviewBounds ==
  /\ ProjectOf \in [Reg -> Project] /\ None \notin Project
  /\ {MaxLaunches, MaxBrowsers, MaxProcess} \subseteq Nat \ {0}

VARIABLES
  reg,        \* where each register call is
  approved,   \* the process identity it saw
  entries,    \* Inner::entries
  canceled,   \* entries whose stop token is canceled
  slot,       \* the project that the origin is bound to in the database
  launches,   \* Inner::launches, as <<preview, device>>
  browsers,   \* Inner::browsers, likewise
  asking,     \* devices inside launch, past its authentication
  upstream,   \* the process listening on the upstream port
  revoked,    \* revoked devices
  blocked,    \* remote access is blocked
  purging,    \* devices, or None for a block, whose preview grants are still to be purged
  unsaved,    \* devices whose revocation could not be written and was not repeated since
  req         \* the requests

vars == <<reg, approved, entries, canceled, slot, launches, browsers, asking, upstream, revoked,
          blocked, purging, unsaved, req>>
registry == <<reg, approved, slot>>
grants == <<launches, browsers>>
auth == <<revoked, blocked, purging, unsaved>>

Grant == Reg \X Client
\* A request that has ended: nothing flows.  (A WebSocket may still wait to say so.)
Done == [at |-> "done", preview |-> None, client |-> None, token |-> "live"]
\* The places of a request that holds its device's revocation token.
Holding == {"held", "sent", "connecting", "flowing", "sending"}

Init ==
  /\ reg = [r \in Reg |-> "idle"] /\ approved = [r \in Reg |-> 0]
  /\ entries = {} /\ canceled = {} /\ slot = None
  /\ launches = {} /\ browsers = {} /\ asking = {} /\ upstream = 1
  /\ revoked = {} /\ blocked = FALSE /\ purging = {} /\ unsaved = {}
  /\ req = [q \in Task |-> Done]

Usable(c) == ~blocked /\ c \notin revoked
Go(r, place) == reg' = [reg EXCEPT ![r] = place]
\* The calls and gateways that hold the gateway port's listener.
Listening == {r \in Reg : reg[r] \in {"bound", "listed", "serving"}}

-----------------------------------------------------------------------------
(* register, remove and shutdown. *)

Identify(r) ==
  /\ reg[r] = "idle" /\ Go(r, "identified")
  /\ approved' = [approved EXCEPT ![r] = upstream]
  /\ UNCHANGED <<entries, canceled, slot, grants, asking, upstream, auth, req>>

Bind(r) ==
  /\ reg[r] = "identified" /\ Go(r, IF Listening = {} THEN "bound" ELSE "failed")
  /\ UNCHANGED <<approved, entries, canceled, slot, grants, asking, upstream, auth, req>>

\* All entries of the model have the same gateway port, so a listed one refuses the next.  The
\* limit of eight entries is never met first: there are eight gateway ports.
Insert(r) ==
  /\ reg[r] = "bound"
  /\ IF entries # {}
     THEN Go(r, "failed") /\ UNCHANGED entries
     ELSE Go(r, "listed") /\ entries' = entries \cup {r}
  /\ UNCHANGED <<approved, canceled, slot, grants, asking, upstream, auth, req>>

\* reserve_preview_slot, and then the gateway is spawned.  A preview that is refused is
\* taken off the list again; its stop token and its grants are left alone.
Reserve(r) ==
  /\ reg[r] = "listed"
  /\ \/ /\ slot \in {None, ProjectOf[r]} /\ slot' = ProjectOf[r]
        /\ Go(r, "serving") /\ UNCHANGED entries
     \/ /\ Go(r, "failed") /\ entries' = entries \ {r} /\ UNCHANGED slot
  /\ UNCHANGED <<approved, canceled, grants, asking, upstream, auth, req>>

\* The administrator's connection goes away and the handler is dropped at an await.
Abandon(r) ==
  /\ reg[r] \in {"identified", "listed"} /\ Go(r, "failed")
  /\ UNCHANGED <<approved, entries, canceled, slot, grants, asking, upstream, auth, req>>

\* axum::serve sees the stop token and drops the listener.
GatewayStops(r) ==
  /\ reg[r] = "serving" /\ r \in canceled /\ Go(r, "closed")
  /\ UNCHANGED <<approved, entries, canceled, slot, grants, asking, upstream, auth, req>>

\* Mutant of Remove: the tickets of the preview stay.
RemoveKeeps(r) ==
  /\ reg[r] # "idle" /\ entries' = entries \ {r}
  /\ canceled' = IF r \in entries THEN canceled \cup {r} ELSE canceled
  /\ browsers' = {g \in browsers : g[1] # r}
  /\ UNCHANGED <<registry, launches, asking, upstream, auth, req>>

\* Mutant of Remove: the gateway is not told.
RemoveQuietly(r) ==
  /\ reg[r] # "idle" /\ entries' = entries \ {r}
  /\ launches' = {g \in launches : g[1] # r} /\ browsers' = {g \in browsers : g[1] # r}
  /\ UNCHANGED <<registry, canceled, asking, upstream, auth, req>>

Remove(r) ==
  /\ reg[r] # "idle" /\ entries' = entries \ {r}
  /\ canceled' = IF r \in entries THEN canceled \cup {r} ELSE canceled
  /\ launches' = {g \in launches : g[1] # r} /\ browsers' = {g \in browsers : g[1] # r}
  /\ UNCHANGED <<registry, asking, upstream, auth, req>>

Shutdown ==
  /\ entries # {} /\ canceled' = canceled \cup entries /\ entries' = {}
  /\ launches' = {} /\ browsers' = {}
  /\ UNCHANGED <<registry, asking, upstream, auth, req>>

-----------------------------------------------------------------------------
(* launch: the device is authenticated before the lock is taken. *)

LaunchAuth(c) ==
  /\ Usable(c) /\ c \notin asking /\ asking' = asking \cup {c}
  /\ UNCHANGED <<registry, entries, canceled, grants, upstream, auth, req>>

Launch(c, r) ==
  /\ c \in asking /\ asking' = asking \ {c}
  /\ launches' = IF r \in entries /\ Cardinality(launches) < MaxLaunches
                 THEN launches \cup {<<r, c>>} ELSE launches
  /\ UNCHANGED <<registry, entries, canceled, browsers, upstream, auth, req>>

\* A ticket or a cookie is past its time: prune drops it before anything reads it.
Expire ==
  /\ \/ \E g \in launches : launches' = launches \ {g} /\ UNCHANGED browsers
     \/ \E g \in browsers : browsers' = browsers \ {g} /\ UNCHANGED launches
  /\ UNCHANGED <<registry, entries, canceled, asking, upstream, auth, req>>

-----------------------------------------------------------------------------
(* A request at a gateway. *)

At(q, place) == req[q].at = place
Step(q, place) == req' = [req EXCEPT ![q].at = place]
End(q) == req' = [req EXCEPT ![q] = Done]
inner == <<entries, grants>>

\* proxy_inner refuses at once when the gateway is stopped; a consume call then reads its body,
\* another request looks its cookie up under the lock.
Arrive(q, r, place, c) ==
  /\ At(q, "done") /\ reg[r] = "serving" /\ r \notin canceled
  /\ place = "found" => <<r, c>> \in browsers
  /\ req' = [req EXCEPT ![q] = [at |-> place, preview |-> r, client |-> c, token |-> "live"]]
  /\ UNCHANGED <<registry, inner, canceled, asking, upstream, auth>>

\* The ticket is spent even when its device may no longer use it, and a ticket of another
\* preview is spent for nothing (Expire).  All of it under the lock.
Consume(q) ==
  LET g == <<req[q].preview, req[q].client>> IN
  /\ At(q, "consume") /\ End(q)
  /\ launches' = launches \ {g}
  /\ browsers' = IF g \in launches /\ Usable(g[2]) /\ Cardinality(browsers) < MaxBrowsers
                 THEN browsers \cup {g} ELSE browsers
  /\ UNCHANGED <<registry, entries, canceled, asking, upstream, auth>>

\* device_principal: from here the request holds the device's revocation token.
Authorise(q) ==
  /\ At(q, "found") /\ IF Usable(req[q].client) THEN Step(q, "held") ELSE End(q)
  /\ UNCHANGED <<registry, inner, canceled, asking, upstream, auth>>

\* The process behind the port is asked for again.  A change stops the gateway for good and
\* leaves the entry listed; a lookup that fails only ends the request.
CheckIdentity(q) ==
  /\ At(q, "held")
  /\ \/ /\ upstream = approved[req[q].preview] /\ \E place \in {"sent", "connecting"} : Step(q, place)
        /\ UNCHANGED canceled
     \/ /\ upstream # approved[req[q].preview] /\ End(q)
        /\ canceled' = canceled \cup {req[q].preview}
     \/ End(q) /\ UNCHANGED canceled
  /\ UNCHANGED <<registry, inner, asking, upstream, auth>>

\* The upstream answers, and a response body flows.
Reply(q) ==
  /\ At(q, "sent") /\ Step(q, "flowing")
  /\ UNCHANGED <<registry, inner, canceled, asking, upstream, auth>>

\* The upstream of a WebSocket is connected, or it is not within five seconds.
Upgrade(q) ==
  /\ At(q, "connecting") /\ (Step(q, "flowing") \/ End(q))
  /\ UNCHANGED <<registry, inner, canceled, asking, upstream, auth>>

\* The loop of the body or of the WebSocket has the next chunk and hands it on: it polls no
\* token until the other side has taken it, or is gone.
Forward(q) ==
  /\ At(q, "flowing") /\ Step(q, "sending")
  /\ UNCHANGED <<registry, inner, canceled, asking, upstream, auth>>

Forwarded(q) ==
  /\ At(q, "sending") /\ (Step(q, "flowing") \/ End(q))
  /\ UNCHANGED <<registry, inner, canceled, asking, upstream, auth>>

\* The request ends by itself: an error, the end of the body, a closed or expired socket.
Finish(q) ==
  /\ (At(q, "sent") \/ At(q, "flowing")) /\ End(q)
  /\ UNCHANGED <<registry, inner, canceled, asking, upstream, auth>>

\* Mutant of CutOff: a body that flows is not ended by a revocation.
CutOffStopOnly(q) ==
  /\ At(q, "sent") \/ At(q, "flowing")
  /\ req[q].preview \in canceled /\ End(q)
  /\ UNCHANGED <<registry, inner, canceled, asking, upstream, auth>>

\* The selects of proxy_inner, of the response body and of websocket_proxy.
CutOff(q) ==
  /\ At(q, "sent") \/ At(q, "flowing")
  /\ req[q].token = "cut" \/ req[q].preview \in canceled
  /\ End(q)
  /\ UNCHANGED <<registry, inner, canceled, asking, upstream, auth>>

-----------------------------------------------------------------------------
(* Revocation and blocking, as http.rs, local.rs and tray.rs order them.  How a block *)
(* and a resume overlap is Access.                                                    *)

\* Every request that holds a token that these devices still have sees it become this.
Becomes(token, cs) ==
  req' = [q \in Task |-> IF req[q].client \in cs /\ req[q].at \in Holding /\ req[q].token = "live"
                         THEN [req[q] EXCEPT !.token = token] ELSE req[q]]

\* The token is canceled first.  If the device cannot be saved revoke_device returns, and the
\* grants are left alone until the administrator asks again.
Revoke(c, saved) ==
  /\ revoked' = revoked \cup {c} /\ Becomes("cut", {c})
  /\ purging' = IF saved THEN purging \cup {c} ELSE purging
  /\ unsaved' = IF saved THEN unsaved \ {c} ELSE unsaved \cup {c}
  /\ UNCHANGED <<registry, inner, canceled, asking, upstream, blocked>>

Block ==
  /\ blocked' = TRUE /\ purging' = purging \cup {None} /\ Becomes("cut", Client)
  /\ UNCHANGED <<registry, inner, canceled, asking, upstream, revoked, unsaved>>

\* resume_local gives every device that is not revoked a new token, on an open host too: a
\* request that holds the old one is out of reach of every later revocation.
Resume ==
  /\ blocked' = FALSE /\ Becomes("orphan", Client \ revoked)
  /\ UNCHANGED <<registry, inner, canceled, asking, upstream, revoked, purging, unsaved>>

\* PreviewManager::revoke_client, and block_all for None.
Purge(c) ==
  /\ c \in purging /\ purging' = purging \ {c}
  /\ launches' = {g \in launches : c # None /\ g[2] # c}
  /\ browsers' = {g \in browsers : c # None /\ g[2] # c}
  /\ UNCHANGED <<registry, entries, canceled, asking, upstream, revoked, blocked, unsaved, req>>

UpstreamRestarts ==
  /\ upstream < MaxProcess /\ upstream' = upstream + 1
  /\ UNCHANGED <<registry, inner, canceled, asking, auth, req>>

Registering(r) == Identify(r) \/ Bind(r) \/ Insert(r) \/ Reserve(r) \/ Abandon(r)

Serving(q) ==
  \/ Consume(q) \/ Authorise(q) \/ CheckIdentity(q) \/ Reply(q) \/ Upgrade(q)
  \/ Forward(q) \/ Forwarded(q) \/ Finish(q) \/ CutOff(q)

Next ==
  \/ \E r \in Reg : Registering(r) \/ GatewayStops(r) \/ Remove(r)
  \/ Shutdown \/ Expire \/ Block \/ Resume \/ UpstreamRestarts
  \/ \E c \in Client : LaunchAuth(c) \/ (\E saved \in BOOLEAN : Revoke(c, saved)) \/ \E r \in Reg : Launch(c, r)
  \/ \E c \in Client \cup {None} : Purge(c)
  \/ \E q \in Task : Serving(q) \/ \E r \in Reg, c \in Client, place \in {"consume", "found"} :
                                     Arrive(q, r, place, c)

\* The gateways' tasks run; nobody has to connect, approve or revoke anything, or to take
\* what is sent (Forwarded).  The selects are unbiased: a canceled token that is polled again
\* and again beside chunks that are ready is chosen at last, so CutOff is strongly fair.
Spec ==
  /\ Init /\ [][Next]_vars
  /\ \A q \in Task : SF_vars(CutOff(q)) /\ WF_vars(Authorise(q) \/ CheckIdentity(q) \/ Upgrade(q))
  /\ \A r \in Reg : WF_vars(GatewayStops(r))

-----------------------------------------------------------------------------
(* Properties. *)

\* The type invariant.
TypeOK ==
  /\ reg \in [Reg -> {"idle", "identified", "bound", "listed", "serving", "closed", "failed"}]
  /\ approved \in [Reg -> 0 .. MaxProcess] /\ upstream \in 1 .. MaxProcess
  /\ entries \subseteq Reg /\ canceled \subseteq Reg /\ slot \in Project \cup {None}
  /\ launches \subseteq Grant /\ browsers \subseteq Grant
  /\ Cardinality(launches) <= MaxLaunches /\ Cardinality(browsers) <= MaxBrowsers
  /\ asking \subseteq Client /\ revoked \subseteq Client /\ blocked \in BOOLEAN
  /\ purging \subseteq Client \cup {None} /\ unsaved \subseteq Client
  /\ req \in [Task -> [at : Holding \cup {"done", "consume", "found"}, preview : Reg \cup {None},
                       client : Client \cup {None}, token : {"live", "cut", "orphan"}]]

\* A cookie goes with its preview, and the purge of a device without access is under way: the one
\* exception is a revocation that could not be saved.
GrantsDie ==
  \A g \in browsers :
    /\ g[1] \in entries
    /\ g[2] \in revoked => g[2] \in purging \cup unsaved
    /\ blocked => None \in purging

\* The loss of access has reached every request of the device but the ones whose token a resume
\* replaced.
TokensCut ==
  \A q \in Task : req[q].at \in Holding /\ ~Usable(req[q].client) => req[q].token \in {"cut", "orphan"}

\* A browser's cookie outlives nothing it was granted for, the removal of its preview, a block or
\* the revocation of its device, by more than the purge that is under way, although tickets are
\* issued to a device that was checked before the lock was taken and a consume call may be under
\* way at that moment; and a cookie that does opens nothing that is not cut.
CookiesDie == GrantsDie /\ TokensCut

\* A gateway that is not listed any more, and that nobody could remove, has been told to stop,
\* even when it was removed before it was started.
UnlistedStops == \A r \in Reg \ entries : reg[r] = "serving" => r \in canceled

\* What flows through a gateway ends when its device loses its access or its gateway is stopped,
\* if no chunk of it waits for ever to be taken, and if no resume replaced the token before.
CutEnds ==
  \A q \in Task :
    []<>(~At(q, "sending"))
    => ( \/ req[q].at \in Holding /\ ~Usable(req[q].client) /\ req[q].token # "orphan"
         \/ req[q].at \notin {"done", "consume"} /\ req[q].preview \in canceled
         ~> At(q, "done") )
=============================================================================
