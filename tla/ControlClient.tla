---------------------------- MODULE ControlClient ----------------------------
(***************************************************************************)
(* The browser's Controller (controller.ts, with the sequencer of          *)
(* policy.ts and the gate of paste.ts): one page, one session.  connect()  *)
(* awaits authentication, the host, the session list and a socket; the     *)
(* page hides, timers fire, requests fail and sockets close at any of      *)
(* these awaits.  A call of connect() and the socket it makes are named by *)
(* the value of attempt it took.  reloadEpoch always equals attempt: both  *)
(* are incremented by connect() and by stop() and nowhere else.            *)
(***************************************************************************)
EXTENDS Naturals, FiniteSets

CONSTANTS
  MaxFaults,  \* bound of the model: failed requests and broken sockets
  MaxHides,   \* bound of the model: times the page is hidden
  MaxPastes,  \* bound of the model: paste uploads at a time
  MaxAsks     \* bound of the model: session lists asked for outside connect()

ASSUME ClientBounds == {MaxFaults, MaxHides, MaxPastes, MaxAsks} \subseteq Nat

VARIABLES
  visible,    \* the page is visible
  hides,      \* times it was hidden
  stopped, attempt,
  call,       \* each connect(): [at, origin], origin the page or a retry timer
  socket,     \* this.socket, or 0
  ws,         \* the state of each socket
  connected,
  conn,       \* connectionId, as the socket that said hello, or 0
  lease,      \* the socket that owns the session's lease in this.sessions, or 0
  lists,      \* reload epochs whose session list is being fetched
  pending,    \* InputSequencer::pending: kinds of input that wait for an outcome
  gate,       \* PasteGate::active has the session
  pastes,     \* paste() calls that wait for their upload
  timer,      \* the timer that retryTimer names is running
  strays,     \* timers that run although retryTimer names a later one
  faults, asks,
  met         \* history: hello was read since the last stop()

page == <<visible, hides>>
net == <<call, ws, lists>>
view == <<connected, conn, lease, met>>
input == <<pending, gate, pastes>>
clock == <<timer, strays>>
bounds == <<faults, asks>>
pageVars == <<page, stopped, attempt, socket, net, view, input, clock, bounds>>

\* Every fault starts at most one timer, and so one connect(); hiding and showing takes two.
MaxAttempt == 1 + MaxFaults + 2 * MaxHides
Call == 1 .. MaxAttempt
Other == MaxAttempt + 1   \* an owner of the lease that is no connection of this page
NoCall == [at |-> "none", origin |-> "page"]

PageInit ==
  /\ visible = TRUE /\ hides = 0 /\ stopped = FALSE /\ attempt = 0
  /\ call = [k \in Call |-> NoCall] /\ socket = 0 /\ ws = [k \in Call |-> "none"]
  /\ connected = FALSE /\ conn = 0 /\ lease = 0 /\ lists = {} /\ met = FALSE
  /\ pending = {} /\ gate = FALSE /\ pastes = 0
  /\ timer = FALSE /\ strays = 0 /\ faults = 0 /\ asks = 0

Live(k) == ws[k] \in {"open", "greeted"}
Fault == faults < MaxFaults /\ faults' = faults + 1 /\ UNCHANGED asks
Stale(k) == stopped \/ k # attempt
CallAt(k, place) == call[k].at = place
CallGo(k, place) == call' = [call EXCEPT ![k].at = place]

\* ws.close() of socket k, if there is one; the close event comes later.
Closed(k) == [j \in Call |-> IF j = k /\ Live(j) THEN "closing" ELSE ws[j]]

-----------------------------------------------------------------------------
(* Starting, stopping, and what a lost connection leaves behind. *)

\* connect(), up to its first await.  clearTimeout reaches only the timer retryTimer names.
Connect(origin, n) ==
  /\ stopped' = FALSE /\ attempt' = attempt + 1
  /\ call' = [call EXCEPT ![attempt + 1] = [at |-> "auth", origin |-> origin]]
  /\ timer' = FALSE /\ strays' = n
  /\ UNCHANGED <<socket, ws, lists, view, input, bounds>>

Open == attempt = 0 /\ Connect("page", strays) /\ UNCHANGED page

\* The page becomes visible again: connect(), whose failure is only shown.
Show == ~visible /\ visible' = TRUE /\ UNCHANGED hides /\ Connect("page", strays)

FireTimer == timer /\ Connect("timer", strays) /\ UNCHANGED page
FireStray == strays > 0 /\ Connect("timer", strays - 1) /\ UNCHANGED page

\* stop(), called when the page is hidden.
Stop ==
  /\ visible /\ attempt > 0 /\ hides < MaxHides
  /\ visible' = FALSE /\ hides' = hides + 1
  /\ stopped' = TRUE /\ attempt' = attempt + 1
  /\ ws' = Closed(socket) /\ socket' = 0
  /\ connected' = FALSE /\ conn' = 0 /\ lease' = 0 /\ met' = FALSE
  /\ pending' = {} /\ gate' = FALSE /\ timer' = FALSE
  /\ UNCHANGED <<call, lists, pastes, strays, bounds>>

\* disconnected(): nothing is resent, and unless stopped a retry is scheduled; a timer that
\* still runs is not cleared.
Disconnected ==
  /\ connected' = FALSE /\ conn' = 0 /\ lease' = 0 /\ pending' = {} /\ gate' = FALSE
  /\ timer' = (timer \/ ~stopped)
  /\ strays' = IF timer /\ ~stopped THEN strays + 1 ELSE strays
  /\ UNCHANGED <<met, pastes>>

-----------------------------------------------------------------------------
(* The awaits of connect(). *)

\* A request succeeded; a stale call returns.
ResumeCall(k) ==
  /\ CallAt(k, "auth") \/ CallAt(k, "host")
  /\ IF Stale(k) THEN CallGo(k, "over") /\ UNCHANGED lists
     ELSE IF CallAt(k, "auth") THEN CallGo(k, "host") /\ UNCHANGED lists
     ELSE CallGo(k, "list") /\ lists' = lists \cup {k}
  /\ UNCHANGED <<page, stopped, attempt, socket, ws, view, input, clock, bounds>>

\* Mutant of Rejected: the timer only shows the error.
RejectedQuietly(k) == CallGo(k, "over") /\ UNCHANGED <<view, input, clock>>

\* The call throws: a retry timer then calls disconnected(), whatever happened meanwhile.
Rejected(k) ==
  /\ CallGo(k, "over")
  /\ IF call[k].origin = "timer" THEN Disconnected ELSE UNCHANGED <<view, input, clock>>

RequestFails(k) ==
  /\ Fault /\ (CallAt(k, "auth") \/ CallAt(k, "host") \/ CallAt(k, "ticket")) /\ Rejected(k)
  /\ UNCHANGED <<page, stopped, attempt, socket, ws, lists>>

\* The ticket came, and the WebSocket is created.
MakeSocket(k) ==
  /\ CallAt(k, "ticket") /\ CallGo(k, "made") /\ ws' = [ws EXCEPT ![k] = "open"]
  /\ UNCHANGED <<page, stopped, attempt, socket, lists, view, input, clock, bounds>>

\* Mutant of Adopt: the socket is kept without asking whether the call is still wanted.
AdoptUnchecked(k) ==
  /\ CallAt(k, "made") /\ CallGo(k, "over") /\ socket' = k /\ ws' = Closed(socket)
  /\ UNCHANGED <<page, stopped, attempt, lists, view, input, clock, bounds>>

Adopt(k) ==
  /\ CallAt(k, "made") /\ CallGo(k, "over")
  /\ IF Stale(k) THEN ws' = Closed(k) /\ UNCHANGED socket
     ELSE ws' = Closed(socket) /\ socket' = k
  /\ UNCHANGED <<page, stopped, attempt, lists, view, input, clock, bounds>>

-----------------------------------------------------------------------------
(* The session list: one request per epoch, shared by all who ask. *)

\* refreshSessions(), by the page or after a message of the agent.
AskList ==
  /\ attempt \in Call \ lists /\ lists' = lists \cup {attempt}
  /\ asks < MaxAsks /\ asks' = asks + 1
  /\ UNCHANGED <<page, stopped, attempt, socket, call, ws, view, input, clock, faults>>

\* The answer is shown only in its own epoch.
ListShown(e, owner) == lease' = IF e = attempt /\ ~stopped THEN owner ELSE lease

\* The list comes.  The owner it names is a connection that the page may still call its own,
\* or somebody else.
ListReply(e, owner) ==
  /\ e \in lists /\ lists' = lists \ {e} /\ ListShown(e, owner)
  /\ IF CallAt(e, "list") THEN CallGo(e, IF Stale(e) THEN "over" ELSE "ticket") ELSE UNCHANGED call
  /\ UNCHANGED <<page, stopped, attempt, socket, ws, connected, conn, met, input, clock, bounds>>

ListFails(e) ==
  /\ Fault /\ e \in lists /\ lists' = lists \ {e}
  /\ IF CallAt(e, "list") THEN Rejected(e) ELSE UNCHANGED <<call, view, input, clock>>
  /\ UNCHANGED <<page, stopped, attempt, socket, ws>>

-----------------------------------------------------------------------------
(* The socket's events. *)

\* The handler drops a message that is not for the current attempt.
Heard(k) == socket = k /\ ~Stale(k)

\* Whoever does not hear the agent's hello never hears another one on that socket.
Hello(k) ==
  /\ ws[k] = "open" /\ CallAt(k, "over") /\ ws' = [ws EXCEPT ![k] = "greeted"]
  /\ IF Heard(k) THEN connected' = TRUE /\ conn' = k /\ met' = TRUE ELSE UNCHANGED <<connected, conn, met>>
  /\ UNCHANGED <<page, stopped, attempt, socket, call, lists, lease, input, clock, bounds>>

LeaseMessage(k) ==
  /\ ws[k] = "greeted" /\ Heard(k) /\ lease' \in {0, k} /\ lease' # lease
  /\ UNCHANGED <<page, stopped, attempt, socket, net, connected, conn, met, input, clock, bounds>>

\* written, rejected, delivery_failed or delivery_unknown.
Settled(k) ==
  /\ ws[k] = "greeted" /\ Heard(k) /\ "key" \in pending /\ pending' = pending \ {"key"}
  /\ UNCHANGED <<page, stopped, attempt, socket, net, view, gate, pastes, clock, bounds>>

\* The connection breaks; or the client closes it, for a hello of another agent or a message
\* that is no JSON.
Break(k) ==
  /\ Fault /\ Live(k) /\ ws' = [ws EXCEPT ![k] = "closing"]
  /\ UNCHANGED <<page, stopped, attempt, socket, call, lists, view, input, clock>>

OnClose(k) ==
  /\ ws[k] = "closing" /\ ~CallAt(k, "made") /\ ws' = [ws EXCEPT ![k] = "closed"]
  /\ IF socket = k THEN Disconnected ELSE UNCHANGED <<view, input, clock>>
  /\ UNCHANGED <<page, stopped, attempt, socket, call, lists, bounds>>

-----------------------------------------------------------------------------
(* Input. *)

owns == connected /\ lease # 0 /\ lease = conn

\* A key, or while a paste has the gate only Ctrl+C: send() throws unless the current socket is
\* open, and then the slot is given back.
Input ==
  /\ owns /\ "key" \notin pending /\ socket # 0 /\ Live(socket)
  /\ pending' = pending \cup {"key"}
  /\ UNCHANGED <<page, stopped, attempt, socket, net, view, gate, pastes, clock, bounds>>

\* paste() goes over HTTP: its slot and the gate are taken before the await ...
Paste ==
  /\ lease # 0 /\ lease = conn /\ ~gate /\ pastes < MaxPastes
  /\ gate' = TRUE /\ pastes' = pastes + 1 /\ pending' = pending \cup {"paste"}
  /\ UNCHANGED <<page, stopped, attempt, socket, net, view, clock, bounds>>

\* ... and given back after it, a later paste's gate included.
PasteEnds ==
  /\ pastes > 0 /\ pastes' = pastes - 1 /\ gate' = FALSE
  /\ pending' = IF pastes = 1 THEN pending \ {"paste"} ELSE pending
  /\ UNCHANGED <<page, stopped, attempt, socket, net, view, clock, bounds>>

CallStep(k) ==
  \/ ResumeCall(k) \/ RequestFails(k) \/ MakeSocket(k) \/ Adopt(k)
  \/ ListFails(k) \/ \E owner \in {Other, socket, conn} : ListReply(k, owner)
  \/ Hello(k) \/ LeaseMessage(k) \/ Settled(k) \/ Break(k) \/ OnClose(k)

PageNext ==
  \/ Open \/ Show \/ Stop \/ FireTimer \/ FireStray \/ AskList \/ Input \/ Paste \/ PasteEnds
  \/ \E k \in Call : CallStep(k)

\* Requests end (fetch has a timeout of 15 s), timers fire, the agent says hello.
PageFairness ==
  /\ WF_pageVars(FireTimer \/ FireStray)
  /\ \A k \in Call :
       /\ WF_pageVars(ResumeCall(k) \/ MakeSocket(k) \/ Adopt(k) \/ Hello(k) \/ OnClose(k))
       /\ WF_pageVars(\E owner \in {Other, socket, conn} : ListReply(k, owner))

PageSpec == PageInit /\ [][PageNext]_pageVars /\ PageFairness

-----------------------------------------------------------------------------
(* Properties. *)

\* The type invariant.
PageTypeOK ==
  /\ visible \in BOOLEAN /\ stopped \in BOOLEAN /\ connected \in BOOLEAN
  /\ gate \in BOOLEAN /\ timer \in BOOLEAN /\ met \in BOOLEAN
  /\ hides \in 0 .. MaxHides /\ faults \in 0 .. MaxFaults /\ attempt \in 0 .. MaxAttempt
  /\ call \in [Call -> [at : {"none", "auth", "host", "list", "ticket", "made", "over"},
                        origin : {"page", "timer"}]]
  /\ ws \in [Call -> {"none", "open", "greeted", "closing", "closed"}]
  /\ socket \in 0 .. MaxAttempt /\ conn \in 0 .. MaxAttempt /\ lease \in 0 .. Other /\ lists \subseteq Call
  /\ pending \subseteq {"key", "paste"} /\ pastes \in 0 .. MaxPastes /\ strays \in Nat /\ asks \in 0 .. MaxAsks

\* However connection attempts, hiding and retries overlap, a socket that is open is the
\* controller's or has just been made by a call that will decide about it; and a stopped
\* controller has no socket, shows no lease and waits for no input, though lists, sockets and
\* its own calls answer late.
NoLeftovers ==
  /\ \A k \in Call : Live(k) => (socket = k /\ ~stopped) \/ CallAt(k, "made")
  /\ stopped => lease = 0 /\ ~gate /\ pending = {}

\* A client that was connected, and is not stopped, connects again after every loss: no
\* overlap of calls, timers and late failures leaves it without a retry.
Reconnects == met /\ ~connected ~> connected \/ ~met
=============================================================================
