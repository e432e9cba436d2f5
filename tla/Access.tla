------------------------------- MODULE Access --------------------------------
(***************************************************************************)
(* Who may use the agent (crates/rc-agent/src/auth.rs), and what a device  *)
(* holds once it may: pairing, challenges, access tokens and socket        *)
(* tickets; the control socket (ws.rs control) and the input lease of one  *)
(* session it takes; and the three ways to take it all back: revoking a    *)
(* device, blocking the host, and resuming it, which may overlap because   *)
(* they arrive over HTTP, the local pipe and the tray.                     *)
(*                                                                         *)
(* A principal is a device and the cancellation token it had when the      *)
(* principal was made, <<d, g>>: the g-th token of device d.  Signatures   *)
(* and secrets are taken to be unforgeable.  Whatever expires by the clock *)
(* may vanish at any time.                                                 *)
(***************************************************************************)
EXTENDS Integers, FiniteSets

CONSTANTS
  Device,       \* bound: the devices that are ever paired
  Conn,         \* control sockets
  Task,         \* HTTP handlers, the local pipe and the tray
  MaxTickets,   \* pairing tickets outstanding, 16 in the code
  MaxSocketTickets,  \* 128
  MaxGen,       \* bound: tokens one device is given by resumes
  MaxFailures,  \* bound: failed database writes
  MaxRestarts,  \* bound: restarts of the agent
  None          \* no socket, no device

ASSUME AccessAssumption ==
  /\ {MaxTickets, MaxSocketTickets, MaxGen, MaxFailures, MaxRestarts} \subseteq Nat
  /\ None \notin Device \cup Conn

VARIABLES
  blocked,    \* Auth.blocked
  disk,       \* [blocked, device]: the settings and devices tables
  device,     \* "none", "active" or "revoked", as DeviceState has it
  token,      \* token[d]: the number of d's current cancellation token
  cancelled,  \* the tokens that are canceled
  tickets,    \* pairing tickets outstanding
  grants,     \* challenges, access tokens and socket tickets
  socket,     \* the control sockets
  owner,      \* the socket that owns the session's lease
  task,       \* requests in progress
  orphans,    \* history: tokens replaced before they were canceled
  clash,      \* history: a block and a resume were in progress together
  failures, restarts

authVars == <<device, token, cancelled, tickets, grants>>
limitVars == <<failures, restarts>>
historyVars == <<orphans, clash>>

vars == <<blocked, disk, authVars, socket, owner, task, historyVars, limitVars>>

Token == Device \X (0..MaxGen)

Challenge(d) == [kind |-> "challenge", principal |-> <<d, 0>>]
AccessToken(d) == [kind |-> "access", principal |-> <<d, 0>>]
SocketTicket(p) == [kind |-> "socket", principal |-> p]
Grant == [kind : {"challenge", "access", "socket"}, principal : Token]

Idle == [pc |-> "idle", principal |-> None]
Closed == [pc |-> "closed", principal |-> None]

\* Principal::require, but for the expiry.
Require(p) == p \notin cancelled

Init ==
  /\ blocked = FALSE
  /\ disk = [blocked |-> FALSE, device |-> [d \in Device |-> "none"]]
  /\ device = disk.device
  /\ token = [d \in Device |-> 0]
  /\ cancelled = {} /\ tickets = 0 /\ grants = {}
  /\ socket = [k \in Conn |-> Closed] /\ owner = None
  /\ task = [t \in Task |-> Idle]
  /\ orphans = {} /\ clash = FALSE /\ failures = 0 /\ restarts = 0

Goto(t, pc) == task' = [task EXCEPT ![t].pc = pc]

Finish(t) == task' = [task EXCEPT ![t] = Idle]

\* A database write with result d; a failed one changes nothing.
Write(d, ok) ==
  /\ disk' = IF ok THEN d ELSE disk
  /\ failures' = IF ok THEN failures ELSE failures + 1
  /\ failures' <= MaxFailures /\ UNCHANGED restarts
-----------------------------------------------------------------------------
(***************************************************************************)
(* Requests.  Each begins with ensure_open, which reads the flag before    *)
(* the lock is taken, and then does its work under the lock.               *)
(***************************************************************************)
\* A new device is one that has no record yet; once there is none left nobody
\* asks for pairing, which bounds the model.  Nobody presents a challenge, a
\* bearer token or a ticket that was not issued; it may be gone by the time the
\* lock is taken.
Ask(t, op, d) ==
  /\ task[t].pc = "idle" /\ ~blocked
  /\ op \in {"pairTicket", "pair"} <=> device[d] = "none"
  /\ CASE op = "verify" -> Challenge(d) \in grants
       [] op = "authorize" -> AccessToken(d) \in grants
       [] op = "connect" -> \E p \in Token : SocketTicket(p) \in grants
       [] OTHER -> TRUE
  /\ task' = [task EXCEPT ![t] = [pc |-> op, principal |-> <<d, 0>>]]
  /\ UNCHANGED <<blocked, disk, authVars, socket, owner, historyVars, limitVars>>

IssuePairTicket(t) ==
  /\ task[t].pc = "pairTicket"
  /\ tickets' = IF tickets < MaxTickets THEN tickets + 1 ELSE tickets
  /\ Finish(t)
  /\ UNCHANGED <<blocked, disk, device, token, cancelled, grants, socket, owner, historyVars,
                 limitVars>>

\* A ticket is used up even if the device cannot be saved.
Pair(t) ==
  LET d == task[t].principal[1]
  IN /\ task[t].pc = "pair" /\ Finish(t)
     /\ IF tickets = 0 \/ device[d] # "none"
        THEN UNCHANGED <<device, tickets, disk, limitVars>>
        ELSE /\ tickets' = tickets - 1
             /\ \E ok \in BOOLEAN :
                  /\ Write([disk EXCEPT !.device[d] = "active"], ok)
                  /\ device' = IF ok THEN [device EXCEPT ![d] = "active"] ELSE device
     /\ UNCHANGED <<blocked, token, cancelled, grants, socket, owner, historyVars>>

IssueChallenge(t) ==
  LET d == task[t].principal[1]
  IN /\ task[t].pc = "challenge" /\ Finish(t)
     /\ grants' = IF device[d] = "active" THEN grants \cup {Challenge(d)} ELSE grants
     /\ UNCHANGED <<blocked, disk, device, token, cancelled, tickets, socket, owner, historyVars,
                    limitVars>>

\* A wrong signature uses the challenge up as well.
Verify(t) ==
  LET d == task[t].principal[1]
  IN /\ task[t].pc = "verify" /\ Challenge(d) \in grants /\ Finish(t)
     /\ \E signed \in BOOLEAN :
          grants' = (grants \ {Challenge(d)})
                    \cup IF signed /\ device[d] = "active" THEN {AccessToken(d)} ELSE {}
     /\ UNCHANGED <<blocked, disk, device, token, cancelled, tickets, socket, owner, historyVars,
                    limitVars>>

\* A request with a bearer token becomes a principal, here to ask for a socket
\* ticket or for the revocation of a device.
Authorize(t) ==
  LET d == task[t].principal[1]
      p == <<d, token[d]>>
  IN /\ task[t].pc = "authorize"
     /\ IF AccessToken(d) \in grants /\ device[d] = "active" /\ Require(p)
        THEN \E op \in {"socketTicket", "revoke"} :
               task' = [task EXCEPT ![t] = [pc |-> op, principal |-> p]]
        ELSE Finish(t)
     /\ UNCHANGED <<blocked, disk, authVars, socket, owner, historyVars, limitVars>>

\* The principal was checked before the lock; a ticket of a canceled one is of
\* no use to ConsumeTicket.
IssueSocketTicket(t) ==
  /\ task[t].pc = "socketTicket" /\ Finish(t)
  /\ Cardinality({g \in grants : g.kind = "socket"}) < MaxSocketTickets
  /\ grants' = grants \cup {SocketTicket(task[t].principal)}
  /\ UNCHANGED <<blocked, disk, device, token, cancelled, tickets, socket, owner, historyVars,
                 limitVars>>

\* consume_ws after ensure_open: the ticket goes, whatever its principal.
ConsumeTicket(p) ==
  /\ SocketTicket(p) \in grants
  /\ grants' = grants \ {SocketTicket(p)}

Connect(t, k, p) ==
  /\ task[t].pc = "connect" /\ socket[k] = Closed
  /\ ConsumeTicket(p) /\ Finish(t)
  /\ socket' = IF Require(p) THEN [socket EXCEPT ![k] = [pc |-> "open", principal |-> p]] ELSE socket
  /\ UNCHANGED <<blocked, disk, device, token, cancelled, tickets, owner, historyVars, limitVars>>

\* Any request may be refused: a limit, a malformed field, a grant that is not
\* there.
Refuse(t) ==
  /\ task[t].pc \in {"pairTicket", "pair", "challenge", "verify", "authorize", "socketTicket",
                     "connect", "revoke"}
  /\ Finish(t)
  /\ UNCHANGED <<blocked, disk, authVars, socket, owner, historyVars, limitVars>>

\* prune: tickets and grants expire.
Lapse ==
  /\ \/ tickets > 0 /\ tickets' = tickets - 1 /\ UNCHANGED grants
     \/ \E g \in grants : grants' = grants \ {g} /\ UNCHANGED tickets
  /\ UNCHANGED <<blocked, disk, device, token, cancelled, socket, owner, task, historyVars,
                 limitVars>>
-----------------------------------------------------------------------------
(***************************************************************************)
(* The control socket: it asks for the lease, refreshes its principal and  *)
(* ends when that is canceled or expires, when the peer leaves, or at      *)
(* shutdown.                                                               *)
(***************************************************************************)
AskLease(k) ==
  /\ socket[k].pc = "open" /\ Require(socket[k].principal)
  /\ socket' = [socket EXCEPT ![k].pc = "acquire"]
  /\ UNCHANGED <<blocked, disk, authVars, owner, task, historyVars, limitVars>>

\* Session::acquire after its check; a takeover needs no consent, so only a
\* plain request for a lease somebody else has is refused.
TakeLease(k) ==
  /\ socket[k].pc = "acquire"
  /\ owner' \in {k} \cup (IF owner = None THEN {} ELSE {owner})
  /\ socket' = [socket EXCEPT ![k].pc = "open"]
  /\ UNCHANGED <<blocked, disk, authVars, task, historyVars, limitVars>>

\* The owner releases the lease, or lets it expire.
LoseLease ==
  /\ owner # None /\ owner' = None
  /\ UNCHANGED <<blocked, disk, authVars, socket, task, historyVars, limitVars>>

AskRefresh(k) ==
  /\ socket[k].pc = "open" /\ ~blocked /\ \E p \in Token : SocketTicket(p) \in grants
  /\ socket' = [socket EXCEPT ![k].pc = "refresh"]
  /\ UNCHANGED <<blocked, disk, authVars, owner, task, historyVars, limitVars>>

\* Only a usable ticket of the same device keeps the socket.
Refresh(k) ==
  LET mine(p) == p[1] = socket[k].principal[1] /\ Require(p)
  IN /\ socket[k].pc = "refresh"
     /\ \/ \E p \in Token :
             /\ ConsumeTicket(p)
             /\ socket' = [socket EXCEPT ![k] = IF mine(p) THEN [pc |-> "open", principal |-> p]
                                                ELSE [@ EXCEPT !.pc = "ending"]]
        \/ socket' = [socket EXCEPT ![k].pc = "ending"] /\ UNCHANGED grants
     /\ UNCHANGED <<blocked, disk, device, token, cancelled, tickets, owner, task, historyVars,
                    limitVars>>

\* The loop polls the cancellation before anything else.
SeeCancel(k) ==
  /\ socket[k].pc = "open" /\ ~Require(socket[k].principal)
  /\ socket' = [socket EXCEPT ![k].pc = "ending"]
  /\ UNCHANGED <<blocked, disk, authVars, owner, task, historyVars, limitVars>>

\* Expiry, shutdown, a closed or failing connection, too many messages.
Hangup(k) ==
  /\ socket[k].pc = "open"
  /\ socket' = [socket EXCEPT ![k].pc = "ending"]
  /\ UNCHANGED <<blocked, disk, authVars, owner, task, historyVars, limitVars>>

\* Faulty variant: the socket goes without giving up its lease.
EndSocketKeepLease(k) ==
  /\ socket[k].pc = "ending"
  /\ socket' = [socket EXCEPT ![k] = Closed]
  /\ UNCHANGED <<blocked, disk, authVars, owner, task, historyVars, limitVars>>

\* sessions.revoke_connection.
EndSocket(k) ==
  /\ socket[k].pc = "ending"
  /\ socket' = [socket EXCEPT ![k] = Closed]
  /\ owner' = IF owner = k THEN None ELSE owner
  /\ UNCHANGED <<blocked, disk, authVars, task, historyVars, limitVars>>
-----------------------------------------------------------------------------
(***************************************************************************)
(* Administration.                                                         *)
(***************************************************************************)
Blocking == {"blockStore", "blockClear", "blockInput"}
Resuming == {"resumeStore", "resumeTokens", "resumeFlag"}

Meets(pcs) == clash' = (clash \/ \E t \in Task : task[t].pc \in pcs)

Block(t) ==
  /\ task[t].pc = "idle"
  /\ blocked' = TRUE
  /\ Goto(t, "blockStore") /\ Meets(Resuming)
  /\ UNCHANGED <<disk, authVars, socket, owner, orphans, limitVars>>

\* An error is logged and otherwise ignored.
BlockStore(t) ==
  /\ task[t].pc = "blockStore"
  /\ \E ok \in BOOLEAN : Write([disk EXCEPT !.blocked = TRUE], ok)
  /\ Goto(t, "blockClear")
  /\ UNCHANGED <<blocked, authVars, socket, owner, historyVars>>

Known == {d \in Device : device[d] # "none"}

\* Faulty variant: tokens in use are left alone.
BlockClearGrants(t) ==
  /\ task[t].pc = "blockClear"
  /\ grants' = {} /\ tickets' = 0
  /\ Goto(t, "blockInput")
  /\ UNCHANGED <<blocked, disk, device, token, cancelled, socket, owner, historyVars, limitVars>>

BlockClear(t) ==
  /\ task[t].pc = "blockClear"
  /\ cancelled' = cancelled \cup {<<d, token[d]>> : d \in Known}
  /\ grants' = {} /\ tickets' = 0
  /\ Goto(t, "blockInput")
  /\ UNCHANGED <<blocked, disk, device, token, socket, owner, historyVars, limitVars>>

\* sessions.block_input.
BlockInput(t) ==
  /\ task[t].pc = "blockInput"
  /\ owner' = None
  /\ Finish(t)
  /\ UNCHANGED <<blocked, disk, authVars, socket, historyVars, limitVars>>

Resume(t) ==
  /\ task[t].pc = "idle"
  /\ Goto(t, "resumeStore") /\ Meets(Blocking)
  /\ UNCHANGED <<blocked, disk, authVars, socket, owner, orphans, limitVars>>

\* Without the database the host stays blocked.
ResumeStore(t) ==
  /\ task[t].pc = "resumeStore"
  /\ \E ok \in BOOLEAN :
       /\ Write([disk EXCEPT !.blocked = FALSE], ok)
       /\ IF ok THEN Goto(t, "resumeTokens") ELSE Finish(t)
  /\ UNCHANGED <<blocked, authVars, socket, owner, historyVars>>

Active == {d \in Device : device[d] = "active"}

\* Faulty variant: devices keep their canceled tokens.
ResumeTokensKept(t) ==
  /\ task[t].pc = "resumeTokens"
  /\ Goto(t, "resumeFlag")
  /\ UNCHANGED <<blocked, disk, authVars, socket, owner, historyVars, limitVars>>

\* Every device that is not revoked gets a new token, blocked or not.
ResumeTokens(t) ==
  /\ task[t].pc = "resumeTokens" /\ \A d \in Active : token[d] < MaxGen
  /\ token' = [d \in Device |-> IF d \in Active THEN token[d] + 1 ELSE token[d]]
  /\ orphans' = orphans \cup ({<<d, token[d]>> : d \in Active} \ cancelled)
  /\ Goto(t, "resumeFlag")
  /\ UNCHANGED <<blocked, disk, device, cancelled, tickets, grants, socket, owner, clash, limitVars>>

\* Faulty variant: a block in progress wins, but its stored flag is gone.
ResumeFlagYields(t) ==
  /\ task[t].pc = "resumeFlag"
  /\ blocked' = \E u \in Task : task[u].pc \in Blocking
  /\ Finish(t)
  /\ UNCHANGED <<disk, authVars, socket, owner, historyVars, limitVars>>

ResumeFlag(t) ==
  /\ task[t].pc = "resumeFlag"
  /\ blocked' = FALSE
  /\ Finish(t)
  /\ UNCHANGED <<disk, authVars, socket, owner, historyVars, limitVars>>

Of(d) == {g \in grants : g.kind # "challenge" /\ g.principal[1] = d}

\* Faulty variant: a failed write leaves the device as it was, without
\* canceling its token.
RevokeAfterSave(t, d) ==
  /\ task[t].pc = "revoke" /\ device[d] # "none"
  /\ device' = [device EXCEPT ![d] = "revoked"]
  /\ \E ok \in BOOLEAN :
       /\ Write([disk EXCEPT !.device[d] = "revoked"], ok)
       /\ cancelled' = IF ok THEN cancelled \cup {<<d, token[d]>>} ELSE cancelled
       /\ grants' = IF ok THEN grants \ Of(d) ELSE grants
       /\ task' = IF ok THEN [task EXCEPT ![t] = [pc |-> "revokeLease", principal |-> <<d, 0>>]]
                  ELSE [task EXCEPT ![t] = Idle]
  /\ UNCHANGED <<blocked, token, tickets, socket, owner, historyVars>>

\* Auth::revoke, of any device and in a request that was authorized earlier:
\* without the database the request ends early, and the device is revoked until
\* the next start.
Revoke(t, d) ==
  /\ task[t].pc = "revoke" /\ device[d] # "none"
  /\ device' = [device EXCEPT ![d] = "revoked"]
  /\ cancelled' = cancelled \cup {<<d, token[d]>>}
  /\ \E ok \in BOOLEAN :
       /\ Write([disk EXCEPT !.device[d] = "revoked"], ok)
       /\ grants' = IF ok THEN grants \ Of(d) ELSE grants
       /\ task' = IF ok THEN [task EXCEPT ![t] = [pc |-> "revokeLease", principal |-> <<d, 0>>]]
                  ELSE [task EXCEPT ![t] = Idle]
  /\ UNCHANGED <<blocked, token, tickets, socket, owner, historyVars>>

\* sessions.revoke_client.
RevokeLease(t) ==
  /\ task[t].pc = "revokeLease" /\ Finish(t)
  /\ owner' = IF owner # None /\ socket[owner] # Closed
                 /\ socket[owner].principal[1] = task[t].principal[1]
              THEN None ELSE owner
  /\ UNCHANGED <<blocked, disk, authVars, socket, historyVars, limitVars>>

\* Auth::new: what is not in the database is gone.
Restart ==
  /\ restarts < MaxRestarts /\ restarts' = restarts + 1
  /\ blocked' = disk.blocked /\ device' = disk.device
  /\ token' = [d \in Device |-> 0]
  /\ cancelled' = {<<d, 0>> : d \in {e \in Device : disk.device[e] = "revoked"}}
  /\ tickets' = 0 /\ grants' = {}
  /\ socket' = [k \in Conn |-> Closed] /\ owner' = None
  /\ task' = [t \in Task |-> Idle]
  /\ orphans' = {} /\ clash' = FALSE
  /\ UNCHANGED <<disk, failures>>
-----------------------------------------------------------------------------
Request(t) ==
  \/ \E op \in {"pairTicket", "pair", "challenge", "verify", "authorize", "connect"}, d \in Device :
       Ask(t, op, d)
  \/ IssuePairTicket(t) \/ Pair(t) \/ IssueChallenge(t) \/ Verify(t) \/ Authorize(t)
  \/ IssueSocketTicket(t) \/ Refuse(t)
  \/ \E k \in Conn, p \in Token : Connect(t, k, p)

SocketStep(k) == TakeLease(k) \/ Refresh(k) \/ SeeCancel(k) \/ EndSocket(k)

Administration(t) ==
  \/ Block(t) \/ BlockStore(t) \/ BlockClear(t) \/ BlockInput(t)
  \/ Resume(t) \/ ResumeStore(t) \/ ResumeTokens(t) \/ ResumeFlag(t)
  \/ (\E d \in Device : Revoke(t, d)) \/ RevokeLease(t)

Next ==
  \/ \E t \in Task : Request(t) \/ Administration(t)
  \/ \E k \in Conn : AskLease(k) \/ AskRefresh(k) \/ Hangup(k) \/ SocketStep(k)
  \/ LoseLease \/ Lapse \/ Restart

\* A socket task is scheduled again and again, and its loop polls the
\* cancellation first.
Fairness == \A k \in Conn : WF_vars(SocketStep(k))

Spec == Init /\ [][Next]_vars /\ Fairness
-----------------------------------------------------------------------------
SocketPc == {"closed", "open", "acquire", "refresh", "ending"}
TaskPc == {"idle", "pairTicket", "pair", "challenge", "verify", "authorize", "socketTicket",
           "connect", "revoke", "revokeLease"} \cup Blocking \cup Resuming
Status == {"none", "active", "revoked"}

TypeOK ==
  /\ blocked \in BOOLEAN
  /\ disk \in [blocked : BOOLEAN, device : [Device -> Status]]
  /\ device \in [Device -> Status] /\ token \in [Device -> 0..MaxGen]
  /\ cancelled \subseteq Token /\ orphans \subseteq Token
  /\ tickets \in 0..MaxTickets /\ grants \subseteq Grant
  /\ socket \in [Conn -> [pc : SocketPc, principal : Token \cup {None}]]
  /\ owner \in Conn \cup {None}
  /\ task \in [Task -> [pc : TaskPc, principal : Token \cup {None}]]
  /\ clash \in BOOLEAN /\ failures \in 0..MaxFailures /\ restarts \in 0..MaxRestarts

\* The principals in use: of sockets, of socket tickets, and of requests that
\* were authorized.
InUse ==
  {socket[k].principal : k \in {j \in Conn : socket[j] # Closed}}
  \cup {g.principal : g \in {h \in grants : h.kind = "socket"}}
  \cup {task[t].principal : t \in {u \in Task : task[u].pc = "socketTicket"}}

\* A revoked device can do nothing: wherever a principal of it is in use, it is
\* canceled (auth.rs:380-391), even when the revocation could not be saved.
\* Tokens that a resume replaced while they were good are the exception.
RevokedLetsGo ==
  \A p \in InUse : device[p[1]] = "revoked" => p \in cancelled \cup orphans

Quiet == \A t \in Task : task[t].pc \notin Blocking \cup Resuming

\* While the host is blocked no device can do anything (auth.rs:392-406),
\* however the block overlapped pairing, log-in, refreshes, revocations and
\* resumes; with the same exception.
BlockedLetsGo == (blocked /\ Quiet) => InUse \subseteq cancelled \cup orphans

\* A host that is blocked stays blocked across a restart, unless the database
\* failed, however blocks and resumes overlapped (auth.rs:147, 392).
BlockSurvives == (blocked /\ Quiet /\ failures = 0) => disk.blocked

\* A host that is open is usable: no device that is not revoked is left with a
\* canceled token, unless a block and a resume overlapped (auth.rs:147-162).
OpenIsUsable == (~blocked /\ Quiet /\ ~clash) => \A d \in Active : <<d, token[d]>> \notin cancelled

Withdrawn(k) == owner = k /\ (socket[k] = Closed \/ ~Require(socket[k].principal))

\* A socket that is gone or whose authorization is withdrawn does not keep the
\* lease, even one that took it after the leases of its device were revoked
\* (ws.rs:107, 134), unless it refreshes its authorization in time.
LeaseReturned == \A k \in Conn : Withdrawn(k) ~> ~Withdrawn(k)
=============================================================================
