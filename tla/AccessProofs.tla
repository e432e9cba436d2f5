---------------------------- MODULE AccessProofs -----------------------------
(***************************************************************************)
(* Proofs about Access, for any number of devices, sockets, requests and   *)
(* tickets, any number of failures and restarts, and however blocks,       *)
(* resumes and revocations overlap.                                        *)
(*                                                                         *)
(* The four properties speak of principals in use and of quiet moments.    *)
(* The inductive invariant says what lies behind them: a token is replaced *)
(* by a resume only, and a replaced token is canceled or counted among the *)
(* orphans; the current token of a revoked device is canceled; a device    *)
(* that is not paired has nothing; and while the host is blocked and no    *)
(* block or resume is about to touch the tokens, a device whose token is   *)
(* good has neither a log-in under way nor a principal in use.             *)
(***************************************************************************)
EXTENDS Access, TLAPS

\* Requests that were given a device or a principal.
Carrying == {"pairTicket", "pair", "challenge", "verify", "authorize", "connect", "socketTicket",
             "revoke", "revokeLease"}

\* The steps of a log-in that rest on a device rather than on a principal.
LogIn == {"challenge", "verify", "authorize"}

\* Requests that will still change the stored flag or the tokens.
Pending == {"blockStore", "blockClear", "resumeFlag"}

Current(d) == <<d, token[d]>>

\* Sockets and requests carry what their place needs.
Shaped ==
  /\ \A k \in Conn : IF socket[k].pc = "closed" THEN socket[k] = Closed
                     ELSE socket[k].principal \in Token
  /\ \A t \in Task : task[t].pc \in Carrying => task[t].principal \in Token

\* Principals in use are of the current token or of an earlier one.
Issued == \A p \in InUse : p \in Token /\ p[2] <= token[p[1]]

\* A token that was replaced is canceled, or an orphan; none is canceled ahead
\* of time, and that of a revoked device is.
Replaced == \A p \in Token : p[2] < token[p[1]] => p \in cancelled \cup orphans
Fresh == \A p \in cancelled : p[2] <= token[p[1]]
Withheld == \A d \in Device : device[d] = "revoked" => Current(d) \in cancelled

\* Device d has no log-in under way, and its token is nowhere in use.
Untouched(d) ==
  /\ \A g \in grants : g.kind # "socket" => g.principal[1] # d
  /\ \A t \in Task : task[t].pc \in LogIn => task[t].principal[1] # d
  /\ Current(d) \notin InUse

Strangers ==
  \A d \in Device : device[d] = "none" => Untouched(d) /\ Current(d) \notin cancelled

Shut ==
  (blocked /\ \A t \in Task : task[t].pc \notin Pending)
    => \A d \in Device : Current(d) \in cancelled \/ Untouched(d)

\* The flag in memory is ahead of the stored one only while somebody is at it.
Stored ==
  (blocked /\ failures = 0 /\ ~disk.blocked)
    => \E t \in Task : task[t].pc \in {"blockStore", "resumeTokens", "resumeFlag"}

\* Without a clash, blocks and resumes are apart, a block keeps the host
\* blocked, and before the host opens the tokens are good.
Apart ==
  ~clash => \A t, u \in Task : ~(task[t].pc \in Blocking /\ task[u].pc \in Resuming)
Holding == ~clash => \A t \in Task : task[t].pc \in Blocking => blocked
Usable ==
  (~clash /\ (~blocked \/ \E t \in Task : task[t].pc = "resumeFlag"))
    => \A d \in Active : Current(d) \notin cancelled

IInv ==
  /\ TypeOK /\ Shaped
  /\ Issued /\ Replaced /\ Fresh /\ Withheld
  /\ Strangers /\ Shut
  /\ Stored /\ Apart /\ Holding /\ Usable
-----------------------------------------------------------------------------

\* The bounds, one by one.
LEMMA Bounds ==
  /\ MaxTickets \in Nat /\ MaxGen \in Nat /\ MaxFailures \in Nat /\ MaxRestarts \in Nat
  /\ None \notin Device /\ None \notin Conn
BY AccessAssumption

\* Principals in use, place by place.
LEMMA InUseMeans ==
  ASSUME TypeOK, NEW p
  PROVE  p \in InUse <=> \/ \E k \in Conn : socket[k] # Closed /\ socket[k].principal = p
                         \/ \E g \in grants : g.kind = "socket" /\ g.principal = p
                         \/ \E t \in Task : task[t].pc = "socketTicket" /\ task[t].principal = p
BY DEF InUse

\* The same in the next state.
LEMMA InUseMeansNext ==
  ASSUME TypeOK', NEW p
  PROVE  p \in InUse' <=> \/ \E k \in Conn : socket'[k] # Closed /\ socket'[k].principal = p
                          \/ \E g \in grants' : g.kind = "socket" /\ g.principal = p
                          \/ \E t \in Task : task'[t].pc = "socketTicket" /\ task'[t].principal = p
BY DEF InUse

\* Initially nobody has anything.
LEMMA InitIInv == Init => IInv
<1> SUFFICES ASSUME Init PROVE IInv
  OBVIOUS
<1>1. TypeOK
  <2>1. /\ disk \in [blocked : BOOLEAN, device : [Device -> Status]]
        /\ device \in [Device -> Status] /\ blocked \in BOOLEAN /\ clash \in BOOLEAN
    BY DEF Init, Status
  <2>2. /\ token \in [Device -> 0..MaxGen] /\ tickets \in 0..MaxTickets
        /\ failures \in 0..MaxFailures /\ restarts \in 0..MaxRestarts
    BY Bounds DEF Init
  <2>3. /\ socket \in [Conn -> [pc : SocketPc, principal : Token \cup {None}]]
        /\ task \in [Task -> [pc : TaskPc, principal : Token \cup {None}]]
    BY DEF Init, Closed, Idle, SocketPc, TaskPc
  <2>4. /\ cancelled \subseteq Token /\ orphans \subseteq Token /\ grants \subseteq Grant
        /\ owner \in Conn \cup {None}
    BY DEF Init
  <2> QED
    BY <2>1, <2>2, <2>3, <2>4 DEF TypeOK
<1>2. Shaped
  BY DEF Init, Shaped, Closed, Idle, Carrying
<1>3. InUse = {}
  BY DEF Init, InUse, Closed, Idle
<1>4. \A d \in Device : Untouched(d)
  BY <1>3 DEF Init, Untouched, Idle, LogIn
<1>5. Issued /\ Fresh /\ Withheld /\ Strangers /\ Shut
  BY <1>3, <1>4 DEF Init, Issued, Fresh, Withheld, Strangers, Shut, Current
<1>6. Replaced
  BY Bounds DEF Init, Replaced, Token
<1>7. Stored /\ Apart /\ Holding /\ Usable
  BY DEF Init, Stored, Apart, Holding, Usable, Idle, Blocking, Resuming
<1> QED
  BY <1>1, <1>2, <1>5, <1>6, <1>7 DEF IInv

\* A step of a request or a socket that leaves the flags and the tokens alone:
\* what comes into use is of a current or an earlier token, no block or resume
\* moves on but to its end, and nothing comes to a device that has nothing and
\* is not paired or is shut out.
LEMMA OrdinaryStep ==
  ASSUME IInv, TypeOK', Shaped',
         UNCHANGED <<blocked, disk, device, token, cancelled, orphans, clash, failures>>,
         \A p \in InUse' : p \in InUse \/ (p \in Token /\ p[2] <= token[p[1]]),
         \A t \in Task : task'[t].pc \in Blocking \cup Resuming => task'[t].pc = task[t].pc,
         \A t \in Task : task[t].pc \in Pending \cup {"resumeTokens"} => task'[t].pc = task[t].pc,
         \A d \in Device : /\ Untouched(d) /\ Current(d) \notin cancelled
                           /\ device[d] = "none" \/ blocked
                           => Untouched(d)'
  PROVE  IInv'
<1>1. Issued'
  BY DEF IInv, Issued
<1>2. Replaced' /\ Fresh' /\ Withheld'
  BY DEF IInv, Replaced, Fresh, Withheld, Current
<1>3. Strangers'
  BY DEF IInv, Strangers, Current
<1>4. Shut'
  BY DEF IInv, Shut, Current
<1>5. Stored'
  BY DEF IInv, Stored, Pending
<1>6. Apart' /\ Holding'
  BY DEF IInv, Apart, Holding
<1>7. Usable'
  BY DEF IInv, Usable, Current, Active, Resuming
<1> QED
  BY <1>1, <1>2, <1>3, <1>4, <1>5, <1>6, <1>7 DEF IInv

\* A step that only ends requests, sockets and grants, or passes a principal
\* from one to the other.
LEMMA ShrinkingStep ==
  ASSUME IInv, TypeOK', Shaped',
         UNCHANGED <<blocked, disk, device, token, cancelled, orphans, clash, failures>>,
         InUse' \subseteq InUse,
         \A g \in grants' : g.kind # "socket" => g \in grants,
         \A t \in Task : \/ task'[t] = task[t]
                         \/ task'[t] = Idle /\ task[t].pc \notin Pending \cup {"resumeTokens"}
  PROVE  IInv'
<1>1. \A p \in InUse' : p \in InUse \/ (p \in Token /\ p[2] <= token[p[1]])
  OBVIOUS
<1>2. \A t \in Task : task'[t].pc \in Blocking \cup Resuming => task'[t].pc = task[t].pc
  BY DEF Idle, Blocking, Resuming
<1>3. \A t \in Task : task[t].pc \in Pending \cup {"resumeTokens"} => task'[t].pc = task[t].pc
  OBVIOUS
<1>4. \A d \in Device : Untouched(d) => Untouched(d)'
  <2> SUFFICES ASSUME NEW d \in Device, Untouched(d) PROVE Untouched(d)'
    OBVIOUS
  <2>1. \A t \in Task : task'[t].pc \in LogIn => task'[t].principal[1] # d
    BY DEF Untouched, LogIn, Idle
  <2>2. \A g \in grants' : g.kind # "socket" => g.principal[1] # d
    BY DEF Untouched
  <2>3. Current(d)' \notin InUse'
    BY DEF Untouched, Current
  <2> QED
    BY <2>1, <2>2, <2>3 DEF Untouched
<1> QED
  BY <1>1, <1>2, <1>3, <1>4, OrdinaryStep

\* Steps of a control socket and of the lease.
LEMMA SocketsStep ==
  ASSUME IInv, NEW k \in Conn,
         \/ AskLease(k) \/ TakeLease(k) \/ AskRefresh(k) \/ Refresh(k) \/ SeeCancel(k)
         \/ Hangup(k) \/ EndSocket(k) \/ LoseLease
  PROVE  IInv'
<1> USE DEF IInv
<1>1. ASSUME NEW pc \in {"open", "acquire", "refresh", "ending"},
             socket[k].pc \in {"open", "acquire", "refresh"},
             socket' = [socket EXCEPT ![k].pc = pc],
             owner' \in Conn \cup {None},
             UNCHANGED <<blocked, disk, authVars, task, historyVars, limitVars>>
      PROVE  IInv'
  <2>1. socket[k].pc # "closed" /\ socket[k].principal \in Token /\ socket[k] # Closed
    BY <1>1 DEF Shaped, Closed
  <2>2. socket' \in [Conn -> [pc : SocketPc, principal : Token \cup {None}]]
    BY <1>1 DEF TypeOK, SocketPc
  <2>3. TypeOK'
    BY <1>1, <2>2 DEF TypeOK, authVars, historyVars, limitVars
  <2>4. \A j \in Conn : socket'[j] = IF j = k THEN [pc |-> pc, principal |-> socket[k].principal]
                                     ELSE socket[j]
    BY <1>1 DEF TypeOK
  <2>5. Shaped'
    BY <1>1, <2>1, <2>4 DEF Shaped
  <2>6. InUse' \subseteq InUse
    BY <1>1, <2>1, <2>3, <2>4, InUseMeans, InUseMeansNext DEF authVars
  <2> QED
    BY <1>1, <2>3, <2>5, <2>6, ShrinkingStep DEF authVars, historyVars, limitVars
<1>2. CASE AskLease(k) \/ AskRefresh(k) \/ SeeCancel(k) \/ Hangup(k)
  <2>1. owner' \in Conn \cup {None}
    BY <1>2 DEF TypeOK, AskLease, AskRefresh, SeeCancel, Hangup
  <2> QED
    BY <1>1, <1>2, <2>1 DEF AskLease, AskRefresh, SeeCancel, Hangup
<1>3. CASE TakeLease(k)
  <2>1. owner' \in Conn \cup {None}
    BY <1>3 DEF TypeOK, TakeLease
  <2> QED
    BY <1>1, <1>3, <2>1 DEF TakeLease
<1>4. CASE LoseLease
  <2>1. TypeOK' /\ Shaped'
    BY <1>4 DEF LoseLease, TypeOK, Shaped, authVars, historyVars, limitVars
  <2>2. InUse' = InUse
    BY <1>4 DEF LoseLease, InUse, authVars
  <2> QED
    BY <1>4, <2>1, <2>2, ShrinkingStep DEF LoseLease, authVars, historyVars, limitVars
<1>5. CASE EndSocket(k)
  <2>1. socket' \in [Conn -> [pc : SocketPc, principal : Token \cup {None}]]
    BY <1>5 DEF EndSocket, TypeOK, Closed, SocketPc
  <2>2. TypeOK'
    BY <1>5, <2>1 DEF EndSocket, TypeOK, authVars, historyVars, limitVars
  <2>3. \A j \in Conn : socket'[j] = IF j = k THEN Closed ELSE socket[j]
    BY <1>5 DEF EndSocket, TypeOK
  <2>4. Shaped'
    BY <1>5, <2>3 DEF EndSocket, Shaped, Closed
  <2>5. InUse' \subseteq InUse
    BY <1>5, <2>2, <2>3, InUseMeans, InUseMeansNext DEF EndSocket, authVars
  <2> QED
    BY <1>5, <2>2, <2>4, <2>5, ShrinkingStep DEF EndSocket, authVars, historyVars, limitVars
<1>6. CASE Refresh(k)
  <2>0. socket[k].pc # "closed" /\ socket[k].principal \in Token /\ socket[k] # Closed
    BY <1>6 DEF Refresh, Shaped, Closed
  <2>1. CASE socket' = [socket EXCEPT ![k].pc = "ending"] /\ UNCHANGED grants
    <3>1. owner' \in Conn \cup {None}
      BY <1>6 DEF TypeOK, Refresh
    <3>2. UNCHANGED <<blocked, disk, authVars, task, historyVars, limitVars>>
      BY <1>6, <2>1 DEF Refresh, authVars
    <3>3. socket[k].pc = "refresh"
      BY <1>6 DEF Refresh
    <3> QED
      BY <1>1, <2>1, <3>1, <3>2, <3>3
  <2>2. ASSUME NEW p \in Token, ConsumeTicket(p), NEW q \in {p, socket[k].principal},
               NEW pc \in {"open", "ending"},
               socket' = [socket EXCEPT ![k] = [pc |-> pc, principal |-> q]]
        PROVE  IInv'
    <3>1. SocketTicket(p) \in grants /\ grants' = grants \ {SocketTicket(p)} /\ q \in Token
      BY <2>0, <2>2 DEF ConsumeTicket
    <3>2. socket' \in [Conn -> [pc : SocketPc, principal : Token \cup {None}]]
      BY <2>2, <3>1 DEF TypeOK, SocketPc
    <3>3. TypeOK'
      BY <1>6, <3>1, <3>2 DEF Refresh, TypeOK, historyVars, limitVars
    <3>4. \A j \in Conn : socket'[j] = IF j = k THEN [pc |-> pc, principal |-> q] ELSE socket[j]
      BY <2>2 DEF TypeOK
    <3>5. Shaped'
      BY <1>6, <3>1, <3>4 DEF Refresh, Shaped
    <3>6. q \in InUse
      <4>1. SocketTicket(p).kind = "socket" /\ SocketTicket(p).principal = p
        BY DEF SocketTicket
      <4> QED
        BY <2>0, <2>2, <3>1, <4>1, InUseMeans
    <3>7. InUse' \subseteq InUse
      BY <1>6, <3>1, <3>3, <3>4, <3>6, InUseMeans, InUseMeansNext DEF Refresh
    <3> QED
      BY <1>6, <3>1, <3>3, <3>5, <3>7, ShrinkingStep DEF Refresh, historyVars, limitVars
  <2>3. CASE \E p \in Token :
             /\ ConsumeTicket(p)
             /\ socket' = [socket EXCEPT ![k] =
                  IF p[1] = socket[k].principal[1] /\ Require(p)
                  THEN [pc |-> "open", principal |-> p] ELSE [@ EXCEPT !.pc = "ending"]]
    <3>1. PICK p \in Token :
             /\ ConsumeTicket(p)
             /\ socket' = [socket EXCEPT ![k] =
                  IF p[1] = socket[k].principal[1] /\ Require(p)
                  THEN [pc |-> "open", principal |-> p] ELSE [@ EXCEPT !.pc = "ending"]]
      BY <2>3
    <3>2. [socket[k] EXCEPT !.pc = "ending"] = [pc |-> "ending", principal |-> socket[k].principal]
      BY DEF TypeOK
    <3>3. CASE p[1] = socket[k].principal[1] /\ Require(p)
      <4>1. socket' = [socket EXCEPT ![k] = [pc |-> "open", principal |-> p]]
        BY <3>1, <3>3
      <4> QED
        BY <2>2, <3>1, <4>1
    <3>4. CASE ~(p[1] = socket[k].principal[1] /\ Require(p))
      <4>1. socket' = [socket EXCEPT ![k] = [pc |-> "ending", principal |-> socket[k].principal]]
        BY <3>1, <3>2, <3>4
      <4> QED
        BY <2>2, <3>1, <4>1
    <3> QED
      BY <3>3, <3>4
  <2> QED
    BY <1>6, <2>1, <2>3 DEF Refresh
<1> QED
  BY <1>2, <1>3, <1>4, <1>5, <1>6

\* A request that ends: the tasks afterwards.
LEMMA Finished ==
  ASSUME TypeOK, Shaped, NEW t \in Task, Finish(t)
  PROVE  /\ task' \in [Task -> [pc : TaskPc, principal : Token \cup {None}]]
         /\ \A u \in Task : task'[u] = IF u = t THEN Idle ELSE task[u]
         /\ \A u \in Task : task'[u].pc \in Carrying => task'[u].principal \in Token
BY DEF TypeOK, Shaped, Finish, Idle, TaskPc, Carrying

\* A request that is given a place and a principal.
LEMMA Placed ==
  ASSUME TypeOK, Shaped, NEW t \in Task, NEW op \in Carrying, NEW p \in Token,
         task' = [task EXCEPT ![t] = [pc |-> op, principal |-> p]]
  PROVE  /\ task' \in [Task -> [pc : TaskPc, principal : Token \cup {None}]]
         /\ \A u \in Task : task'[u] = IF u = t THEN [pc |-> op, principal |-> p] ELSE task[u]
         /\ \A u \in Task : task'[u].pc \in Carrying => task'[u].principal \in Token
BY DEF TypeOK, Shaped, TaskPc, Carrying

\* The grants of a device that has just arrived.
LEMMA FirstGrants ==
  ASSUME NEW d \in Device
  PROVE  /\ <<d, 0>> \in Token
         /\ Challenge(d) \in Grant /\ AccessToken(d) \in Grant
         /\ Challenge(d).kind # "socket" /\ AccessToken(d).kind # "socket"
         /\ Challenge(d).principal = <<d, 0>> /\ AccessToken(d).principal = <<d, 0>>
<1>1. <<d, 0>> \in Token
  BY Bounds DEF Token
<1> QED
  BY <1>1 DEF Grant, Challenge, AccessToken

\* A socket ticket.
LEMMA TicketGrant ==
  ASSUME NEW p \in Token
  PROVE  SocketTicket(p) \in Grant /\ SocketTicket(p).kind = "socket" /\ SocketTicket(p).principal = p
BY DEF Grant, SocketTicket

\* A request arrives; nobody arrives at a host that is blocked.
LEMMA AskStep ==
  ASSUME IInv, NEW t \in Task, NEW d \in Device,
         NEW op \in {"pairTicket", "pair", "challenge", "verify", "authorize", "connect"},
         Ask(t, op, d)
  PROVE  IInv'
<1> USE DEF IInv
<1>1. /\ task[t].pc = "idle" /\ ~blocked /\ op \in Carrying /\ op # "socketTicket"
      /\ op \in {"pairTicket", "pair"} <=> device[d] = "none"
      /\ task' = [task EXCEPT ![t] = [pc |-> op, principal |-> <<d, 0>>]]
      /\ UNCHANGED <<blocked, disk, device, token, cancelled, tickets, grants, socket, owner,
                     orphans, clash, failures, restarts>>
  BY DEF Ask, Carrying, authVars, historyVars, limitVars
<1>2. <<d, 0>> \in Token
  BY FirstGrants
<1>3. /\ task' \in [Task -> [pc : TaskPc, principal : Token \cup {None}]]
      /\ \A u \in Task : task'[u] = IF u = t THEN [pc |-> op, principal |-> <<d, 0>>] ELSE task[u]
      /\ \A u \in Task : task'[u].pc \in Carrying => task'[u].principal \in Token
  BY <1>1, <1>2, Placed
<1>4. TypeOK' /\ Shaped'
  BY <1>1, <1>3 DEF TypeOK, Shaped
<1>5. InUse' \subseteq InUse
  BY <1>1, <1>3, <1>4, InUseMeans, InUseMeansNext
<1>6. \A u \in Task : task'[u].pc \in Blocking \cup Resuming => task'[u].pc = task[u].pc
  BY <1>1, <1>3 DEF Blocking, Resuming, Carrying
<1>7. \A u \in Task : task[u].pc \in Pending \cup {"resumeTokens"} => task'[u].pc = task[u].pc
  BY <1>1, <1>3 DEF Pending
<1>8. ASSUME NEW e \in Device, Untouched(e), device[e] = "none" PROVE Untouched(e)'
  <2>1. \A u \in Task : task'[u].pc \in LogIn => task'[u].principal[1] # e
    BY <1>1, <1>3, <1>8 DEF Untouched, LogIn
  <2>2. \A g \in grants' : g.kind # "socket" => g.principal[1] # e
    BY <1>1, <1>8 DEF Untouched
  <2>3. Current(e)' \notin InUse'
    BY <1>1, <1>5, <1>8 DEF Untouched, Current
  <2> QED
    BY <2>1, <2>2, <2>3 DEF Untouched
<1> QED
  BY <1>1, <1>4, <1>5, <1>6, <1>7, <1>8, OrdinaryStep

\* Requests that end without a new principal.
LEMMA PlainRequest ==
  ASSUME IInv, NEW t \in Task, IssuePairTicket(t) \/ Refuse(t) \/ RevokeLease(t) \/ BlockInput(t)
  PROVE  IInv'
<1> USE DEF IInv
<1>1. /\ Finish(t) /\ task[t].pc \notin Pending \cup {"resumeTokens"}
      /\ tickets' \in 0..MaxTickets /\ owner' \in Conn \cup {None}
      /\ UNCHANGED <<blocked, disk, device, token, cancelled, grants, socket,
                     orphans, clash, failures, restarts>>
  <2>1. CASE IssuePairTicket(t)
    BY <2>1, Bounds DEF IssuePairTicket, TypeOK, Pending, historyVars, limitVars
  <2>2. CASE Refuse(t)
    BY <2>2 DEF Refuse, TypeOK, Pending, authVars, historyVars, limitVars
  <2>3. CASE RevokeLease(t)
    BY <2>3 DEF RevokeLease, TypeOK, Pending, authVars, historyVars, limitVars
  <2>4. CASE BlockInput(t)
    BY <2>4 DEF BlockInput, TypeOK, Pending, authVars, historyVars, limitVars
  <2> QED
    BY <2>1, <2>2, <2>3, <2>4
<1>2. /\ task' \in [Task -> [pc : TaskPc, principal : Token \cup {None}]]
      /\ \A u \in Task : task'[u] = IF u = t THEN Idle ELSE task[u]
      /\ \A u \in Task : task'[u].pc \in Carrying => task'[u].principal \in Token
  BY <1>1, Finished
<1>3. TypeOK' /\ Shaped'
  BY <1>1, <1>2 DEF TypeOK, Shaped
<1>4. InUse' \subseteq InUse
  BY <1>1, <1>2, <1>3, InUseMeans, InUseMeansNext DEF Idle
<1> QED
  BY <1>1, <1>2, <1>3, <1>4, ShrinkingStep

\* Tickets and grants expire.
LEMMA LapseStep ==
  ASSUME IInv, Lapse
  PROVE  IInv'
<1> USE DEF IInv
<1>1. /\ tickets' \in 0..MaxTickets /\ grants' \subseteq grants
      /\ UNCHANGED <<blocked, disk, device, token, cancelled, socket, owner, task,
                     orphans, clash, failures, restarts>>
  BY Bounds DEF Lapse, TypeOK, historyVars, limitVars
<1>2. TypeOK' /\ Shaped'
  BY <1>1 DEF TypeOK, Shaped
<1>3. InUse' \subseteq InUse
  BY <1>1, <1>2, InUseMeans, InUseMeansNext
<1> QED
  BY <1>1, <1>2, <1>3, ShrinkingStep

\* A challenge or an access token is issued, to a device that has a log-in
\* under way.
LEMMA LogInStep ==
  ASSUME IInv, NEW t \in Task, IssueChallenge(t) \/ Verify(t)
  PROVE  IInv'
<1> USE DEF IInv
<1> DEFINE d == task[t].principal[1]
<1>1. /\ Finish(t) /\ task[t].pc \in LogIn
      /\ grants' \subseteq grants \cup {Challenge(d), AccessToken(d)}
      /\ UNCHANGED <<blocked, disk, device, token, cancelled, tickets, socket, owner,
                     orphans, clash, failures, restarts>>
  <2>1. CASE IssueChallenge(t)
    BY <2>1 DEF IssueChallenge, LogIn, historyVars, limitVars
  <2>2. CASE Verify(t)
    BY <2>2 DEF Verify, LogIn, historyVars, limitVars
  <2> QED
    BY <2>1, <2>2
<1>2. d \in Device
  <2>1. task[t].principal \in Token
    BY <1>1 DEF Shaped, LogIn, Carrying
  <2> QED
    BY <2>1 DEF Token
<1>3. /\ task' \in [Task -> [pc : TaskPc, principal : Token \cup {None}]]
      /\ \A u \in Task : task'[u] = IF u = t THEN Idle ELSE task[u]
      /\ \A u \in Task : task'[u].pc \in Carrying => task'[u].principal \in Token
  BY <1>1, Finished
<1> HIDE DEF d
<1>4. /\ grants' \subseteq Grant
      /\ \A g \in grants' : g \in grants \/ (g.kind # "socket" /\ g.principal = <<d, 0>>)
  <2>1. /\ Challenge(d) \in Grant /\ AccessToken(d) \in Grant
        /\ Challenge(d).kind # "socket" /\ AccessToken(d).kind # "socket"
        /\ Challenge(d).principal = <<d, 0>> /\ AccessToken(d).principal = <<d, 0>>
    BY <1>2, FirstGrants
  <2> QED
    BY <1>1, <2>1 DEF TypeOK
<1>5. TypeOK' /\ Shaped'
  BY <1>1, <1>3, <1>4 DEF TypeOK, Shaped
<1>6. InUse' \subseteq InUse
  BY <1>1, <1>3, <1>4, <1>5, InUseMeans, InUseMeansNext DEF Idle
<1>7. \A u \in Task : task'[u].pc \in Blocking \cup Resuming => task'[u].pc = task[u].pc
  BY <1>3 DEF Blocking, Resuming, Idle
<1>8. \A u \in Task : task[u].pc \in Pending \cup {"resumeTokens"} => task'[u].pc = task[u].pc
  BY <1>1, <1>3 DEF Pending, LogIn
<1>9. ASSUME NEW e \in Device, Untouched(e) PROVE Untouched(e)'
  <2>1. e # d
    BY <1>1, <1>9 DEF Untouched, d
  <2>2. \A u \in Task : task'[u].pc \in LogIn => task'[u].principal[1] # e
    BY <1>3, <1>9 DEF Untouched, LogIn, Idle
  <2>3. \A g \in grants' : g.kind # "socket" => g.principal[1] # e
    BY <1>4, <1>9, <2>1 DEF Untouched
  <2>4. Current(e)' \notin InUse'
    BY <1>1, <1>6, <1>9 DEF Untouched, Current
  <2> QED
    BY <2>2, <2>3, <2>4 DEF Untouched
<1> QED
  BY <1>1, <1>5, <1>6, <1>7, <1>8, <1>9, OrdinaryStep

\* A bearer token becomes a principal with the device's current token, if that
\* is good.
LEMMA AuthorizeStep ==
  ASSUME IInv, NEW t \in Task, Authorize(t)
  PROVE  IInv'
<1> USE DEF IInv
<1> DEFINE d == task[t].principal[1]
<1>1. /\ task[t].pc = "authorize" /\ d \in Device /\ Current(d) \in Token
      /\ UNCHANGED <<blocked, disk, device, token, cancelled, tickets, grants, socket, owner,
                     orphans, clash, failures, restarts>>
  <2>1. task[t].pc = "authorize" /\ task[t].principal \in Token
    BY DEF Authorize, Shaped, Carrying
  <2>2. d \in Device
    BY <2>1 DEF Token
  <2>3. Current(d) \in Token
    BY <2>2 DEF Current, Token, TypeOK
  <2> QED
    BY <2>1, <2>2, <2>3 DEF Authorize, authVars, historyVars, limitVars
<1>2. CASE Finish(t)
  <2>1. /\ task' \in [Task -> [pc : TaskPc, principal : Token \cup {None}]]
        /\ \A u \in Task : task'[u] = IF u = t THEN Idle ELSE task[u]
        /\ \A u \in Task : task'[u].pc \in Carrying => task'[u].principal \in Token
    BY <1>2, Finished
  <2>2. TypeOK' /\ Shaped'
    BY <1>1, <2>1 DEF TypeOK, Shaped
  <2>3. InUse' \subseteq InUse
    BY <1>1, <2>1, <2>2, InUseMeans, InUseMeansNext DEF Idle
  <2> QED
    BY <1>1, <2>1, <2>2, <2>3, ShrinkingStep DEF Pending
<1>3. ASSUME NEW op \in {"socketTicket", "revoke"}, Current(d) \notin cancelled,
             task' = [task EXCEPT ![t] = [pc |-> op, principal |-> Current(d)]]
      PROVE  IInv'
  <2> HIDE DEF d
  <2>1. /\ task' \in [Task -> [pc : TaskPc, principal : Token \cup {None}]]
        /\ \A u \in Task : task'[u] = IF u = t THEN [pc |-> op, principal |-> Current(d)] ELSE task[u]
        /\ \A u \in Task : task'[u].pc \in Carrying => task'[u].principal \in Token
    <3>1. op \in Carrying
      BY <1>3 DEF Carrying
    <3> QED
      BY <1>1, <1>3, <3>1, Placed
  <2>2. TypeOK' /\ Shaped'
    BY <1>1, <2>1 DEF TypeOK, Shaped
  <2>3. InUse' \subseteq InUse \cup {Current(d)}
    BY <1>1, <2>1, <2>2, InUseMeans, InUseMeansNext
  <2>4. Current(d)[2] <= token[Current(d)[1]]
    BY <1>1 DEF Current, TypeOK
  <2>5. \A u \in Task : task'[u].pc \in Blocking \cup Resuming => task'[u].pc = task[u].pc
    BY <2>1 DEF Blocking, Resuming
  <2>6. \A u \in Task : task[u].pc \in Pending \cup {"resumeTokens"} => task'[u].pc = task[u].pc
    BY <1>1, <2>1 DEF Pending
  <2>7. ASSUME NEW e \in Device, Untouched(e) PROVE Untouched(e)'
    <3>1. e # d
      BY <1>1, <2>7 DEF Untouched, d, LogIn
    <3>2. \A u \in Task : task'[u].pc \in LogIn => task'[u].principal[1] # e
      BY <2>1, <2>7 DEF Untouched, LogIn
    <3>3. \A g \in grants' : g.kind # "socket" => g.principal[1] # e
      BY <1>1, <2>7 DEF Untouched
    <3>4. Current(e)' \notin InUse'
      BY <1>1, <2>3, <2>7, <3>1 DEF Untouched, Current
    <3> QED
      BY <3>2, <3>3, <3>4 DEF Untouched
  <2> QED
    BY <1>1, <2>2, <2>3, <2>4, <2>5, <2>6, <2>7, OrdinaryStep
<1>4. \/ Finish(t)
      \/ /\ Current(d) \notin cancelled
         /\ \E op \in {"socketTicket", "revoke"} :
              task' = [task EXCEPT ![t] = [pc |-> op, principal |-> Current(d)]]
  BY DEF Authorize, Require, Current
<1> HIDE DEF d
<1> QED
  BY <1>2, <1>3, <1>4

\* A principal is passed from a request to a ticket, and from a ticket to a
\* socket.
LEMMA TicketStep ==
  ASSUME IInv, NEW t \in Task,
         IssueSocketTicket(t) \/ \E k \in Conn, p \in Token : Connect(t, k, p)
  PROVE  IInv'
<1> USE DEF IInv
<1>0. /\ Finish(t) /\ task[t].pc \in {"socketTicket", "connect"}
      /\ UNCHANGED <<blocked, disk, device, token, cancelled, tickets, owner,
                     orphans, clash, failures, restarts>>
  BY DEF IssueSocketTicket, Connect, historyVars, limitVars
<1>1. /\ task' \in [Task -> [pc : TaskPc, principal : Token \cup {None}]]
      /\ \A u \in Task : task'[u] = IF u = t THEN Idle ELSE task[u]
      /\ \A u \in Task : task'[u].pc \in Carrying => task'[u].principal \in Token
  BY <1>0, Finished
<1>2. CASE IssueSocketTicket(t)
  <2>1. /\ task[t].pc = "socketTicket" /\ UNCHANGED socket
        /\ grants' = grants \cup {SocketTicket(task[t].principal)}
    BY <1>2 DEF IssueSocketTicket
  <2>2. task[t].principal \in Token /\ task[t].principal \in InUse
    BY <2>1, InUseMeans DEF Shaped, Carrying
  <2>3. /\ SocketTicket(task[t].principal) \in Grant
        /\ SocketTicket(task[t].principal).kind = "socket"
        /\ SocketTicket(task[t].principal).principal = task[t].principal
    BY <2>2, TicketGrant
  <2>4. TypeOK' /\ Shaped'
    BY <1>0, <1>1, <2>1, <2>3 DEF TypeOK, Shaped
  <2>5. InUse' \subseteq InUse
    BY <1>1, <2>1, <2>2, <2>3, <2>4, InUseMeans, InUseMeansNext DEF Idle
  <2> QED
    BY <1>0, <1>1, <2>1, <2>3, <2>4, <2>5, ShrinkingStep DEF Pending
<1>3. ASSUME NEW k \in Conn, NEW p \in Token, Connect(t, k, p) PROVE IInv'
  <2>1. /\ SocketTicket(p) \in grants /\ grants' = grants \ {SocketTicket(p)}
        /\ \/ UNCHANGED socket
           \/ socket' = [socket EXCEPT ![k] = [pc |-> "open", principal |-> p]]
    BY <1>3 DEF Connect, ConsumeTicket
  <2>2. p \in InUse
    BY <2>1, InUseMeans, TicketGrant
  <2>3. /\ socket' \in [Conn -> [pc : SocketPc, principal : Token \cup {None}]]
        /\ \A j \in Conn : socket'[j] = socket[j] \/ socket'[j] = [pc |-> "open", principal |-> p]
    <3>1. CASE UNCHANGED socket
      BY <3>1 DEF TypeOK
    <3>2. CASE socket' = [socket EXCEPT ![k] = [pc |-> "open", principal |-> p]]
      BY <3>2 DEF TypeOK, SocketPc
    <3> QED
      BY <2>1, <3>1, <3>2
  <2>4. TypeOK' /\ Shaped'
    BY <1>0, <1>1, <2>1, <2>3 DEF TypeOK, Shaped
  <2>5. InUse' \subseteq InUse
    BY <1>1, <2>1, <2>2, <2>3, <2>4, InUseMeans, InUseMeansNext DEF Idle
  <2> QED
    BY <1>0, <1>1, <2>1, <2>4, <2>5, ShrinkingStep DEF Pending
<1> QED
  BY <1>2, <1>3

\* A device is paired; it had nothing before and has nothing yet.
LEMMA PairStep ==
  ASSUME IInv, NEW t \in Task, Pair(t)
  PROVE  IInv'
<1> USE DEF IInv
<1> DEFINE d == task[t].principal[1]
<1>0. /\ Finish(t) /\ task[t].pc = "pair" /\ d \in Device
      /\ UNCHANGED <<blocked, token, cancelled, grants, socket, owner, orphans, clash, restarts>>
  <2>1. Finish(t) /\ task[t].pc = "pair" /\ task[t].principal \in Token
    BY DEF Pair, Shaped, Carrying
  <2>2. d \in Device
    BY <2>1 DEF Token
  <2> QED
    BY <2>1, <2>2 DEF Pair, Write, historyVars, limitVars
<1>1. /\ \/ UNCHANGED device
         \/ device[d] = "none" /\ device' = [device EXCEPT ![d] = "active"]
      /\ tickets' \in 0..MaxTickets
      /\ failures' \in 0..MaxFailures /\ (failures' = 0 => failures = 0)
      /\ disk' \in [blocked : BOOLEAN, device : [Device -> Status]] /\ disk'.blocked = disk.blocked
  <2>1. CASE tickets = 0 \/ device[d] # "none"
    BY <2>1 DEF Pair, TypeOK, limitVars
  <2>2. CASE ~(tickets = 0 \/ device[d] # "none")
    <3>1. PICK ok \in BOOLEAN :
            /\ Write([disk EXCEPT !.device[d] = "active"], ok)
            /\ device' = IF ok THEN [device EXCEPT ![d] = "active"] ELSE device
      BY <2>2 DEF Pair
    <3>2. tickets' \in 0..MaxTickets
      <4>1. tickets' = tickets - 1 /\ tickets # 0 /\ tickets \in 0..MaxTickets
        BY <2>2 DEF Pair, TypeOK
      <4> QED
        BY <4>1, Bounds
    <3>3. failures' \in 0..MaxFailures /\ (failures' = 0 => failures = 0)
      BY <3>1, Bounds DEF Write, TypeOK
    <3>4. disk' \in [blocked : BOOLEAN, device : [Device -> Status]] /\ disk'.blocked = disk.blocked
      BY <1>0, <3>1 DEF Write, TypeOK, Status
    <3>5. \/ UNCHANGED device
          \/ device[d] = "none" /\ device' = [device EXCEPT ![d] = "active"]
      BY <2>2, <3>1
    <3> QED
      BY <3>2, <3>3, <3>4, <3>5
  <2> QED
    BY <2>1, <2>2
<1> HIDE DEF d
<1>2. /\ task' \in [Task -> [pc : TaskPc, principal : Token \cup {None}]]
      /\ \A u \in Task : task'[u] = IF u = t THEN Idle ELSE task[u]
      /\ \A u \in Task : task'[u].pc \in Carrying => task'[u].principal \in Token
  BY <1>0, Finished
<1>3. /\ device' \in [Device -> Status]
      /\ \A e \in Device : device'[e] = device[e] \/ (device[e] = "none" /\ device'[e] = "active")
  BY <1>0, <1>1 DEF TypeOK, Status
<1>4. TypeOK' /\ Shaped'
  BY <1>0, <1>1, <1>2, <1>3 DEF TypeOK, Shaped
<1>5. InUse' \subseteq InUse
  BY <1>0, <1>2, <1>4, InUseMeans, InUseMeansNext DEF Idle
<1>6. ASSUME NEW e \in Device PROVE Current(e)' = Current(e) /\ (Untouched(e) => Untouched(e)')
  <2>1. Current(e)' = Current(e)
    BY <1>0 DEF Current
  <2>2. Untouched(e) => \A u \in Task : task'[u].pc \in LogIn => task'[u].principal[1] # e
    BY <1>2 DEF Untouched, LogIn, Idle
  <2> QED
    BY <1>0, <1>5, <2>1, <2>2 DEF Untouched
<1>7. Issued' /\ Replaced' /\ Fresh'
  BY <1>0, <1>5 DEF Issued, Replaced, Fresh
<1>8. Withheld' /\ Strangers'
  BY <1>0, <1>3, <1>6 DEF Withheld, Strangers
<1>9. \A u \in Task : /\ task[u].pc \in Blocking \cup Resuming => task'[u] = task[u]
                      /\ task'[u].pc \in Blocking \cup Resuming => task'[u] = task[u]
  BY <1>0, <1>2 DEF Idle, Blocking, Resuming
<1>10. Shut'
  <2>1. (\A u \in Task : task'[u].pc \notin Pending) => \A u \in Task : task[u].pc \notin Pending
    BY <1>9 DEF Pending, Blocking, Resuming
  <2> QED
    BY <1>0, <1>6, <2>1 DEF Shut
<1>11. Stored'
  BY <1>0, <1>1, <1>9 DEF Stored, Blocking, Resuming
<1>12. Apart' /\ Holding'
  BY <1>0, <1>9 DEF Apart, Holding
<1>13. Usable'
  <2>1. \A e \in Device : device'[e] = "active" => \/ device[e] = "active"
                                                   \/ Current(e) \notin cancelled
    BY <1>3 DEF Strangers
  <2> QED
    BY <1>0, <1>6, <1>9, <2>1 DEF Usable, Active, Resuming
<1> QED
  BY <1>4, <1>7, <1>8, <1>10, <1>11, <1>12, <1>13

\* A block or a resume moves on, or begins.
LEMMA Moved ==
  ASSUME TypeOK, Shaped, NEW t \in Task, NEW pc \in Blocking \cup Resuming, Goto(t, pc)
  PROVE  /\ task' \in [Task -> [pc : TaskPc, principal : Token \cup {None}]]
         /\ task'[t].pc = pc /\ \A u \in Task \ {t} : task'[u] = task[u]
         /\ \A u \in Task : task'[u].pc \in Carrying => task'[u].principal \in Token
<1>1. pc \in TaskPc /\ pc \notin Carrying
  BY DEF TaskPc, Blocking, Resuming, Carrying
<1> QED
  BY <1>1 DEF TypeOK, Shaped, Goto

\* While the tokens stay what they are, administration brings nothing into use.
LEMMA NothingNew ==
  ASSUME TypeOK, TypeOK', UNCHANGED <<socket, token>>, grants' \subseteq grants,
         \A u \in Task : \/ task'[u] = task[u]
                         \/ task'[u].pc \in {"idle", "revokeLease"} \cup Blocking \cup Resuming
  PROVE  /\ InUse' \subseteq InUse
         /\ \A e \in Device : Current(e)' = Current(e) /\ (Untouched(e) => Untouched(e)')
<1>1. InUse' \subseteq InUse
  BY InUseMeans, InUseMeansNext DEF Blocking, Resuming
<1>2. ASSUME NEW e \in Device PROVE Current(e)' = Current(e) /\ (Untouched(e) => Untouched(e)')
  <2>1. Current(e)' = Current(e)
    BY DEF Current
  <2>2. Untouched(e) => \A u \in Task : task'[u].pc \in LogIn => task'[u].principal[1] # e
    BY DEF Untouched, LogIn, Blocking, Resuming
  <2> QED
    BY <1>1, <2>1, <2>2 DEF Untouched
<1> QED
  BY <1>1, <1>2

\* What a write does to the table and to the count of failures.
LEMMA Written ==
  ASSUME TypeOK, NEW d \in [blocked : BOOLEAN, device : [Device -> Status]], NEW ok \in BOOLEAN,
         Write(d, ok)
  PROVE  /\ disk' \in [blocked : BOOLEAN, device : [Device -> Status]]
         /\ failures' \in 0..MaxFailures /\ (failures' = 0 => failures = 0 /\ ok)
         /\ (ok => disk' = d) /\ (~ok => disk' = disk) /\ restarts' = restarts
<1>1. disk \in [blocked : BOOLEAN, device : [Device -> Status]] /\ failures \in 0..MaxFailures
  BY DEF TypeOK
<1>2. CASE ok
  BY <1>1, <1>2 DEF Write
<1>3. CASE ~ok
  <2>1. failures' = failures + 1 /\ failures' <= MaxFailures /\ disk' = disk /\ restarts' = restarts
    BY <1>3 DEF Write
  <2> QED
    BY <1>1, <1>3, <2>1, Bounds
<1> QED
  BY <1>2, <1>3

\* The table with another flag.
LEMMA FlagWritten ==
  ASSUME TypeOK, NEW b \in BOOLEAN
  PROVE  /\ [disk EXCEPT !.blocked = b] \in [blocked : BOOLEAN, device : [Device -> Status]]
         /\ [disk EXCEPT !.blocked = b].blocked = b
BY DEF TypeOK

\* The flag is set, and the block has the store before it.
LEMMA BlockStep ==
  ASSUME IInv, NEW t \in Task, Block(t)
  PROVE  IInv'
<1> USE DEF IInv
<1>1. /\ task[t].pc = "idle" /\ blocked' = TRUE /\ Goto(t, "blockStore")
      /\ clash' = (clash \/ \E u \in Task : task[u].pc \in Resuming)
      /\ UNCHANGED <<disk, device, token, cancelled, tickets, grants, socket, owner, orphans,
                     failures, restarts>>
  BY DEF Block, Meets, authVars, limitVars
<1>2. /\ task' \in [Task -> [pc : TaskPc, principal : Token \cup {None}]]
      /\ task'[t].pc = "blockStore" /\ \A u \in Task \ {t} : task'[u] = task[u]
      /\ \A u \in Task : task'[u].pc \in Carrying => task'[u].principal \in Token
  BY <1>1, Moved DEF Blocking
<1>3. clash' \in BOOLEAN
  BY <1>1 DEF TypeOK
<1>4. TypeOK' /\ Shaped'
  BY <1>1, <1>2, <1>3 DEF TypeOK, Shaped
<1>5. /\ InUse' \subseteq InUse
      /\ \A e \in Device : Current(e)' = Current(e) /\ (Untouched(e) => Untouched(e)')
  BY <1>1, <1>2, <1>4, NothingNew DEF Blocking
<1>6. Issued' /\ Replaced' /\ Fresh' /\ Withheld' /\ Strangers'
  BY <1>1, <1>5 DEF Issued, Replaced, Fresh, Withheld, Strangers
<1>7. Shut' /\ Stored' /\ Holding'
  BY <1>1, <1>2 DEF Shut, Stored, Holding, Pending
<1>8. ~clash' => \A u \in Task : task'[u].pc \notin Resuming
  BY <1>1, <1>2 DEF Resuming
<1>9. Apart' /\ Usable'
  BY <1>1, <1>8 DEF Apart, Usable, Resuming
<1> QED
  BY <1>4, <1>6, <1>7, <1>9

\* The flag is stored.
LEMMA BlockStoreStep ==
  ASSUME IInv, NEW t \in Task, BlockStore(t)
  PROVE  IInv'
<1> USE DEF IInv
<1>1. /\ task[t].pc = "blockStore" /\ Goto(t, "blockClear")
      /\ UNCHANGED <<blocked, device, token, cancelled, tickets, grants, socket, owner, orphans, clash>>
  BY DEF BlockStore, authVars, historyVars
<1>2. /\ disk' \in [blocked : BOOLEAN, device : [Device -> Status]]
      /\ failures' \in 0..MaxFailures /\ (failures' = 0 => disk'.blocked) /\ restarts' = restarts
  <2>1. PICK ok \in BOOLEAN : Write([disk EXCEPT !.blocked = TRUE], ok)
    BY DEF BlockStore
  <2> QED
    BY <2>1, Written, FlagWritten
<1>3. /\ task' \in [Task -> [pc : TaskPc, principal : Token \cup {None}]]
      /\ task'[t].pc = "blockClear" /\ \A u \in Task \ {t} : task'[u] = task[u]
      /\ \A u \in Task : task'[u].pc \in Carrying => task'[u].principal \in Token
  BY <1>1, Moved DEF Blocking
<1>4. TypeOK' /\ Shaped'
  BY <1>1, <1>2, <1>3 DEF TypeOK, Shaped
<1>5. /\ InUse' \subseteq InUse
      /\ \A e \in Device : Current(e)' = Current(e) /\ (Untouched(e) => Untouched(e)')
  BY <1>1, <1>3, <1>4, NothingNew DEF Blocking
<1>6. Issued' /\ Replaced' /\ Fresh' /\ Withheld' /\ Strangers'
  BY <1>1, <1>5 DEF Issued, Replaced, Fresh, Withheld, Strangers
<1>7. Shut' /\ Stored'
  BY <1>1, <1>2, <1>3 DEF Shut, Stored, Pending
<1>8. \A u \in Task : /\ task'[u].pc \in Blocking <=> task[u].pc \in Blocking
                      /\ task'[u].pc \in Resuming <=> task[u].pc \in Resuming
                      /\ task'[u].pc = "resumeFlag" <=> task[u].pc = "resumeFlag"
  BY <1>1, <1>3 DEF Blocking, Resuming
<1>9. Apart' /\ Holding' /\ Usable'
  BY <1>1, <1>5, <1>8 DEF Apart, Holding, Usable, Active
<1> QED
  BY <1>4, <1>6, <1>7, <1>9

\* Every known device loses its token.
LEMMA BlockClearStep ==
  ASSUME IInv, NEW t \in Task, BlockClear(t)
  PROVE  IInv'
<1> USE DEF IInv
<1>1. /\ task[t].pc = "blockClear" /\ Goto(t, "blockInput")
      /\ cancelled' = cancelled \cup {Current(d) : d \in Known}
      /\ grants' = {} /\ tickets' = 0
      /\ UNCHANGED <<blocked, disk, device, token, socket, owner, orphans, clash, failures, restarts>>
  BY DEF BlockClear, Current, historyVars, limitVars
<1>2. /\ task' \in [Task -> [pc : TaskPc, principal : Token \cup {None}]]
      /\ task'[t].pc = "blockInput" /\ \A u \in Task \ {t} : task'[u] = task[u]
      /\ \A u \in Task : task'[u].pc \in Carrying => task'[u].principal \in Token
  BY <1>1, Moved DEF Blocking
<1>3. /\ \A d \in Device : Current(d) \in Token
      /\ \A d \in Device : Current(d)[1] = d /\ Current(d)[2] <= token[d]
  BY DEF Current, Token, TypeOK
<1>4. TypeOK' /\ Shaped'
  <2>1. cancelled' \subseteq Token
    BY <1>1, <1>3 DEF TypeOK, Known
  <2>2. tickets' \in 0..MaxTickets
    BY <1>1, Bounds
  <2> QED
    BY <1>1, <1>2, <2>1, <2>2 DEF TypeOK, Shaped
<1>5. /\ InUse' \subseteq InUse
      /\ \A e \in Device : Current(e)' = Current(e) /\ (Untouched(e) => Untouched(e)')
  BY <1>1, <1>2, <1>4, NothingNew DEF Blocking
<1>6. Issued' /\ Replaced' /\ Withheld'
  BY <1>1, <1>5 DEF Issued, Replaced, Withheld
<1>7. Fresh'
  BY <1>1, <1>3 DEF Fresh, Known
<1>8. Strangers'
  <2> SUFFICES ASSUME NEW e \in Device, device[e] = "none"
               PROVE  Untouched(e)' /\ Current(e) \notin cancelled'
    BY <1>1, <1>5 DEF Strangers
  <2>1. Untouched(e) /\ Current(e) \notin cancelled
    BY DEF Strangers
  <2>2. \A d \in Known : Current(d) # Current(e)
    BY <1>3 DEF Known
  <2> QED
    BY <1>1, <1>5, <2>1, <2>2
<1>9. Shut'
  BY <1>1, <1>5 DEF Shut, Strangers, Known
<1>10. Stored'
  BY <1>1, <1>2 DEF Stored
<1>11. \A u \in Task : /\ task'[u].pc \in Blocking <=> task[u].pc \in Blocking
                       /\ task'[u].pc \in Resuming <=> task[u].pc \in Resuming
  BY <1>1, <1>2 DEF Blocking, Resuming
<1>12. Apart' /\ Holding'
  BY <1>1, <1>11 DEF Apart, Holding
<1>13. Usable'
  <2>1. task'[t].pc \in Blocking
    BY <1>2 DEF Blocking
  <2>2. ~clash' => blocked' /\ \A u \in Task : task'[u].pc \notin Resuming
    BY <1>12, <2>1 DEF Apart, Holding
  <2> QED
    BY <2>2 DEF Usable, Resuming
<1> QED
  BY <1>4, <1>6, <1>7, <1>8, <1>9, <1>10, <1>12, <1>13

\* A resume begins.
LEMMA ResumeStep ==
  ASSUME IInv, NEW t \in Task, Resume(t)
  PROVE  IInv'
<1> USE DEF IInv
<1>1. /\ task[t].pc = "idle" /\ Goto(t, "resumeStore")
      /\ clash' = (clash \/ \E u \in Task : task[u].pc \in Blocking)
      /\ UNCHANGED <<blocked, disk, device, token, cancelled, tickets, grants, socket, owner, orphans,
                     failures, restarts>>
  BY DEF Resume, Meets, authVars, limitVars
<1>2. /\ task' \in [Task -> [pc : TaskPc, principal : Token \cup {None}]]
      /\ task'[t].pc = "resumeStore" /\ \A u \in Task \ {t} : task'[u] = task[u]
      /\ \A u \in Task : task'[u].pc \in Carrying => task'[u].principal \in Token
  BY <1>1, Moved DEF Resuming
<1>3. clash' \in BOOLEAN
  BY <1>1 DEF TypeOK
<1>4. TypeOK' /\ Shaped'
  BY <1>1, <1>2, <1>3 DEF TypeOK, Shaped
<1>5. /\ InUse' \subseteq InUse
      /\ \A e \in Device : Current(e)' = Current(e) /\ (Untouched(e) => Untouched(e)')
  BY <1>1, <1>2, <1>4, NothingNew DEF Resuming
<1>6. Issued' /\ Replaced' /\ Fresh' /\ Withheld' /\ Strangers'
  BY <1>1, <1>5 DEF Issued, Replaced, Fresh, Withheld, Strangers
<1>7. \A u \in Task : /\ task'[u].pc \in Blocking => task[u].pc \in Blocking
                      /\ task[u].pc \in Pending \cup {"resumeTokens"} => task'[u] = task[u]
                      /\ task'[u].pc = "resumeFlag" => task[u].pc = "resumeFlag"
  BY <1>1, <1>2 DEF Blocking, Pending
<1>8. Shut'
  BY <1>1, <1>5, <1>7 DEF Shut
<1>9. Stored'
  BY <1>1, <1>7 DEF Stored, Pending
<1>10. ~clash' => ~clash /\ \A u \in Task : task'[u].pc \notin Blocking
  BY <1>1, <1>7
<1>11. Apart' /\ Holding'
  BY <1>10 DEF Apart, Holding
<1>12. Usable'
  BY <1>1, <1>5, <1>7, <1>10 DEF Usable, Active
<1> QED
  BY <1>4, <1>6, <1>8, <1>9, <1>11, <1>12

\* The stored flag is taken back; without the database the resume ends.
LEMMA ResumeStoreStep ==
  ASSUME IInv, NEW t \in Task, ResumeStore(t)
  PROVE  IInv'
<1> USE DEF IInv
<1>1. /\ task[t].pc = "resumeStore"
      /\ UNCHANGED <<blocked, device, token, cancelled, tickets, grants, socket, owner, orphans, clash>>
  BY DEF ResumeStore, authVars, historyVars
<1>2. PICK ok \in BOOLEAN : /\ Write([disk EXCEPT !.blocked = FALSE], ok)
                            /\ IF ok THEN Goto(t, "resumeTokens") ELSE Finish(t)
  BY DEF ResumeStore
<1>3. /\ disk' \in [blocked : BOOLEAN, device : [Device -> Status]]
      /\ failures' \in 0..MaxFailures /\ (failures' = 0 => ok) /\ restarts' = restarts
  BY <1>2, Written, FlagWritten
<1>4. /\ task' \in [Task -> [pc : TaskPc, principal : Token \cup {None}]]
      /\ task'[t].pc = (IF ok THEN "resumeTokens" ELSE "idle")
      /\ \A u \in Task \ {t} : task'[u] = task[u]
      /\ \A u \in Task : task'[u].pc \in Carrying => task'[u].principal \in Token
  <2>1. CASE ok
    BY <1>2, <2>1, Moved DEF Resuming
  <2>2. CASE ~ok
    BY <1>2, <2>2, Finished DEF Idle
  <2> QED
    BY <2>1, <2>2
<1>5. TypeOK' /\ Shaped'
  BY <1>1, <1>3, <1>4 DEF TypeOK, Shaped
<1>6. /\ InUse' \subseteq InUse
      /\ \A e \in Device : Current(e)' = Current(e) /\ (Untouched(e) => Untouched(e)')
  BY <1>1, <1>4, <1>5, NothingNew DEF Resuming
<1>7. Issued' /\ Replaced' /\ Fresh' /\ Withheld' /\ Strangers'
  BY <1>1, <1>6 DEF Issued, Replaced, Fresh, Withheld, Strangers
<1>8. \A u \in Task : /\ task'[u].pc \in Blocking <=> task[u].pc \in Blocking
                      /\ task'[u].pc \in Resuming => task[u].pc \in Resuming
                      /\ task'[u].pc \in Pending <=> task[u].pc \in Pending
                      /\ task'[u].pc = "resumeFlag" <=> task[u].pc = "resumeFlag"
  BY <1>1, <1>4 DEF Blocking, Resuming, Pending
<1>9. Shut'
  BY <1>1, <1>6, <1>8 DEF Shut
<1>10. Stored'
  BY <1>3, <1>4 DEF Stored
<1>11. Apart' /\ Holding' /\ Usable'
  BY <1>1, <1>6, <1>8 DEF Apart, Holding, Usable, Active
<1> QED
  BY <1>5, <1>7, <1>9, <1>10, <1>11

\* Every device that is not revoked gets the next token, which nobody has and
\* which is good.
LEMMA ResumeTokensStep ==
  ASSUME IInv, NEW t \in Task, ResumeTokens(t)
  PROVE  IInv'
<1> USE DEF IInv
<1>1. /\ task[t].pc = "resumeTokens" /\ Goto(t, "resumeFlag")
      /\ \A d \in Active : token[d] < MaxGen
      /\ token' = [d \in Device |-> IF d \in Active THEN token[d] + 1 ELSE token[d]]
      /\ orphans' = orphans \cup ({Current(d) : d \in Active} \ cancelled)
      /\ UNCHANGED <<blocked, disk, device, cancelled, tickets, grants, socket, owner, clash,
                     failures, restarts>>
  BY DEF ResumeTokens, Current, limitVars
<1>2. /\ task' \in [Task -> [pc : TaskPc, principal : Token \cup {None}]]
      /\ task'[t].pc = "resumeFlag" /\ \A u \in Task \ {t} : task'[u] = task[u]
      /\ \A u \in Task : task'[u].pc \in Carrying => task'[u].principal \in Token
  BY <1>1, Moved DEF Resuming
<1>3. \A d \in Device : /\ token[d] \in 0..MaxGen /\ Current(d) \in Token
                        /\ Current(d)[1] = d /\ Current(d)[2] = token[d]
  BY DEF Current, Token, TypeOK
<1>4. /\ token' \in [Device -> 0..MaxGen]
      /\ \A d \in Device : token'[d] = IF d \in Active THEN token[d] + 1 ELSE token[d]
  BY <1>1, <1>3, Bounds
<1>5. TypeOK' /\ Shaped'
  <2>1. orphans' \subseteq Token
    BY <1>1, <1>3 DEF TypeOK, Active
  <2> QED
    BY <1>1, <1>2, <1>4, <2>1 DEF TypeOK, Shaped
<1>6. InUse' \subseteq InUse
  BY <1>1, <1>2, <1>5, InUseMeans, InUseMeansNext
<1>7. \A p \in Token : p[1] \in Device /\ p[2] \in 0..MaxGen /\ p = <<p[1], p[2]>>
  BY DEF Token
<1>8. Issued' /\ Fresh'
  <2>1. \A p \in Token : p[2] <= token[p[1]] => p[2] <= token'[p[1]]
    BY <1>3, <1>4, <1>7, Bounds
  <2>2. cancelled \subseteq Token
    BY DEF TypeOK
  <2> QED
    BY <1>1, <1>6, <2>1, <2>2 DEF Issued, Fresh
<1>9. Replaced'
  <2> SUFFICES ASSUME NEW p \in Token, p[2] < token'[p[1]]
               PROVE  p \in cancelled \cup orphans'
    BY <1>1 DEF Replaced
  <2>1. CASE p[2] < token[p[1]]
    BY <1>1, <2>1 DEF Replaced
  <2>2. CASE ~(p[2] < token[p[1]])
    <3>1. p[1] \in Active /\ p[2] = token[p[1]]
      BY <1>3, <1>4, <1>7, <2>2, Bounds
    <3>2. p = Current(p[1])
      BY <1>7, <3>1 DEF Current
    <3> QED
      BY <1>1, <3>1, <3>2
  <2> QED
    BY <2>1, <2>2
<1>10. ASSUME NEW e \in Device, e \notin Active
       PROVE  Current(e)' = Current(e) /\ (Untouched(e) => Untouched(e)')
  <2>1. Current(e)' = Current(e)
    BY <1>4, <1>10 DEF Current
  <2>2. Untouched(e) => \A u \in Task : task'[u].pc \in LogIn => task'[u].principal[1] # e
    BY <1>2 DEF Untouched, LogIn
  <2> QED
    BY <1>1, <1>6, <2>1, <2>2 DEF Untouched
<1>11. Withheld' /\ Strangers'
  BY <1>1, <1>10 DEF Withheld, Strangers, Active
<1>12. Shut' /\ Stored'
  BY <1>2 DEF Shut, Stored, Pending
<1>13. \A u \in Task : /\ task'[u].pc \in Blocking <=> task[u].pc \in Blocking
                       /\ task'[u].pc \in Resuming <=> task[u].pc \in Resuming
  BY <1>1, <1>2 DEF Blocking, Resuming
<1>14. Apart' /\ Holding'
  BY <1>1, <1>13 DEF Apart, Holding
<1>15. Usable'
  <2> SUFFICES ASSUME NEW e \in Active PROVE Current(e)' \notin cancelled
    BY <1>1 DEF Usable, Active
  <2>1. Current(e)' = <<e, token[e] + 1>> /\ e \in Device
    BY <1>4 DEF Current, Active
  <2>2. ~(token[e] + 1 <= token[e])
    BY <1>3, <2>1
  <2> QED
    BY <2>1, <2>2 DEF Fresh
<1> QED
  BY <1>5, <1>8, <1>9, <1>11, <1>12, <1>14, <1>15

\* The host opens.
LEMMA ResumeFlagStep ==
  ASSUME IInv, NEW t \in Task, ResumeFlag(t)
  PROVE  IInv'
<1> USE DEF IInv
<1>1. /\ task[t].pc = "resumeFlag" /\ Finish(t) /\ blocked' = FALSE
      /\ UNCHANGED <<disk, device, token, cancelled, tickets, grants, socket, owner, orphans, clash,
                     failures, restarts>>
  BY DEF ResumeFlag, authVars, historyVars, limitVars
<1>2. /\ task' \in [Task -> [pc : TaskPc, principal : Token \cup {None}]]
      /\ \A u \in Task : task'[u] = IF u = t THEN Idle ELSE task[u]
      /\ \A u \in Task : task'[u].pc \in Carrying => task'[u].principal \in Token
  BY <1>1, Finished
<1>3. TypeOK' /\ Shaped'
  BY <1>1, <1>2 DEF TypeOK, Shaped
<1>4. /\ InUse' \subseteq InUse
      /\ \A e \in Device : Current(e)' = Current(e) /\ (Untouched(e) => Untouched(e)')
  BY <1>1, <1>2, <1>3, NothingNew DEF Idle
<1>5. Issued' /\ Replaced' /\ Fresh' /\ Withheld' /\ Strangers'
  BY <1>1, <1>4 DEF Issued, Replaced, Fresh, Withheld, Strangers
<1>6. Shut' /\ Stored'
  BY <1>1 DEF Shut, Stored
<1>7. task[t].pc \in Resuming
  BY <1>1 DEF Resuming
<1>8. \A u \in Task : task'[u].pc \in Blocking \cup Resuming => task'[u] = task[u]
  BY <1>2 DEF Idle, Blocking, Resuming
<1>9. Apart' /\ Holding'
  BY <1>1, <1>7, <1>8 DEF Apart, Holding
<1>10. Usable'
  BY <1>1, <1>4 DEF Usable, Active
<1> QED
  BY <1>3, <1>5, <1>6, <1>9, <1>10

\* A device is revoked; its token is canceled whether or not that is saved.
LEMMA RevokeStep ==
  ASSUME IInv, NEW t \in Task, NEW d \in Device, Revoke(t, d)
  PROVE  IInv'
<1> USE DEF IInv
<1>1. /\ task[t].pc = "revoke" /\ device[d] # "none"
      /\ device' = [device EXCEPT ![d] = "revoked"]
      /\ cancelled' = cancelled \cup {Current(d)}
      /\ UNCHANGED <<blocked, token, tickets, socket, owner, orphans, clash>>
  BY DEF Revoke, Current, historyVars
<1>2. PICK ok \in BOOLEAN :
        /\ Write([disk EXCEPT !.device[d] = "revoked"], ok)
        /\ grants' = IF ok THEN grants \ Of(d) ELSE grants
        /\ task' = IF ok THEN [task EXCEPT ![t] = [pc |-> "revokeLease", principal |-> <<d, 0>>]]
                   ELSE [task EXCEPT ![t] = Idle]
  BY DEF Revoke
<1>3. /\ disk' \in [blocked : BOOLEAN, device : [Device -> Status]]
      /\ failures' \in 0..MaxFailures /\ restarts' = restarts
      /\ failures' = 0 => failures = 0 /\ disk'.blocked = disk.blocked
  <2>1. /\ [disk EXCEPT !.device[d] = "revoked"] \in [blocked : BOOLEAN, device : [Device -> Status]]
        /\ [disk EXCEPT !.device[d] = "revoked"].blocked = disk.blocked
    BY DEF TypeOK, Status
  <2> QED
    BY <1>2, <2>1, Written
<1>4. /\ task' \in [Task -> [pc : TaskPc, principal : Token \cup {None}]]
      /\ task'[t].pc \in {"idle", "revokeLease"} /\ \A u \in Task \ {t} : task'[u] = task[u]
      /\ \A u \in Task : task'[u].pc \in Carrying => task'[u].principal \in Token
  <2>1. CASE ok
    <3>1. <<d, 0>> \in Token /\ "revokeLease" \in Carrying
      BY FirstGrants DEF Carrying
    <3> QED
      BY <1>2, <2>1, <3>1, Placed
  <2>2. CASE ~ok
    <3>1. Finish(t)
      BY <1>2, <2>2 DEF Finish
    <3> QED
      BY <3>1, Finished DEF Idle
  <2> QED
    BY <2>1, <2>2
<1>5. \A e \in Device : Current(e) \in Token /\ Current(e)[1] = e /\ Current(e)[2] <= token[e]
  BY DEF Current, Token, TypeOK
<1>6. /\ device' \in [Device -> Status] /\ device'[d] = "revoked"
      /\ \A e \in Device \ {d} : device'[e] = device[e]
  BY <1>1 DEF TypeOK, Status
<1>7. grants' \subseteq grants
  BY <1>2
<1>8. TypeOK' /\ Shaped'
  <2>1. cancelled' \subseteq Token
    BY <1>1, <1>5 DEF TypeOK
  <2> QED
    BY <1>1, <1>3, <1>4, <1>6, <1>7, <2>1 DEF TypeOK, Shaped
<1>9. /\ InUse' \subseteq InUse
      /\ \A e \in Device : Current(e)' = Current(e) /\ (Untouched(e) => Untouched(e)')
  BY <1>1, <1>4, <1>7, <1>8, NothingNew
<1>10. \A e \in Device \ {d} : Current(e) # Current(d)
  BY <1>5
<1>11. Issued' /\ Replaced'
  BY <1>1, <1>9 DEF Issued, Replaced
<1>12. Fresh'
  BY <1>1, <1>5 DEF Fresh
<1>13. Withheld'
  BY <1>1, <1>6, <1>9 DEF Withheld
<1>14. Strangers'
  BY <1>1, <1>6, <1>9, <1>10 DEF Strangers
<1>15. \A u \in Task : /\ task[u].pc \in Blocking \cup Resuming => task'[u] = task[u]
                       /\ task'[u].pc \in Blocking \cup Resuming => task'[u] = task[u]
  BY <1>1, <1>4 DEF Blocking, Resuming
<1>16. Shut'
  <2>1. (\A u \in Task : task'[u].pc \notin Pending) => \A u \in Task : task[u].pc \notin Pending
    BY <1>15 DEF Pending, Blocking, Resuming
  <2> QED
    BY <1>1, <1>9, <2>1 DEF Shut
<1>17. Stored'
  BY <1>1, <1>3, <1>15 DEF Stored, Blocking, Resuming
<1>18. Apart' /\ Holding'
  BY <1>1, <1>15 DEF Apart, Holding
<1>19. Usable'
  <2>1. \A e \in Active' : e \in Active /\ e # d
    BY <1>6 DEF Active
  <2>2. (\E u \in Task : task'[u].pc = "resumeFlag") => \E u \in Task : task[u].pc = "resumeFlag"
    BY <1>15 DEF Resuming
  <2> QED
    BY <1>1, <1>9, <1>10, <2>1, <2>2 DEF Usable, Active
<1> QED
  BY <1>8, <1>11, <1>12, <1>13, <1>14, <1>16, <1>17, <1>18, <1>19

\* The agent starts again from its tables.
LEMMA RestartStep ==
  ASSUME IInv, Restart
  PROVE  IInv'
<1> USE DEF IInv
<1>1. /\ restarts < MaxRestarts /\ restarts' = restarts + 1
      /\ blocked' = disk.blocked /\ device' = disk.device
      /\ token' = [d \in Device |-> 0]
      /\ cancelled' = {<<d, 0>> : d \in {e \in Device : disk.device[e] = "revoked"}}
      /\ tickets' = 0 /\ grants' = {}
      /\ socket' = [k \in Conn |-> Closed] /\ owner' = None
      /\ task' = [u \in Task |-> Idle]
      /\ orphans' = {} /\ clash' = FALSE /\ disk' = disk /\ failures' = failures
  BY DEF Restart
<1>2. TypeOK'
  <2>1. disk \in [blocked : BOOLEAN, device : [Device -> Status]]
    BY DEF TypeOK
  <2>2. /\ disk' \in [blocked : BOOLEAN, device : [Device -> Status]]
        /\ device' \in [Device -> Status] /\ blocked' \in BOOLEAN /\ clash' \in BOOLEAN
    BY <1>1, <2>1
  <2>3. /\ token' \in [Device -> 0..MaxGen] /\ tickets' \in 0..MaxTickets
        /\ failures' \in 0..MaxFailures /\ restarts' \in 0..MaxRestarts
    BY <1>1, Bounds DEF TypeOK
  <2>4. /\ socket' \in [Conn -> [pc : SocketPc, principal : Token \cup {None}]]
        /\ task' \in [Task -> [pc : TaskPc, principal : Token \cup {None}]]
    BY <1>1 DEF Closed, Idle, SocketPc, TaskPc
  <2>5. cancelled' \subseteq Token
    BY <1>1, Bounds DEF Token
  <2> QED
    BY <1>1, <2>2, <2>3, <2>4, <2>5 DEF TypeOK
<1>3. Shaped'
  BY <1>1 DEF Shaped, Closed, Idle, Carrying
<1>4. InUse' = {}
  BY <1>1 DEF InUse, Closed, Idle
<1>5. \A d \in Device : Untouched(d)' /\ Current(d)' = <<d, 0>>
  BY <1>1, <1>4 DEF Untouched, Current, Idle, LogIn
<1>6. Issued' /\ Shut'
  BY <1>4, <1>5 DEF Issued, Shut
<1>7. Replaced' /\ Fresh'
  BY <1>1, Bounds DEF Replaced, Fresh, Token
<1>8. Withheld' /\ Strangers' /\ Usable'
  BY <1>1, <1>5 DEF Withheld, Strangers, Usable, Active
<1>9. Stored'
  BY <1>1 DEF Stored
<1>10. Apart' /\ Holding'
  BY <1>1 DEF Apart, Holding, Idle, Blocking, Resuming
<1> QED
  BY <1>2, <1>3, <1>6, <1>7, <1>8, <1>9, <1>10

\* The invariant is inductive.
LEMMA NextIInv == IInv /\ [Next]_vars => IInv'
<1> SUFFICES ASSUME IInv, [Next]_vars PROVE IInv'
  OBVIOUS
<1>1. ASSUME NEW t \in Task, Request(t) PROVE IInv'
  BY <1>1, AskStep, PlainRequest, PairStep, LogInStep, AuthorizeStep, TicketStep DEF Request
<1>2. ASSUME NEW t \in Task, Administration(t) PROVE IInv'
  BY <1>2, BlockStep, BlockStoreStep, BlockClearStep, PlainRequest, ResumeStep, ResumeStoreStep,
     ResumeTokensStep, ResumeFlagStep, RevokeStep DEF Administration
<1>3. ASSUME NEW k \in Conn, AskLease(k) \/ AskRefresh(k) \/ Hangup(k) \/ SocketStep(k) PROVE IInv'
  BY <1>3, SocketsStep DEF SocketStep
<1>4. CASE LoseLease
  <2>1. TypeOK' /\ Shaped'
    BY <1>4 DEF IInv, LoseLease, TypeOK, Shaped, authVars, historyVars, limitVars
  <2>2. InUse' = InUse
    BY <1>4 DEF LoseLease, InUse, authVars
  <2> QED
    BY <1>4, <2>1, <2>2, ShrinkingStep DEF LoseLease, authVars, historyVars, limitVars
<1>5. CASE UNCHANGED vars
  <2>1. UNCHANGED <<blocked, disk, device, token, cancelled, tickets, grants, socket, owner, task,
                    orphans, clash, failures, restarts>>
    BY <1>5 DEF vars, authVars, historyVars, limitVars
  <2>2. TypeOK' /\ Shaped' /\ InUse' = InUse
    BY <2>1 DEF IInv, TypeOK, Shaped, InUse
  <2> QED
    BY <2>1, <2>2, ShrinkingStep
<1> QED
  BY <1>1, <1>2, <1>3, <1>4, <1>5, LapseStep, RestartStep DEF Next

\* Tokens, flags and requests keep to what the properties below rest on.
THEOREM Invariance == Spec => []IInv
BY InitIInv, NextIInv, PTL DEF Spec

\* Every variable keeps its type.
THEOREM TypeCorrect == Spec => []TypeOK
<1>1. IInv => TypeOK
  BY DEF IInv
<1> QED
  BY <1>1, Invariance, PTL

\* A principal of a revoked device is canceled wherever it is in use, saved or
\* not (auth.rs revoke), unless a resume replaced its token.
THEOREM RevokedIsOut == Spec => []RevokedLetsGo
<1>1. IInv => RevokedLetsGo
  <2> SUFFICES ASSUME IInv, NEW p \in InUse, device[p[1]] = "revoked"
               PROVE  p \in cancelled \cup orphans
    BY DEF RevokedLetsGo
  <2>1. p \in Token /\ p[2] <= token[p[1]] /\ p[1] \in Device /\ p = <<p[1], p[2]>>
        /\ p[2] \in Int /\ token[p[1]] \in Int
    BY DEF IInv, Issued, Token, TypeOK
  <2>2. CASE p[2] < token[p[1]]
    BY <2>1, <2>2 DEF IInv, Replaced
  <2>3. CASE p[2] = token[p[1]]
    BY <2>1, <2>3 DEF IInv, Withheld, Current
  <2> QED
    BY <2>1, <2>2, <2>3
<1> QED
  BY <1>1, Invariance, PTL

\* Nobody gets through a block, whatever was under way when it came
\* (auth.rs block), but for tokens that a resume replaced.
THEOREM BlockedIsOut == Spec => []BlockedLetsGo
<1>1. IInv => BlockedLetsGo
  <2> SUFFICES ASSUME IInv, blocked, Quiet, NEW p \in InUse
               PROVE  p \in cancelled \cup orphans
    BY DEF BlockedLetsGo
  <2>1. p \in Token /\ p[2] <= token[p[1]] /\ p[1] \in Device /\ p = <<p[1], p[2]>>
        /\ p[2] \in Int /\ token[p[1]] \in Int
    BY DEF IInv, Issued, Token, TypeOK
  <2>2. CASE p[2] < token[p[1]]
    BY <2>1, <2>2 DEF IInv, Replaced
  <2>3. CASE p[2] = token[p[1]]
    <3>1. \A t \in Task : task[t].pc \notin Pending
      BY DEF Quiet, Pending, Blocking, Resuming
    <3>2. p = Current(p[1])
      BY <2>1, <2>3 DEF Current
    <3> QED
      BY <2>1, <3>1, <3>2 DEF IInv, Shut, Untouched
  <2> QED
    BY <2>1, <2>2, <2>3
<1> QED
  BY <1>1, Invariance, PTL

\* A quiet blocked host has its block in the database if no write failed
\* (auth.rs block, resume).
THEOREM BlockIsStored == Spec => []BlockSurvives
<1>1. IInv => BlockSurvives
  BY DEF IInv, Stored, BlockSurvives, Quiet, Blocking, Resuming
<1> QED
  BY <1>1, Invariance, PTL

\* A quiet open host leaves no device that is not revoked with a canceled token
\* unless a block and a resume overlapped (auth.rs resume).
THEOREM OpenIsOpen == Spec => []OpenIsUsable
<1>1. IInv => OpenIsUsable
  BY DEF IInv, Usable, OpenIsUsable, Current
<1> QED
  BY <1>1, Invariance, PTL
=============================================================================
