-------------------------- MODULE SessionLifecycle ---------------------------
(***************************************************************************)
(* The life of the terminal sessions of one agent                          *)
(* (crates/rc-agent/src/session.rs SessionManager, Session::close,         *)
(* rename_label and the wait thread; crates/rc-agent/src/store.rs):        *)
(* request handlers that create, rename and close sessions, the shutdown   *)
(* that closes all of them, one thread per session that waits for its      *)
(* child, the SQLite row each session leaves, and the restart that reads   *)
(* it back.                                                                *)
(*                                                                         *)
(* A session's Arc is held by the manager's map, by handlers and by its    *)
(* wait thread once that has upgraded its weak reference; it is gone when  *)
(* nobody holds it.                                                        *)
(***************************************************************************)
EXTENDS Integers, FiniteSets

CONSTANTS
  MaxCreated,   \* bound: sessions created in one behaviour
  Handler,      \* request tasks running together; shutdown runs in one too
  Label,        \* the names a session may be given
  FirstLabel,   \* bound: the one it is created with
  MaxSessions,  \* config.max_sessions
  MaxFailures,  \* bound: failed database writes in one behaviour
  MaxRestarts,  \* bound: ends of the agent process
  Nobody,       \* an unlocked mutex
  NoRow         \* a session without a database row

ASSUME LifecycleAssumption ==
  /\ MaxCreated \in Nat /\ MaxSessions \in Nat \ {0}
  /\ MaxFailures \in Nat /\ MaxRestarts \in Nat
  /\ Nobody \notin Handler

VARIABLES
  lock,      \* who holds the manager's `sessions` mutex
  live,      \* the keys of that map
  running,   \* Session.running
  meta,      \* meta[s]: [state, label] behind the session's `meta` mutex
  metaLock,  \* who keeps that mutex over several steps (rename_label)
  child,     \* the child process: "none", "alive", "dead"
  closed,    \* history: sessions whose running flag was cleared by close
  waiter,    \* the wait threads
  handler,   \* the request handlers
  db,        \* the sessions table
  failures, restarts

vars == <<lock, live, running, meta, metaLock, child, closed, waiter, handler, db,
          failures, restarts>>

\* Sessions, in the order of their creation.
Session == 1..MaxCreated

State == {"running", "closing", "exited", "lost"}
Meta == [state : State, label : Label \cup {FirstLabel}]

ASSUME NoOne == Nobody \notin Session /\ NoRow \notin Meta   \* no reference, no row

NoTask == [pc |-> "idle", s |-> Nobody, row |-> NoRow, label |-> NoRow, todo |-> {}, then |-> "idle"]

\* Some strong reference exists.
Held(s) ==
  \/ s \in live
  \/ \E h \in Handler : handler[h].s = s
  \/ waiter[s].pc \in {"state", "info", "save"}

Init ==
  /\ lock = Nobody /\ live = {}
  /\ running = [s \in Session |-> FALSE]
  /\ meta = [s \in Session |-> NoRow]
  /\ metaLock = [s \in Session |-> Nobody]
  /\ child = [s \in Session |-> "none"]
  /\ closed = {}
  /\ waiter = [s \in Session |-> [pc |-> "none", row |-> NoRow]]
  /\ handler = [h \in Handler |-> NoTask]
  /\ db = [s \in Session |-> NoRow]
  /\ failures = 0 /\ restarts = 0

\* A database write that leaves table d, or fails and leaves it as it was.
Write(d, ok) ==
  /\ db' = IF ok THEN d ELSE db
  /\ failures' = IF ok THEN failures ELSE failures + 1
  /\ failures' <= MaxFailures

Goto(h, pc) == handler' = [handler EXCEPT ![h].pc = pc]

Done(h) == handler' = [handler EXCEPT ![h] = NoTask]
-----------------------------------------------------------------------------
(***************************************************************************)
(* SessionManager::create, which keeps the map locked to its end.          *)
(***************************************************************************)

\* Below the limit, the map forgets the sessions that no longer run.
HasSlot == Cardinality({s \in live : running[s]}) < MaxSessions

\* Faulty variant: the map is locked anew to insert the session.
CreateUnlocked(h, s) ==
  /\ handler[h].pc = "idle" /\ lock = Nobody /\ HasSlot
  /\ child[s] = "none" /\ \A t \in 1..s - 1 : child[t] # "none"
  /\ live' = {t \in live : running[t]}
  /\ child' = [child EXCEPT ![s] = "alive"]
  /\ running' = [running EXCEPT ![s] = TRUE]
  /\ meta' = [meta EXCEPT ![s] = [state |-> "running", label |-> FirstLabel]]
  /\ waiter' = [waiter EXCEPT ![s].pc = "waiting"]
  /\ handler' = [handler EXCEPT ![h].pc = "describe", ![h].s = s]
  /\ UNCHANGED <<lock, metaLock, closed, db, failures, restarts>>

\* Up to the point where the child runs, and the session's threads with it.
Create(h, s) ==
  /\ handler[h].pc = "idle" /\ lock = Nobody /\ HasSlot
  /\ child[s] = "none" /\ \A t \in 1..s - 1 : child[t] # "none"
  /\ lock' = h
  /\ live' = {t \in live : running[t]}
  /\ child' = [child EXCEPT ![s] = "alive"]
  /\ running' = [running EXCEPT ![s] = TRUE]
  /\ meta' = [meta EXCEPT ![s] = [state |-> "running", label |-> FirstLabel]]
  /\ waiter' = [waiter EXCEPT ![s].pc = "waiting"]
  /\ handler' = [handler EXCEPT ![h].pc = "describe", ![h].s = s]
  /\ UNCHANGED <<metaLock, closed, db, failures, restarts>>

\* The project, the pseudoconsole, the profile, the child or one of the
\* threads cannot be had; a child already spawned dies with its session.
CreateFails(h) ==
  /\ handler[h].pc = "idle" /\ lock = Nobody /\ HasSlot
  /\ live' = {t \in live : running[t]}
  /\ UNCHANGED <<lock, running, meta, metaLock, child, closed, waiter, handler, db, failures,
                 restarts>>

\* s.info() before the row is written.
CreateInfo(h) ==
  LET s == handler[h].s
  IN /\ handler[h].pc = "describe"
     /\ handler' = [handler EXCEPT ![h].pc = "record", ![h].row = meta[s]]
     /\ UNCHANGED <<lock, live, running, meta, metaLock, child, closed, waiter, db, failures,
                    restarts>>

\* Faulty variant: an error of the database is ignored.
CreateSaveUnchecked(h) ==
  LET s == handler[h].s
  IN /\ handler[h].pc = "record"
     /\ \E ok \in BOOLEAN : Write([db EXCEPT ![s] = handler[h].row], ok)
     /\ live' = live \cup {s} /\ lock' = Nobody
     /\ Done(h)
     /\ UNCHANGED <<running, meta, metaLock, child, closed, waiter, restarts>>

\* save_session, and the session enters the map; if the write fails it is
\* closed again, still under the lock.
CreateSave(h) ==
  LET s == handler[h].s
  IN /\ handler[h].pc = "record"
     /\ \/ /\ Write([db EXCEPT ![s] = handler[h].row], TRUE)
           /\ live' = live \cup {s} /\ lock' = Nobody
           /\ Done(h)
        \/ /\ Write(db, FALSE)
           /\ Goto(h, "swap")
           /\ UNCHANGED <<live, lock>>
     /\ UNCHANGED <<running, meta, metaLock, child, closed, waiter, restarts>>
-----------------------------------------------------------------------------
(***************************************************************************)
(* Session::close, called by a request, by a create that failed and, for   *)
(* every session of the locked map, by SessionManager::shutdown.           *)
(***************************************************************************)
CloseBegin(h, s) ==
  /\ handler[h].pc = "idle" /\ lock = Nobody /\ s \in live
  /\ handler' = [handler EXCEPT ![h].pc = "swap", ![h].s = s]
  /\ UNCHANGED <<lock, live, running, meta, metaLock, child, closed, waiter, db, failures, restarts>>

\* The last thing a process does (main), so it is bounded with the restarts.
ShutdownBegin(h) ==
  /\ handler[h].pc = "idle" /\ lock = Nobody /\ restarts < MaxRestarts
  /\ lock' = h
  /\ handler' = [handler EXCEPT ![h].pc = "shutdown", ![h].todo = live]
  /\ UNCHANGED <<live, running, meta, metaLock, child, closed, waiter, db, failures, restarts>>

ShutdownNext(h) ==
  /\ handler[h].pc = "shutdown"
  /\ \/ \E s \in handler[h].todo :
          /\ handler' = [handler EXCEPT ![h].pc = "swap", ![h].s = s, ![h].todo = @ \ {s},
                                        ![h].then = "shutdown"]
          /\ UNCHANGED lock
     \/ handler[h].todo = {} /\ Done(h) /\ lock' = Nobody
  /\ UNCHANGED <<live, running, meta, metaLock, child, closed, waiter, db, failures, restarts>>

\* Back in shutdown, or at the end of the request, which gives up its
\* reference and, in create, the lock.
Return(h) ==
  IF handler[h].then = "shutdown"
  THEN Goto(h, "shutdown") /\ UNCHANGED lock
  ELSE Done(h) /\ lock' = IF lock = h THEN Nobody ELSE lock

\* Only the call that finds the flag set goes on.
Swap(h) ==
  LET s == handler[h].s
  IN /\ handler[h].pc = "swap"
     /\ running' = [running EXCEPT ![s] = FALSE]
     /\ closed' = IF running[s] THEN closed \cup {s} ELSE closed
     /\ IF running[s] THEN Goto(h, "mark") /\ UNCHANGED lock ELSE Return(h)
     /\ UNCHANGED <<live, meta, metaLock, child, waiter, db, failures, restarts>>

\* The state, the kill and the end of the pseudoconsole; the child may exit
\* for reasons of its own as well (ChildExit).
Mark(h) ==
  LET s == handler[h].s
  IN /\ handler[h].pc = "mark" /\ metaLock[s] = Nobody
     /\ meta' = [meta EXCEPT ![s].state = "closing"]
     /\ Return(h)
     /\ UNCHANGED <<live, running, metaLock, child, closed, waiter, db, failures, restarts>>
-----------------------------------------------------------------------------
(***************************************************************************)
(* SessionManager::rename and Session::rename_label, which keeps `meta`    *)
(* locked while it writes the database.                                    *)
(***************************************************************************)
RenameBegin(h, s, label) ==
  /\ handler[h].pc = "idle" /\ lock = Nobody /\ s \in live
  /\ handler' = [handler EXCEPT ![h].pc = "rename", ![h].s = s, ![h].label = label]
  /\ UNCHANGED <<lock, live, running, meta, metaLock, child, closed, waiter, db, failures, restarts>>

\* Faulty variant: the mutex is given up before the database is written.
RenameCheckUnlocked(h) ==
  LET s == handler[h].s
  IN /\ handler[h].pc = "rename" /\ metaLock[s] = Nobody
     /\ IF running[s] THEN Goto(h, "renameStore") ELSE Done(h)
     /\ UNCHANGED <<lock, live, running, meta, metaLock, child, closed, waiter, db, failures,
                    restarts>>

RenameCheck(h) ==
  LET s == handler[h].s
  IN /\ handler[h].pc = "rename" /\ metaLock[s] = Nobody
     /\ IF running[s]
        THEN Goto(h, "renameStore") /\ metaLock' = [metaLock EXCEPT ![s] = h]
        ELSE Done(h) /\ UNCHANGED metaLock
     /\ UNCHANGED <<lock, live, running, meta, child, closed, waiter, db, failures, restarts>>

\* rename_session_label: one transaction on the row.
RenameStore(h) ==
  LET s == handler[h].s
  IN /\ handler[h].pc = "renameStore"
     /\ \E ok \in BOOLEAN :
          /\ Write([db EXCEPT ![s].label = handler[h].label], ok)
          /\ IF ok THEN Goto(h, "renameMeta") /\ UNCHANGED metaLock
                   ELSE Done(h) /\ metaLock' = [metaLock EXCEPT ![s] = Nobody]
     /\ UNCHANGED <<lock, live, running, meta, child, closed, waiter, restarts>>

RenameMeta(h) ==
  LET s == handler[h].s
  IN /\ handler[h].pc = "renameMeta"
     /\ meta' = [meta EXCEPT ![s].label = handler[h].label]
     /\ metaLock' = [metaLock EXCEPT ![s] = Nobody]
     /\ Done(h)
     /\ UNCHANGED <<lock, live, running, child, closed, waiter, db, failures, restarts>>
-----------------------------------------------------------------------------
(***************************************************************************)
(* The child and the thread that waits for it.                             *)
(***************************************************************************)
ChildExit(s) ==
  /\ child[s] = "alive"
  /\ child' = [child EXCEPT ![s] = "dead"]
  /\ UNCHANGED <<lock, live, running, meta, metaLock, closed, waiter, handler, db, failures, restarts>>

\* wait returned: nothing is left to do for a session that is gone.
WaitReturns(s) ==
  /\ waiter[s].pc = "waiting" /\ child[s] = "dead"
  /\ IF Held(s)
     THEN /\ running' = [running EXCEPT ![s] = FALSE]
          /\ waiter' = [waiter EXCEPT ![s].pc = "state"]
     ELSE /\ waiter' = [waiter EXCEPT ![s].pc = "done"]
          /\ UNCHANGED running
  /\ UNCHANGED <<lock, live, meta, metaLock, child, closed, handler, db, failures, restarts>>

\* "exited", or "lost" when wait itself failed; no property tells them apart.
WaitState(s) ==
  /\ waiter[s].pc = "state" /\ metaLock[s] = Nobody
  /\ meta' = [meta EXCEPT ![s].state = "exited"]
  /\ waiter' = [waiter EXCEPT ![s].pc = "info"]
  /\ UNCHANGED <<lock, live, running, metaLock, child, closed, handler, db, failures, restarts>>

WaitInfo(s) ==
  /\ waiter[s].pc = "info" /\ metaLock[s] = Nobody
  /\ waiter' = [waiter EXCEPT ![s] = [pc |-> "save", row |-> meta[s]]]
  /\ UNCHANGED <<lock, live, running, meta, metaLock, child, closed, handler, db, failures, restarts>>

\* Faulty variant: the end of a session is not written.
WaitSaveSkipped(s) ==
  /\ waiter[s].pc = "save"
  /\ waiter' = [waiter EXCEPT ![s] = [pc |-> "done", row |-> NoRow]]
  /\ UNCHANGED <<lock, live, running, meta, metaLock, child, closed, handler, db, failures, restarts>>

\* An error of the database is ignored here.
WaitSave(s) ==
  /\ waiter[s].pc = "save"
  /\ \E ok \in BOOLEAN : Write([db EXCEPT ![s] = waiter[s].row], ok)
  /\ waiter' = [waiter EXCEPT ![s] = [pc |-> "done", row |-> NoRow]]
  /\ UNCHANGED <<lock, live, running, meta, metaLock, child, closed, handler, restarts>>
-----------------------------------------------------------------------------
\* The agent process ends, cleanly or not, and a new one opens the database:
\* what the old one left unfinished is lost.
Restart ==
  /\ restarts < MaxRestarts
  /\ restarts' = restarts + 1
  /\ db' = [s \in Session |->
              IF db[s] # NoRow /\ db[s].state \in {"running", "closing"}
              THEN [db[s] EXCEPT !.state = "lost"] ELSE db[s]]
  /\ lock' = Nobody /\ live' = {}
  /\ running' = [s \in Session |-> FALSE]
  /\ meta' = [s \in Session |-> NoRow]
  /\ metaLock' = [s \in Session |-> Nobody]
  /\ child' = [s \in Session |-> IF child[s] = "none" THEN "none" ELSE "dead"]
  /\ waiter' = [s \in Session |-> [pc |-> IF child[s] = "none" THEN "none" ELSE "done", row |-> NoRow]]
  /\ handler' = [h \in Handler |-> NoTask]
  /\ UNCHANGED <<closed, failures>>

WaitThread(s) == WaitReturns(s) \/ WaitState(s) \/ WaitInfo(s) \/ WaitSave(s)

\* A handler that began goes on by itself.
Continue(h) ==
  \/ CreateInfo(h) \/ CreateSave(h)
  \/ ShutdownNext(h) \/ Swap(h) \/ Mark(h)
  \/ RenameCheck(h) \/ RenameStore(h) \/ RenameMeta(h)

Next ==
  \/ \E h \in Handler : CreateFails(h) \/ ShutdownBegin(h) \/ Continue(h)
  \/ \E h \in Handler, s \in Session : Create(h, s) \/ CloseBegin(h, s)
  \/ \E h \in Handler, s \in Session, label \in Label : RenameBegin(h, s, label)
  \/ \E s \in Session : ChildExit(s) \/ WaitThread(s)
  \/ Restart

Fairness ==
  /\ \A h \in Handler : WF_vars(Continue(h))
  /\ \A s \in Session : WF_vars(WaitThread(s))

Spec == Init /\ [][Next]_vars /\ Fairness
-----------------------------------------------------------------------------
HandlerPc == {"idle", "describe", "record", "shutdown", "swap", "mark",
              "rename", "renameStore", "renameMeta"}

Task == [pc : HandlerPc, s : Session \cup {Nobody}, row : Meta \cup {NoRow},
         label : Label \cup {NoRow}, todo : SUBSET Session, then : {"idle", "shutdown"}]

\* Types.
TypeOK ==
  /\ lock \in Handler \cup {Nobody}
  /\ live \subseteq Session /\ closed \subseteq Session
  /\ running \in [Session -> BOOLEAN]
  /\ meta \in [Session -> Meta \cup {NoRow}] /\ db \in [Session -> Meta \cup {NoRow}]
  /\ metaLock \in [Session -> Handler \cup {Nobody}]
  /\ child \in [Session -> {"none", "alive", "dead"}]
  /\ waiter \in [Session -> [pc : {"none", "waiting", "state", "info", "save", "done"},
                             row : Meta \cup {NoRow}]]
  /\ handler \in [Handler -> Task]
  /\ failures \in 0..MaxFailures /\ restarts \in 0..MaxRestarts

\* No more sessions run in the map than the configuration allows, however creations,
\* closes, exits and a shutdown overlap: the limit that create checks still holds when
\* it inserts the session (session.rs:126-133, 265).
WithinLimit == Cardinality({s \in live : running[s]}) <= MaxSessions

\* Every session the map lists was started and has its row, so that it can be
\* attached to, renamed and archived: a creation whose save fails leaves no
\* listed session behind, and no restart or removal takes the row away
\* (session.rs:258-268).
ListedIsStored == \A s \in live : child[s] # "none" /\ db[s] # NoRow

\* The database and the session agree on the label whenever no rename is in
\* progress: neither the row written at creation nor the one written by the
\* wait thread brings back an older label (session.rs:329-341, 246-256).
RenameKept ==
  \A s \in Session :
    (/\ Held(s) /\ db[s] # NoRow
     /\ \A h \in Handler : handler[h].s = s => handler[h].pc # "renameMeta")
    => db[s].label = meta[s].label

Archived(s) == db[s] # NoRow /\ db[s].state \in {"exited", "lost"}

\* A listed session whose child dies is archived, unless somebody closes it or
\* the database fails (session.rs:246-256).
ExitArchived ==
  \A s \in Session :
    (s \in live /\ running[s] /\ child[s] = "dead") ~> (Archived(s) \/ s \in closed \/ failures > 0)
=============================================================================
