---------------------------- MODULE DurableProofs ----------------------------
(***************************************************************************)
(* Proofs about the two components whose state outlives its process: the   *)
(* sessions with their database rows (SessionLifecycle), for every set of  *)
(* handlers and labels and every limit, and the settings files             *)
(* (ServeSettings), for every set of processes, names and media settings   *)
(* and any number of errors and deaths.                                    *)
(***************************************************************************)
EXTENDS SessionLifecycle, ServeSettings, FiniteSetTheorems, TLAPS

\* Handlers inside create, before the session is listed; inside rename; inside shutdown.
InCreate == {"describe", "record"}
InRename == {"rename", "renameStore", "renameMeta"}
Renaming == {"renameStore", "renameMeta"}
InShutdown(h) ==
  \/ handler[h].pc = "shutdown"
  \/ handler[h].pc \in {"swap", "mark"} /\ handler[h].then = "shutdown"

\* Only sessions that were started leave traces, and whoever refers to one finds its
\* metadata.
Traces ==
  \A s \in Session :
    /\ child[s] = "none" =>
         /\ s \notin live /\ db[s] = NoRow /\ meta[s] = NoRow
         /\ waiter[s].pc = "none" /\ metaLock[s] = Nobody
    /\ s \in live => meta[s] \in Meta
    /\ waiter[s].pc \in {"waiting", "state", "info", "save"} => meta[s] \in Meta
    /\ \A h \in Handler : handler[h].s = s \/ s \in handler[h].todo => meta[s] \in Meta

\* A handler past its first step has a session, and a rename its label and its row.
Tasks ==
  \A h \in Handler :
    /\ handler[h].pc \notin {"idle", "shutdown"} => handler[h].s \in Session
    /\ handler[h].pc \in InRename => handler[h].label \in Label /\ db[handler[h].s] # NoRow
    /\ handler[h].pc = "idle" => handler[h] = NoTask

\* Nobody else knows a session while it is created, and its row is its metadata.
Creation ==
  \A h \in Handler : handler[h].pc \in InCreate =>
    /\ lock = h /\ handler[h].s \notin live
    /\ metaLock[handler[h].s] = Nobody
    /\ \A g \in Handler \ {h} : handler[g].s # handler[h].s /\ handler[h].s \notin handler[g].todo
    /\ handler[h].todo = {}
    /\ handler[h].pc = "record" =>
         handler[h].row \in Meta /\ handler[h].row.label = meta[handler[h].s].label

\* The limit while a session is created; a shutdown keeps the map locked.
Room ==
  /\ \A h \in Handler : handler[h].pc \in InCreate =>
       Cardinality({r \in live : running[r]}) < MaxSessions
  /\ \A h \in Handler : InShutdown(h) => lock = h

\* The metadata mutex is held from the check of a rename to its end.
Locked == \A h \in Handler : handler[h].pc \in Renaming => metaLock[handler[h].s] = h

\* A session whose child is waited for no more does not run, and the copy of its
\* metadata that is about to be saved is current as far as the label goes.
Ended ==
  \A s \in Session :
    /\ waiter[s].pc \in {"state", "info", "save"} => ~running[s]
    /\ waiter[s].pc = "save" =>
         /\ metaLock[s] = Nobody
         /\ waiter[s].row \in Meta /\ waiter[s].row.label = meta[s].label

\* Row and metadata agree on the label, but for a rename between its two writes.
Labels ==
  /\ \A s \in Session : db[s] # NoRow /\ meta[s] # NoRow =>
       db[s].label = meta[s].label
       \/ \E h \in Handler : handler[h].s = s /\ handler[h].pc = "renameMeta"
  /\ \A h \in Handler : handler[h].pc = "renameMeta" => db[handler[h].s].label = handler[h].label

\* The inductive invariant: who may know a session, what its creator and a rename have to
\* themselves, and the properties it is for.
Parts ==
  /\ Traces /\ Tasks /\ Creation /\ Room /\ Locked /\ Ended /\ Labels
  /\ ListedIsStored /\ WithinLimit

IInv == TypeOK /\ Parts

LEMMA SessionsInit == Init => IInv
<1> SUFFICES ASSUME Init PROVE IInv
  OBVIOUS
<1> USE LifecycleAssumption, NoOne
<1>1. TypeOK
  BY DEF Init, TypeOK, Task, HandlerPc, NoTask, Session
<1>2. Cardinality({r \in live : running[r]}) = 0
  <2>1. {r \in live : running[r]} = {}
    BY DEF Init
  <2> QED
    BY <2>1, FS_EmptySet
<1>3. Traces /\ Tasks
  BY DEF Init, Traces, Tasks, NoTask, InRename
<1>4. Creation /\ Room /\ Locked /\ Ended
  BY DEF Init, Creation, Room, Locked, Ended, NoTask, InCreate, Renaming, InShutdown
<1>5. Labels /\ ListedIsStored /\ WithinLimit
  BY <1>2 DEF Init, Labels, NoTask, ListedIsStored, WithinLimit
<1> QED
  BY <1>1, <1>3, <1>4, <1>5 DEF IInv, Parts

\* Handler h becomes t, and the other handlers stay.
Becomes(h, t) ==
  /\ handler' \in [Handler -> Task] /\ handler'[h] = t
  /\ \A g \in Handler : g # h => handler'[g] = handler[g]

LEMMA Replace ==
  ASSUME TypeOK, NEW h \in Handler, NEW t \in Task, handler' = [handler EXCEPT ![h] = t]
  PROVE  Becomes(h, t)
BY DEF TypeOK, Becomes

\* The fields of a task.
LEMMA Fields ==
  ASSUME TypeOK, NEW h \in Handler
  PROVE  /\ handler[h] \in Task
         /\ handler[h] = [pc |-> handler[h].pc, s |-> handler[h].s, row |-> handler[h].row,
                          label |-> handler[h].label, todo |-> handler[h].todo,
                          then |-> handler[h].then]
         /\ handler[h].pc \in HandlerPc /\ handler[h].s \in Session \cup {Nobody}
         /\ handler[h].row \in Meta \cup {NoRow} /\ handler[h].label \in Label \cup {NoRow}
         /\ handler[h].todo \in SUBSET Session /\ handler[h].then \in {"idle", "shutdown"}
BY DEF TypeOK, Task

LEMMA NoTaskIsTask == NoTask \in Task
BY DEF NoTask, Task, HandlerPc

LEMMA DoneFacts == ASSUME TypeOK, NEW h \in Handler, Done(h) PROVE Becomes(h, NoTask)
BY Replace, NoTaskIsTask DEF Done

LEMMA GotoFacts ==
  ASSUME TypeOK, NEW h \in Handler, NEW place \in HandlerPc, Goto(h, place)
  PROVE  Becomes(h, [handler[h] EXCEPT !.pc = place])
<1>1. [handler[h] EXCEPT !.pc = place] \in Task
  BY DEF TypeOK, Task
<1>2. handler' = [handler EXCEPT ![h] = [handler[h] EXCEPT !.pc = place]]
  BY DEF Goto
<1> QED
  BY <1>1, <1>2, Replace

\* Handler h gets rid of what it holds, or of a part of it: it is in close, back in
\* shutdown, or idle.
Eases(h, t) ==
  /\ Becomes(h, t) /\ t.pc \in {"idle", "shutdown", "swap", "mark"}
  /\ t.s \in {Nobody, handler[h].s} /\ t.todo \subseteq handler[h].todo
  /\ t.pc \in {"swap", "mark"} => t.s \in Session
  /\ t.pc = "idle" => t = NoTask
  /\ t.pc = "shutdown" \/ (t.pc \in {"swap", "mark"} /\ t.then = "shutdown") => lock' = h
  /\ lock' \in {lock, Nobody} /\ (lock' # lock => lock = h)

LEMMA DoneEases ==
  ASSUME TypeOK, NEW h \in Handler, Done(h), lock' \in {lock, Nobody}, lock' # lock => lock = h
  PROVE  Eases(h, NoTask)
BY DoneFacts DEF Eases, NoTask

LEMMA ReturnEases ==
  ASSUME IInv, NEW h \in Handler, Return(h), handler[h].pc \in {"swap", "mark"}
  PROVE  \E t \in Task : Eases(h, t)
<1>1. CASE handler[h].then = "shutdown"
  <2> DEFINE t == [handler[h] EXCEPT !.pc = "shutdown"]
  <2>1. t \in Task /\ t.pc = "shutdown" /\ t.s = handler[h].s /\ t.todo = handler[h].todo
    BY Fields DEF IInv, Task, HandlerPc
  <2>2. Becomes(h, t) /\ lock' = lock
    BY <1>1, GotoFacts DEF Return, IInv, HandlerPc
  <2>3. lock = h
    BY <1>1 DEF IInv, Parts, Room, InShutdown
  <2> HIDE DEF t
  <2> QED
    BY <2>1, <2>2, <2>3 DEF Eases
<1>2. CASE handler[h].then # "shutdown"
  <2>1. Done(h) /\ lock' \in {lock, Nobody} /\ (lock' # lock => lock = h)
    BY <1>2 DEF Return
  <2> QED
    BY <2>1, DoneEases, NoTaskIsTask DEF IInv
<1> QED
  BY <1>1, <1>2

LEMMA RunningFinite ==
  ASSUME TypeOK
  PROVE  IsFiniteSet({r \in live : running[r]}) /\ Cardinality({r \in live : running[r]}) \in Nat
<1>1. IsFiniteSet(Session)
  <2>1. 1 \in Int /\ MaxCreated \in Int
    BY LifecycleAssumption
  <2> QED
    BY <2>1, FS_Interval, Zenon DEF Session
<1>2. {r \in live : running[r]} \subseteq Session
  BY DEF TypeOK
<1> QED
  BY <1>1, <1>2, FS_Subset, FS_CardinalityType

\* No more sessions run in the map than before.
LEMMA Fewer ==
  ASSUME TypeOK, live' \subseteq live, \A r \in live' : running'[r] => running[r]
  PROVE  Cardinality({r \in live' : running'[r]}) <= Cardinality({r \in live : running[r]})
         /\ Cardinality({r \in live : running[r]}) \in Nat
         /\ Cardinality({r \in live' : running'[r]}) \in Nat
<1>1. IsFiniteSet(Session)
  <2>1. 1 \in Int /\ MaxCreated \in Int
    BY LifecycleAssumption
  <2> QED
    BY <2>1, FS_Interval, Zenon DEF Session
<1>2. /\ {r \in live : running[r]} \subseteq Session
      /\ {r \in live' : running'[r]} \subseteq {r \in live : running[r]}
  BY DEF TypeOK
<1>3. IsFiniteSet({r \in live : running[r]})
  BY <1>1, <1>2, FS_Subset
<1> QED
  BY <1>2, <1>3, FS_Subset, FS_CardinalityType

-----------------------------------------------------------------------------
(* One lemma for each action. *)

LEMMA CloseBeginStep ==
  ASSUME IInv, NEW h \in Handler, NEW s \in Session, CloseBegin(h, s)
  PROVE  IInv'
<1> USE LifecycleAssumption, NoOne
<1>0. TypeOK /\ Parts
  BY DEF IInv
<1> DEFINE t == [handler[h] EXCEPT !.pc = "swap", !.s = s]
<1>1. /\ t \in Task
      /\ t.pc = "swap" /\ t.s = s /\ t.row = handler[h].row
      /\ t.label = handler[h].label /\ t.todo = handler[h].todo /\ t.then = handler[h].then
  BY <1>0, Fields DEF Task, HandlerPc
<1>2. handler' = [handler EXCEPT ![h] = t]
  BY <1>0 DEF CloseBegin
<1> HIDE DEF t
<1>3. Becomes(h, t)
  BY <1>0, <1>1, <1>2, Replace
<1>4. /\ handler[h].pc = "idle" /\ s \in live
      /\ UNCHANGED <<lock, live, running, meta, metaLock, child, closed, waiter, db, failures,
                   restarts>>
  BY DEF CloseBegin
<1>5. handler[h] = NoTask
  BY <1>0, <1>4 DEF Parts, Tasks
<1>6. handler[h].todo = {} /\ handler[h].then = "idle"
  BY <1>5 DEF NoTask
<1>10. TypeOK'
  BY <1>0, <1>1, <1>3, <1>4, <1>6 DEF TypeOK, Becomes
<1>11. Traces'
  BY <1>0, <1>1, <1>3, <1>4, <1>6 DEF Parts, Becomes, Traces
<1>12. Tasks'
  BY <1>0, <1>1, <1>3, <1>4, <1>6 DEF Parts, Becomes, Tasks, InRename
<1>13. Creation'
  BY <1>0, <1>1, <1>3, <1>4, <1>6 DEF Parts, Becomes, Creation, InCreate
<1>14. Locked'
  BY <1>0, <1>1, <1>3, <1>4, <1>6 DEF Parts, Becomes, Locked, Renaming
<1>15. Ended'
  BY <1>0, <1>1, <1>3, <1>4, <1>6 DEF Parts, Ended
<1>16. Labels'
  BY <1>0, <1>1, <1>3, <1>4, <1>6 DEF Parts, Becomes, Labels
<1>17. ListedIsStored'
  BY <1>0, <1>1, <1>3, <1>4, <1>6 DEF Parts, ListedIsStored
<1>18. Room' /\ WithinLimit'
  BY <1>0, <1>1, <1>3, <1>4, <1>6 DEF Parts, Becomes, Room, WithinLimit, InCreate, InShutdown
<1> QED
  BY <1>10, <1>11, <1>12, <1>13, <1>14, <1>15, <1>16, <1>17, <1>18 DEF IInv, Parts

LEMMA RenameBeginStep ==
  ASSUME IInv, NEW h \in Handler, NEW s \in Session, NEW label \in Label, RenameBegin(h, s, label)
  PROVE  IInv'
<1> USE LifecycleAssumption, NoOne
<1>0. TypeOK /\ Parts
  BY DEF IInv
<1> DEFINE t == [handler[h] EXCEPT !.pc = "rename", !.s = s, !.label = label]
<1>1. /\ t \in Task
      /\ t.pc = "rename" /\ t.s = s /\ t.row = handler[h].row
      /\ t.label = label /\ t.todo = handler[h].todo /\ t.then = handler[h].then
  BY <1>0, Fields DEF Task, HandlerPc
<1>2. handler' = [handler EXCEPT ![h] = t]
  BY <1>0 DEF RenameBegin
<1> HIDE DEF t
<1>3. Becomes(h, t)
  BY <1>0, <1>1, <1>2, Replace
<1>4. /\ handler[h].pc = "idle" /\ s \in live
      /\ UNCHANGED <<lock, live, running, meta, metaLock, child, closed, waiter, db, failures,
                   restarts>>
  BY DEF RenameBegin
<1>5. handler[h] = NoTask
  BY <1>0, <1>4 DEF Parts, Tasks
<1>6. handler[h].todo = {} /\ handler[h].then = "idle"
  BY <1>5 DEF NoTask
<1>10. TypeOK'
  BY <1>0, <1>1, <1>3, <1>4, <1>6 DEF TypeOK, Becomes
<1>11. Traces'
  BY <1>0, <1>1, <1>3, <1>4, <1>6 DEF Parts, Becomes, Traces
<1>12. Tasks'
  BY <1>0, <1>1, <1>3, <1>4, <1>6 DEF Parts, Becomes, Tasks, InRename, ListedIsStored
<1>13. Creation'
  BY <1>0, <1>1, <1>3, <1>4, <1>6 DEF Parts, Becomes, Creation, InCreate
<1>14. Locked'
  BY <1>0, <1>1, <1>3, <1>4, <1>6 DEF Parts, Becomes, Locked, Renaming
<1>15. Ended'
  BY <1>0, <1>1, <1>3, <1>4, <1>6 DEF Parts, Ended
<1>16. Labels'
  BY <1>0, <1>1, <1>3, <1>4, <1>6 DEF Parts, Becomes, Labels
<1>17. ListedIsStored'
  BY <1>0, <1>1, <1>3, <1>4, <1>6 DEF Parts, ListedIsStored
<1>18. Room' /\ WithinLimit'
  BY <1>0, <1>1, <1>3, <1>4, <1>6 DEF Parts, Becomes, Room, WithinLimit, InCreate, InShutdown
<1> QED
  BY <1>10, <1>11, <1>12, <1>13, <1>14, <1>15, <1>16, <1>17, <1>18 DEF IInv, Parts

LEMMA ShutdownBeginStep ==
  ASSUME IInv, NEW h \in Handler, ShutdownBegin(h)
  PROVE  IInv'
<1> USE LifecycleAssumption, NoOne
<1>0. TypeOK /\ Parts
  BY DEF IInv
<1> DEFINE t == [handler[h] EXCEPT !.pc = "shutdown", !.todo = live]
<1>1. /\ t \in Task
      /\ t.pc = "shutdown" /\ t.s = handler[h].s /\ t.row = handler[h].row
      /\ t.label = handler[h].label /\ t.todo = live /\ t.then = handler[h].then
  BY <1>0, Fields DEF Task, HandlerPc, TypeOK
<1>2. handler' = [handler EXCEPT ![h] = t]
  BY <1>0 DEF ShutdownBegin
<1> HIDE DEF t
<1>3. Becomes(h, t)
  BY <1>0, <1>1, <1>2, Replace
<1>4. /\ handler[h].pc = "idle" /\ lock = Nobody /\ lock' = h
      /\ UNCHANGED <<live, running, meta, metaLock, child, closed, waiter, db, failures,
                   restarts>>
  BY DEF ShutdownBegin
<1>5. handler[h] = NoTask
  BY <1>0, <1>4 DEF Parts, Tasks
<1>6. handler[h].todo = {} /\ handler[h].then = "idle"
  BY <1>5 DEF NoTask
<1>7. handler[h].s = Nobody
  BY <1>5 DEF NoTask
<1>10. TypeOK'
  BY <1>0, <1>1, <1>3, <1>4, <1>6, <1>7 DEF TypeOK, Becomes
<1>11. Traces'
  BY <1>0, <1>1, <1>3, <1>4, <1>6, <1>7 DEF Parts, Becomes, Traces
<1>12. Tasks'
  BY <1>0, <1>1, <1>3, <1>4, <1>6, <1>7 DEF Parts, Becomes, Tasks, InRename
<1>13. Creation'
  BY <1>0, <1>1, <1>3, <1>4, <1>6, <1>7 DEF Parts, Becomes, Creation, InCreate
<1>14. Locked'
  BY <1>0, <1>1, <1>3, <1>4, <1>6, <1>7 DEF Parts, Becomes, Locked, Renaming
<1>15. Ended'
  BY <1>0, <1>1, <1>3, <1>4, <1>6, <1>7 DEF Parts, Ended
<1>16. Labels'
  BY <1>0, <1>1, <1>3, <1>4, <1>6, <1>7 DEF Parts, Becomes, Labels
<1>17. ListedIsStored'
  BY <1>0, <1>1, <1>3, <1>4, <1>6, <1>7 DEF Parts, ListedIsStored
<1>18. Room' /\ WithinLimit'
  BY <1>0, <1>1, <1>3, <1>4, <1>6, <1>7 DEF Parts, Becomes, Room, WithinLimit, InCreate,
                                            InShutdown
<1> QED
  BY <1>10, <1>11, <1>12, <1>13, <1>14, <1>15, <1>16, <1>17, <1>18 DEF IInv, Parts

LEMMA CreateInfoStep ==
  ASSUME IInv, NEW h \in Handler, CreateInfo(h)
  PROVE  IInv'
<1> USE LifecycleAssumption, NoOne
<1>0. TypeOK /\ Parts
  BY DEF IInv
<1>a. handler[h].s \in Session /\ meta[handler[h].s] \in Meta
  BY <1>0 DEF CreateInfo, Parts, Tasks, Traces
<1> DEFINE t == [handler[h] EXCEPT !.pc = "record", !.row = meta[handler[h].s]]
<1>1. /\ t \in Task
      /\ t.pc = "record" /\ t.s = handler[h].s /\ t.row = meta[handler[h].s]
      /\ t.label = handler[h].label /\ t.todo = handler[h].todo /\ t.then = handler[h].then
  BY <1>0, <1>a, Fields DEF Task, HandlerPc
<1>2. handler' = [handler EXCEPT ![h] = t]
  BY <1>0 DEF CreateInfo
<1> HIDE DEF t
<1>3. Becomes(h, t)
  BY <1>0, <1>1, <1>2, Replace
<1>4. /\ handler[h].pc = "describe"
      /\ UNCHANGED <<lock, live, running, meta, metaLock, child, closed, waiter, db, failures,
                   restarts>>
  BY DEF CreateInfo
<1>10. TypeOK'
  BY <1>0, <1>1, <1>3, <1>4, <1>a DEF TypeOK, Becomes, Meta
<1>11. Traces'
  BY <1>0, <1>1, <1>3, <1>4, <1>a DEF Parts, Becomes, Traces
<1>12. Tasks'
  BY <1>0, <1>1, <1>3, <1>4, <1>a DEF Parts, Becomes, Tasks, InRename
<1>13. Creation'
  BY <1>0, <1>1, <1>3, <1>4, <1>a DEF Parts, Becomes, Creation, InCreate
<1>14. Locked'
  BY <1>0, <1>1, <1>3, <1>4, <1>a DEF Parts, Becomes, Locked, Renaming
<1>15. Ended'
  BY <1>0, <1>1, <1>3, <1>4, <1>a DEF Parts, Ended
<1>16. Labels'
  BY <1>0, <1>1, <1>3, <1>4, <1>a DEF Parts, Becomes, Labels
<1>17. ListedIsStored'
  BY <1>0, <1>1, <1>3, <1>4, <1>a DEF Parts, ListedIsStored
<1>18. Room' /\ WithinLimit'
  BY <1>0, <1>1, <1>3, <1>4, <1>a DEF Parts, Becomes, Room, WithinLimit, InCreate, InShutdown
<1> QED
  BY <1>10, <1>11, <1>12, <1>13, <1>14, <1>15, <1>16, <1>17, <1>18 DEF IInv, Parts

LEMMA SwapStep ==
  ASSUME IInv, NEW h \in Handler, Swap(h)
  PROVE  IInv'
<1> USE LifecycleAssumption, NoOne
<1>0. TypeOK /\ Parts
  BY DEF IInv
<1>1. /\ handler[h].pc = "swap" /\ running' = [running EXCEPT ![handler[h].s] = FALSE]
      /\ closed' \in {closed, closed \cup {handler[h].s}}
      /\ UNCHANGED <<live, meta, metaLock, child, waiter, db, failures, restarts>>
  BY DEF Swap
<1>2. handler[h].s \in Session
  BY <1>0, <1>1 DEF Parts, Tasks
<1>3. PICK t \in Task : Eases(h, t)
  <2>1. CASE running[handler[h].s]
    <3> DEFINE t == [handler[h] EXCEPT !.pc = "mark"]
    <3>1. /\ t \in Task /\ t.pc = "mark" /\ t.s = handler[h].s
          /\ t.todo = handler[h].todo /\ t.then = handler[h].then
      BY <1>0, Fields DEF Task, HandlerPc
    <3>2. Becomes(h, t) /\ lock' = lock
      BY <1>0, <2>1, GotoFacts DEF Swap, HandlerPc
    <3>3. t.then = "shutdown" => lock = h
      BY <1>0, <1>1, <3>1 DEF Parts, Room, InShutdown
    <3> HIDE DEF t
    <3> QED
      BY <1>2, <3>1, <3>2, <3>3 DEF Eases
  <2>2. CASE ~running[handler[h].s]
    BY <1>1, <2>2, ReturnEases DEF Swap
  <2> QED
    BY <2>1, <2>2
<1>10. TypeOK'
  BY <1>0, <1>1, <1>2, <1>3 DEF TypeOK, Eases, Becomes, Parts
<1>11. Traces'
  BY <1>0, <1>1, <1>2, <1>3 DEF Parts, Eases, Becomes, Traces
<1>12. Tasks'
  BY <1>0, <1>1, <1>2, <1>3 DEF Parts, Eases, Becomes, Tasks, InRename
<1>13. Creation'
  BY <1>0, <1>1, <1>2, <1>3 DEF Parts, Eases, Becomes, Creation, InCreate, Tasks
<1>14. Locked'
  BY <1>0, <1>1, <1>2, <1>3 DEF Parts, Eases, Becomes, Locked, Renaming
<1>15. Ended'
  BY <1>0, <1>1, <1>2, <1>3 DEF Parts, Ended
<1>16. Labels'
  BY <1>0, <1>1, <1>2, <1>3 DEF Parts, Eases, Becomes, Labels
<1>17. ListedIsStored'
  BY <1>0, <1>1, <1>2, <1>3 DEF Parts, ListedIsStored
<1>18. Room' /\ WithinLimit'
  <2>1. live' \subseteq live /\ \A r \in live' : running'[r] => running[r]
    BY <1>0, <1>1, <1>2 DEF TypeOK
  <2>2. Cardinality({r \in live' : running'[r]}) <= Cardinality({r \in live : running[r]})
        /\ Cardinality({r \in live : running[r]}) \in Nat
        /\ Cardinality({r \in live' : running'[r]}) \in Nat
    BY <1>0, <2>1, Fewer
  <2>3. MaxSessions \in Nat
    BY LifecycleAssumption
  <2>4. WithinLimit'
    BY <1>0, <2>2, <2>3 DEF Parts, WithinLimit
  <2>5. ASSUME NEW g \in Handler, handler'[g].pc \in InCreate
        PROVE  Cardinality({r \in live' : running'[r]}) < MaxSessions
    <3>1. handler[g].pc \in InCreate
      BY <1>0, <2>5, <1>1, <1>3 DEF Eases, Becomes, InCreate
    <3> QED
      BY <1>0, <2>2, <2>3, <3>1 DEF Parts, Room
  <2>6. ASSUME NEW g \in Handler, InShutdown(g)'
        PROVE  lock' = g
    BY <1>0, <2>6, <1>1, <1>3 DEF Parts, Eases, Becomes, Room, InShutdown
  <2> QED
    BY <2>4, <2>5, <2>6 DEF Room
<1> QED
  BY <1>10, <1>11, <1>12, <1>13, <1>14, <1>15, <1>16, <1>17, <1>18 DEF IInv, Parts

LEMMA MarkStep ==
  ASSUME IInv, NEW h \in Handler, Mark(h)
  PROVE  IInv'
<1> USE LifecycleAssumption, NoOne
<1>0. TypeOK /\ Parts
  BY DEF IInv
<1> DEFINE s == handler[h].s
<1>1. /\ handler[h].pc = "mark" /\ meta' = [meta EXCEPT ![s].state = "closing"]
      /\ UNCHANGED <<live, running, metaLock, child, closed, waiter, db, failures, restarts>>
  BY DEF Mark
<1>2. s \in Session /\ meta[s] \in Meta
  BY <1>0, <1>1 DEF Parts, Tasks, Traces
<1>3. PICK t \in Task : Eases(h, t)
  BY <1>1, ReturnEases DEF Mark
<1>4. meta' \in [Session -> Meta \cup {NoRow}]
  BY <1>0, <1>1, <1>2 DEF TypeOK, Meta, State
<1>5. /\ meta'[s] \in Meta /\ meta'[s].label = meta[s].label
      /\ \A r \in Session : r # s => meta'[r] = meta[r]
  BY <1>0, <1>1, <1>2 DEF TypeOK, Meta, State
<1>6. /\ handler[h].pc = "mark"
      /\ UNCHANGED <<live, running, metaLock, child, closed, waiter, db, failures, restarts>>
  BY <1>1
<1> HIDE DEF s
<1>10. TypeOK'
  BY <1>0, <1>2, <1>3, <1>4, <1>5, <1>6 DEF TypeOK, Eases, Becomes
<1>11. Traces'
  BY <1>0, <1>2, <1>3, <1>4, <1>5, <1>6 DEF Parts, Eases, Becomes, Traces
<1>12. Tasks'
  BY <1>0, <1>2, <1>3, <1>4, <1>5, <1>6 DEF Parts, Eases, Becomes, Tasks, InRename
<1>13. Creation'
  BY <1>0, <1>2, <1>3, <1>4, <1>5, <1>6 DEF Parts, Eases, Becomes, Creation, InCreate, Tasks
<1>14. Locked'
  BY <1>0, <1>2, <1>3, <1>4, <1>5, <1>6 DEF Parts, Eases, Becomes, Locked, Renaming
<1>15. Ended'
  BY <1>0, <1>2, <1>3, <1>4, <1>5, <1>6 DEF Parts, Ended
<1>16. Labels'
  BY <1>0, <1>2, <1>3, <1>4, <1>5, <1>6 DEF Parts, Eases, Becomes, Labels, Traces
<1>17. ListedIsStored'
  BY <1>0, <1>2, <1>3, <1>4, <1>5, <1>6 DEF Parts, ListedIsStored
<1>18. Room' /\ WithinLimit'
  BY <1>0, <1>2, <1>3, <1>4, <1>5, <1>6 DEF Parts, Eases, Becomes, Room, WithinLimit, InCreate,
                                            InShutdown
<1> QED
  BY <1>10, <1>11, <1>12, <1>13, <1>14, <1>15, <1>16, <1>17, <1>18 DEF IInv, Parts

LEMMA RenameMetaStep ==
  ASSUME IInv, NEW h \in Handler, RenameMeta(h)
  PROVE  IInv'
<1> USE LifecycleAssumption, NoOne
<1>0. TypeOK /\ Parts
  BY DEF IInv
<1> DEFINE s == handler[h].s
<1>1. /\ handler[h].pc = "renameMeta" /\ meta' = [meta EXCEPT ![s].label = handler[h].label]
      /\ metaLock' = [metaLock EXCEPT ![s] = Nobody] /\ Done(h)
      /\ UNCHANGED <<lock, live, running, child, closed, waiter, db, failures, restarts>>
  BY DEF RenameMeta
<1>2. s \in Session /\ meta[s] \in Meta /\ handler[h].label \in Label /\ metaLock[s] = h
  BY <1>0, <1>1 DEF Parts, Tasks, Traces, InRename, Locked, Renaming
<1>3. Eases(h, NoTask)
  BY <1>0, <1>1, DoneEases
<1>4. /\ meta' \in [Session -> Meta \cup {NoRow}]
      /\ metaLock' \in [Session -> Handler \cup {Nobody}]
  BY <1>0, <1>1, <1>2 DEF TypeOK, Meta, State
<1>5. /\ meta'[s] \in Meta /\ meta'[s].label = handler[h].label /\ metaLock'[s] = Nobody
      /\ \A r \in Session : r # s => meta'[r] = meta[r] /\ metaLock'[r] = metaLock[r]
  BY <1>0, <1>1, <1>2 DEF TypeOK, Meta, State
<1>6. UNCHANGED <<lock, live, running, child, closed, waiter, db, failures, restarts>>
  BY <1>1
<1>7. handler[h].pc = "renameMeta" /\ handler[h].s = s
  BY <1>1
<1> HIDE DEF s
<1>10. TypeOK'
  BY <1>0, <1>2, <1>3, <1>4, <1>5, <1>6, <1>7 DEF TypeOK, Eases, Becomes
<1>11. Traces'
  BY <1>0, <1>2, <1>3, <1>4, <1>5, <1>6, <1>7 DEF Parts, Eases, Becomes, Traces, NoTask
<1>12. Tasks'
  BY <1>0, <1>2, <1>3, <1>4, <1>5, <1>6, <1>7 DEF Parts, Eases, Becomes, Tasks, InRename, NoTask
<1>13. Creation'
  BY <1>0, <1>2, <1>3, <1>4, <1>5, <1>6, <1>7 DEF Parts, Eases, Becomes, Creation, InCreate,
                                                  Tasks, NoTask
<1>14. Locked'
  BY <1>0, <1>2, <1>3, <1>4, <1>5, <1>6, <1>7 DEF Parts, Eases, Becomes, Locked, Renaming, NoTask,
                                                  Tasks, InRename
<1>15. Ended'
  BY <1>0, <1>2, <1>3, <1>4, <1>5, <1>6, <1>7 DEF Parts, Ended
<1>16. Labels'
  BY <1>0, <1>2, <1>3, <1>4, <1>5, <1>6, <1>7 DEF Parts, Eases, Becomes, Labels, NoTask, Locked,
                                                  Renaming, Traces
<1>17. ListedIsStored'
  BY <1>0, <1>2, <1>3, <1>4, <1>5, <1>6, <1>7 DEF Parts, ListedIsStored
<1>18. Room' /\ WithinLimit'
  BY <1>0, <1>2, <1>3, <1>4, <1>5, <1>6, <1>7 DEF Parts, Eases, Becomes, Room, WithinLimit,
                                                  InCreate, InShutdown, NoTask
<1> QED
  BY <1>10, <1>11, <1>12, <1>13, <1>14, <1>15, <1>16, <1>17, <1>18 DEF IInv, Parts

LEMMA RenameCheckStep ==
  ASSUME IInv, NEW h \in Handler, RenameCheck(h)
  PROVE  IInv'
<1> USE LifecycleAssumption, NoOne
<1>0. TypeOK /\ Parts
  BY DEF IInv
<1> DEFINE s == handler[h].s
<1>1. handler[h].pc = "rename" /\ metaLock[s] = Nobody
  BY DEF RenameCheck
<1>2. s \in Session /\ handler[h].label \in Label /\ db[s] # NoRow
  BY <1>0, <1>1 DEF Parts, Tasks, InRename
<1>3. UNCHANGED <<lock, live, running, meta, child, closed, waiter, db, failures, restarts>>
  BY DEF RenameCheck
<1>4. CASE running[s]
  <2> DEFINE t == [handler[h] EXCEPT !.pc = "renameStore"]
  <2>1. /\ t \in Task /\ t.pc = "renameStore" /\ t.s = s /\ t.label = handler[h].label
        /\ t.todo = handler[h].todo /\ t.then = handler[h].then
    BY <1>0, Fields DEF Task, HandlerPc
  <2>2. Becomes(h, t) /\ metaLock' = [metaLock EXCEPT ![s] = h]
    BY <1>0, <1>4, GotoFacts DEF RenameCheck, HandlerPc
  <2>3. /\ metaLock' \in [Session -> Handler \cup {Nobody}] /\ metaLock'[s] = h
        /\ \A r \in Session : r # s => metaLock'[r] = metaLock[r]
    BY <1>0, <1>2, <2>2 DEF TypeOK
  <2>4. \A g \in Handler : handler[g].s = s =>
          handler[g].pc \notin InCreate /\ handler[g].pc \notin Renaming
    BY <1>0, <1>1 DEF Parts, Creation, InCreate, Locked, Renaming
  <2>5. waiter[s].pc # "save"
    BY <1>0, <1>2, <1>4 DEF Parts, Ended
  <2>6. handler[h].s = s
    OBVIOUS
  <2> HIDE DEF s, t
  <2>10. TypeOK'
    BY <1>0, <1>1, <1>2, <1>3, <2>1, <2>2, <2>3, <2>4, <2>5, <2>6 DEF TypeOK, Becomes
  <2>11. Traces'
    BY <1>0, <1>1, <1>2, <1>3, <2>1, <2>2, <2>3, <2>4, <2>5, <2>6 DEF Parts, Becomes, Traces
  <2>12. Tasks'
    BY <1>0, <1>1, <1>2, <1>3, <2>1, <2>2, <2>3, <2>4, <2>5, <2>6 DEF Parts, Becomes, Tasks,
                                                                      InRename
  <2>13. Creation'
    BY <1>0, <1>1, <1>2, <1>3, <2>1, <2>2, <2>3, <2>4, <2>5, <2>6 DEF Parts, Becomes, Creation,
                                                                      InCreate
  <2>14. Locked'
    BY <1>0, <1>1, <1>2, <1>3, <2>1, <2>2, <2>3, <2>4, <2>5, <2>6 DEF Parts, Becomes, Locked,
                                                                      Renaming, Tasks, InRename
  <2>15. Ended'
    BY <1>0, <1>1, <1>2, <1>3, <2>1, <2>2, <2>3, <2>4, <2>5, <2>6 DEF Parts, Ended
  <2>16. Labels'
    BY <1>0, <1>1, <1>2, <1>3, <2>1, <2>2, <2>3, <2>4, <2>5, <2>6 DEF Parts, Becomes, Labels
  <2>17. ListedIsStored'
    BY <1>0, <1>1, <1>2, <1>3, <2>1, <2>2, <2>3, <2>4, <2>5, <2>6 DEF Parts, ListedIsStored
  <2>18. Room' /\ WithinLimit'
    BY <1>0, <1>1, <1>2, <1>3, <2>1, <2>2, <2>3, <2>4, <2>5, <2>6 DEF Parts, Becomes, Room,
                                                                      WithinLimit, InCreate,
                                                                      InShutdown
  <2> QED
    BY <2>10, <2>11, <2>12, <2>13, <2>14, <2>15, <2>16, <2>17, <2>18 DEF IInv, Parts
<1>5. CASE ~running[s]
  <2>1. Eases(h, NoTask) /\ UNCHANGED metaLock
    BY <1>0, <1>3, <1>5, DoneEases DEF RenameCheck
  <2>10. TypeOK'
    BY <1>0, <1>1, <1>3, <2>1 DEF TypeOK, Eases, Becomes
  <2>11. Traces'
    BY <1>0, <1>1, <1>3, <2>1 DEF Parts, Eases, Becomes, Traces, NoTask
  <2>12. Tasks'
    BY <1>0, <1>1, <1>3, <2>1 DEF Parts, Eases, Becomes, Tasks, InRename, NoTask
  <2>13. Creation'
    BY <1>0, <1>1, <1>3, <2>1 DEF Parts, Eases, Becomes, Creation, InCreate, Tasks, NoTask
  <2>14. Locked'
    BY <1>0, <1>1, <1>3, <2>1 DEF Parts, Eases, Becomes, Locked, Renaming, NoTask
  <2>15. Ended'
    BY <1>0, <1>1, <1>3, <2>1 DEF Parts, Ended
  <2>16. Labels'
    BY <1>0, <1>1, <1>3, <2>1 DEF Parts, Eases, Becomes, Labels, NoTask
  <2>17. ListedIsStored'
    BY <1>0, <1>1, <1>3, <2>1 DEF Parts, ListedIsStored
  <2>18. Room' /\ WithinLimit'
    BY <1>0, <1>1, <1>3, <2>1 DEF Parts, Eases, Becomes, Room, WithinLimit, InCreate, InShutdown,
                                  NoTask
  <2> QED
    BY <2>10, <2>11, <2>12, <2>13, <2>14, <2>15, <2>16, <2>17, <2>18 DEF IInv, Parts
<1> QED
  BY <1>4, <1>5

LEMMA RenameStoreStep ==
  ASSUME IInv, NEW h \in Handler, RenameStore(h)
  PROVE  IInv'
<1> USE LifecycleAssumption, NoOne
<1>0. TypeOK /\ Parts
  BY DEF IInv
<1> DEFINE s == handler[h].s
<1>1. handler[h].pc = "renameStore" /\ handler[h].s = s
  BY DEF RenameStore
<1>2. s \in Session /\ handler[h].label \in Label /\ db[s] \in Meta /\ metaLock[s] = h
  BY <1>0, <1>1 DEF TypeOK, Parts, Tasks, InRename, Locked, Renaming
<1>3. UNCHANGED <<lock, live, running, meta, child, closed, waiter, restarts>>
  BY DEF RenameStore
<1>4. CASE /\ Write([db EXCEPT ![s].label = handler[h].label], TRUE)
           /\ Goto(h, "renameMeta") /\ UNCHANGED metaLock
  <2> DEFINE t == [handler[h] EXCEPT !.pc = "renameMeta"]
  <2>1. /\ t \in Task /\ t.pc = "renameMeta" /\ t.s = s /\ t.label = handler[h].label
        /\ t.todo = handler[h].todo /\ t.then = handler[h].then
    BY <1>0, Fields DEF Task, HandlerPc
  <2>2. Becomes(h, t) /\ UNCHANGED metaLock
    BY <1>0, <1>4, GotoFacts DEF HandlerPc
  <2>3. db' = [db EXCEPT ![s].label = handler[h].label] /\ failures' = failures
    BY <1>4 DEF Write
  <2>4. /\ db' \in [Session -> Meta \cup {NoRow}] /\ db'[s] \in Meta
        /\ db'[s].label = handler[h].label
        /\ \A r \in Session : r # s => db'[r] = db[r]
    BY <1>0, <1>2, <2>3 DEF TypeOK, Meta
  <2>5. failures' = failures
    BY <2>3
  <2>6. child[s] # "none"
    BY <1>0, <1>2 DEF Parts, Traces
  <2> HIDE DEF s, t
  <2>10. TypeOK'
    BY <1>0, <1>1, <1>2, <1>3, <2>1, <2>2, <2>4, <2>5, <2>6 DEF TypeOK, Becomes
  <2>11. Traces'
    BY <1>0, <1>1, <1>2, <1>3, <2>1, <2>2, <2>4, <2>5, <2>6 DEF Parts, Becomes, Traces
  <2>12. Tasks'
    BY <1>0, <1>1, <1>2, <1>3, <2>1, <2>2, <2>4, <2>5, <2>6 DEF Parts, Becomes, Tasks, InRename
  <2>13. Creation'
    BY <1>0, <1>1, <1>2, <1>3, <2>1, <2>2, <2>4, <2>5, <2>6 DEF Parts, Becomes, Creation, InCreate
  <2>14. Locked'
    BY <1>0, <1>1, <1>2, <1>3, <2>1, <2>2, <2>4, <2>5, <2>6 DEF Parts, Becomes, Locked, Renaming
  <2>15. Ended'
    BY <1>0, <1>1, <1>2, <1>3, <2>1, <2>2, <2>4, <2>5, <2>6 DEF Parts, Ended
  <2>16. Labels'
    BY <1>0, <1>1, <1>2, <1>3, <2>1, <2>2, <2>4, <2>5, <2>6 DEF Parts, Becomes, Labels, Tasks,
                                                                InRename, Locked, Renaming
  <2>17. ListedIsStored'
    BY <1>0, <1>1, <1>2, <1>3, <2>1, <2>2, <2>4, <2>5, <2>6 DEF Parts, ListedIsStored, TypeOK
  <2>18. Room' /\ WithinLimit'
    BY <1>0, <1>1, <1>2, <1>3, <2>1, <2>2, <2>4, <2>5, <2>6 DEF Parts, Becomes, Room, WithinLimit,
                                                                InCreate, InShutdown
  <2> QED
    BY <2>10, <2>11, <2>12, <2>13, <2>14, <2>15, <2>16, <2>17, <2>18 DEF IInv, Parts
<1>5. CASE /\ Write([db EXCEPT ![s].label = handler[h].label], FALSE)
           /\ Done(h) /\ metaLock' = [metaLock EXCEPT ![s] = Nobody]
  <2>1. Eases(h, NoTask)
    BY <1>0, <1>3, <1>5, DoneEases
  <2>2. /\ metaLock' \in [Session -> Handler \cup {Nobody}] /\ metaLock'[s] = Nobody
        /\ \A r \in Session : r # s => metaLock'[r] = metaLock[r]
    BY <1>0, <1>2, <1>5 DEF TypeOK
  <2>3. UNCHANGED db /\ failures' \in 0..MaxFailures
    BY <1>0, <1>5 DEF Write, TypeOK
  <2> HIDE DEF s
  <2>10. TypeOK'
    BY <1>0, <1>1, <1>2, <1>3, <2>1, <2>2, <2>3 DEF TypeOK, Eases, Becomes
  <2>11. Traces'
    BY <1>0, <1>1, <1>2, <1>3, <2>1, <2>2, <2>3 DEF Parts, Eases, Becomes, Traces, NoTask
  <2>12. Tasks'
    BY <1>0, <1>1, <1>2, <1>3, <2>1, <2>2, <2>3 DEF Parts, Eases, Becomes, Tasks, InRename, NoTask
  <2>13. Creation'
    BY <1>0, <1>1, <1>2, <1>3, <2>1, <2>2, <2>3 DEF Parts, Eases, Becomes, Creation, InCreate,
                                                    Tasks, NoTask
  <2>14. Locked'
    BY <1>0, <1>1, <1>2, <1>3, <2>1, <2>2, <2>3 DEF Parts, Eases, Becomes, Locked, Renaming,
                                                    NoTask, Tasks, InRename
  <2>15. Ended'
    BY <1>0, <1>1, <1>2, <1>3, <2>1, <2>2, <2>3 DEF Parts, Ended
  <2>16. Labels'
    BY <1>0, <1>1, <1>2, <1>3, <2>1, <2>2, <2>3 DEF Parts, Eases, Becomes, Labels, NoTask
  <2>17. ListedIsStored'
    BY <1>0, <1>1, <1>2, <1>3, <2>1, <2>2, <2>3 DEF Parts, ListedIsStored
  <2>18. Room' /\ WithinLimit'
    BY <1>0, <1>1, <1>2, <1>3, <2>1, <2>2, <2>3 DEF Parts, Eases, Becomes, Room, WithinLimit,
                                                    InCreate, InShutdown, NoTask
  <2> QED
    BY <2>10, <2>11, <2>12, <2>13, <2>14, <2>15, <2>16, <2>17, <2>18 DEF IInv, Parts
<1> QED
  BY <1>4, <1>5 DEF RenameStore

LEMMA CreateSaveStep ==
  ASSUME IInv, NEW h \in Handler, CreateSave(h)
  PROVE  IInv'
<1> USE LifecycleAssumption, NoOne
<1>0. TypeOK /\ Parts
  BY DEF IInv
<1> DEFINE s == handler[h].s
<1>1. handler[h].pc = "record" /\ handler[h].s = s
  BY DEF CreateSave
<1>2. /\ s \in Session \ live /\ lock = h /\ metaLock[s] = Nobody
      /\ handler[h].row \in Meta /\ handler[h].row.label = meta[s].label /\ meta[s] \in Meta
      /\ child[s] # "none"
      /\ \A g \in Handler : g # h => handler[g].s # s /\ s \notin handler[g].todo
  BY <1>0, <1>1 DEF Parts, Tasks, Traces, Creation, InCreate
<1>3. UNCHANGED <<running, meta, metaLock, child, closed, waiter, restarts>>
  BY DEF CreateSave
<1>4. CASE /\ Write([db EXCEPT ![s] = handler[h].row], TRUE)
           /\ live' = live \cup {s} /\ lock' = Nobody /\ Done(h)
  <2>1. Eases(h, NoTask)
    BY <1>0, <1>2, <1>4, DoneEases
  <2>2. /\ db' \in [Session -> Meta \cup {NoRow}] /\ db'[s] = handler[h].row
        /\ \A r \in Session : r # s => db'[r] = db[r]
    BY <1>0, <1>2, <1>4 DEF Write, TypeOK
  <2>3. live' = live \cup {s} /\ lock' = Nobody /\ failures' = failures
    BY <1>4 DEF Write
  <2>4. \A g \in Handler : g # h => handler[g].pc \notin InCreate
    BY <1>0, <1>2 DEF Parts, Creation
  <2> HIDE DEF s
  <2>10. TypeOK'
    BY <1>0, <1>1, <1>2, <1>3, <2>1, <2>2, <2>3, <2>4 DEF TypeOK, Eases, Becomes
  <2>11. Traces'
    BY <1>0, <1>1, <1>2, <1>3, <2>1, <2>2, <2>3, <2>4 DEF Parts, Eases, Becomes, Traces, NoTask
  <2>12. Tasks'
    BY <1>0, <1>1, <1>2, <1>3, <2>1, <2>2, <2>3, <2>4 DEF Parts, Eases, Becomes, Tasks, InRename,
                                                          NoTask
  <2>13. Creation'
    BY <1>0, <1>1, <1>2, <1>3, <2>1, <2>2, <2>3, <2>4 DEF Parts, Eases, Becomes, Creation,
                                                          InCreate, Tasks, NoTask
  <2>14. Locked'
    BY <1>0, <1>1, <1>2, <1>3, <2>1, <2>2, <2>3, <2>4 DEF Parts, Eases, Becomes, Locked, Renaming,
                                                          NoTask
  <2>15. Ended'
    BY <1>0, <1>1, <1>2, <1>3, <2>1, <2>2, <2>3, <2>4 DEF Parts, Ended
  <2>16. Labels'
    BY <1>0, <1>1, <1>2, <1>3, <2>1, <2>2, <2>3, <2>4 DEF Parts, Eases, Becomes, Labels, NoTask,
                                                          Tasks, InRename
  <2>17. ListedIsStored'
    BY <1>0, <1>1, <1>2, <1>3, <2>1, <2>2, <2>3, <2>4 DEF Parts, ListedIsStored, TypeOK
  <2>18. Room' /\ WithinLimit'
    <3> DEFINE R == {r \in live : running[r]}
    <3>1. IsFiniteSet(R) /\ Cardinality(R) \in Nat /\ Cardinality(R) < MaxSessions
      BY <1>0, <1>1, RunningFinite DEF Parts, Room, InCreate
    <3>2. {r \in live' : running'[r]} = R \/ {r \in live' : running'[r]} = R \cup {s}
      BY <1>2, <1>3, <2>3
    <3> HIDE DEF R
    <3>3. Cardinality(R \cup {s}) = IF s \in R THEN Cardinality(R) ELSE Cardinality(R) + 1
      BY <3>1, FS_AddElement
    <3>4. WithinLimit'
      <4>1. Cardinality({r \in live' : running'[r]}) \in {Cardinality(R), Cardinality(R) + 1}
        BY <3>2, <3>3
      <4>2. Cardinality({r \in live' : running'[r]}) <= MaxSessions
        BY <3>1, <4>1
      <4> QED
        BY <4>2 DEF WithinLimit
    <3>5. Room'
      BY <1>0, <1>1, <1>2, <2>1, <2>3, <2>4 DEF Parts, Eases, Becomes, NoTask, Room, InCreate,
                                                InShutdown
    <3> QED
      BY <3>4, <3>5
  <2> QED
    BY <2>10, <2>11, <2>12, <2>13, <2>14, <2>15, <2>16, <2>17, <2>18 DEF IInv, Parts
<1>5. CASE Write(db, FALSE) /\ Goto(h, "swap") /\ UNCHANGED <<live, lock>>
  <2> DEFINE t == [handler[h] EXCEPT !.pc = "swap"]
  <2>1. /\ t \in Task /\ t.pc = "swap" /\ t.s = s /\ t.todo = handler[h].todo
        /\ t.then = handler[h].then
    BY <1>0, Fields DEF Task, HandlerPc
  <2>2. Becomes(h, t)
    BY <1>0, <1>5, GotoFacts DEF HandlerPc
  <2>3. UNCHANGED <<live, lock, db>> /\ failures' \in 0..MaxFailures
    BY <1>0, <1>5 DEF Write, TypeOK
  <2> HIDE DEF s, t
  <2>10. TypeOK'
    BY <1>0, <1>1, <1>2, <1>3, <2>1, <2>2, <2>3 DEF TypeOK, Becomes
  <2>11. Traces'
    BY <1>0, <1>1, <1>2, <1>3, <2>1, <2>2, <2>3 DEF Parts, Becomes, Traces
  <2>12. Tasks'
    BY <1>0, <1>1, <1>2, <1>3, <2>1, <2>2, <2>3 DEF Parts, Becomes, Tasks, InRename
  <2>13. Creation'
    BY <1>0, <1>1, <1>2, <1>3, <2>1, <2>2, <2>3 DEF Parts, Becomes, Creation, InCreate
  <2>14. Locked'
    BY <1>0, <1>1, <1>2, <1>3, <2>1, <2>2, <2>3 DEF Parts, Becomes, Locked, Renaming
  <2>15. Ended'
    BY <1>0, <1>1, <1>2, <1>3, <2>1, <2>2, <2>3 DEF Parts, Ended
  <2>16. Labels'
    BY <1>0, <1>1, <1>2, <1>3, <2>1, <2>2, <2>3 DEF Parts, Becomes, Labels
  <2>17. ListedIsStored'
    BY <1>0, <1>1, <1>2, <1>3, <2>1, <2>2, <2>3 DEF Parts, ListedIsStored
  <2>18. Room' /\ WithinLimit'
    BY <1>0, <1>1, <1>2, <1>3, <2>1, <2>2, <2>3 DEF Parts, Becomes, Room, WithinLimit, InCreate,
                                                    InShutdown
  <2> QED
    BY <2>10, <2>11, <2>12, <2>13, <2>14, <2>15, <2>16, <2>17, <2>18 DEF IInv, Parts
<1> QED
  BY <1>4, <1>5 DEF CreateSave

LEMMA ShutdownNextStep ==
  ASSUME IInv, NEW h \in Handler, ShutdownNext(h)
  PROVE  IInv'
<1> USE LifecycleAssumption, NoOne
<1>0. TypeOK /\ Parts
  BY DEF IInv
<1>1. handler[h].pc = "shutdown" /\ lock = h
  BY <1>0 DEF ShutdownNext, Parts, Room, InShutdown
<1>2. UNCHANGED <<live, running, meta, metaLock, child, closed, waiter, db, failures, restarts>>
  BY DEF ShutdownNext
<1>3. ASSUME NEW s \in handler[h].todo, UNCHANGED lock,
             handler' = [handler EXCEPT ![h].pc = "swap", ![h].s = s, ![h].todo = @ \ {s},
                                        ![h].then = "shutdown"]
      PROVE  IInv'
  <2> DEFINE t == [handler[h] EXCEPT !.pc = "swap", !.s = s, !.todo = @ \ {s}, !.then = "shutdown"]
  <2>1. s \in Session /\ meta[s] \in Meta
    BY <1>0, Fields DEF Parts, Traces
  <2>2. t \in Task /\ t.pc = "swap" /\ t.s = s /\ t.todo = handler[h].todo \ {s}
    BY <1>0, <2>1, Fields DEF Task, HandlerPc
  <2>3. handler' = [handler EXCEPT ![h] = t]
    BY <1>3
  <2> HIDE DEF t
  <2>4. Becomes(h, t)
    BY <1>0, <2>2, <2>3, Replace
  <2>5. lock' = lock
    BY <1>3
  <2>10. TypeOK'
    BY <1>0, <1>1, <1>2, <1>3, <2>1, <2>2, <2>4, <2>5 DEF TypeOK, Becomes
  <2>11. Traces'
    BY <1>0, <1>1, <1>2, <1>3, <2>1, <2>2, <2>4, <2>5 DEF Parts, Becomes, Traces
  <2>12. Tasks'
    BY <1>0, <1>1, <1>2, <1>3, <2>1, <2>2, <2>4, <2>5 DEF Parts, Becomes, Tasks, InRename
  <2>13. Creation'
    BY <1>0, <1>1, <1>2, <1>3, <2>1, <2>2, <2>4, <2>5 DEF Parts, Becomes, Creation, InCreate
  <2>14. Locked'
    BY <1>0, <1>1, <1>2, <1>3, <2>1, <2>2, <2>4, <2>5 DEF Parts, Becomes, Locked, Renaming
  <2>15. Ended'
    BY <1>0, <1>1, <1>2, <1>3, <2>1, <2>2, <2>4, <2>5 DEF Parts, Ended
  <2>16. Labels'
    BY <1>0, <1>1, <1>2, <1>3, <2>1, <2>2, <2>4, <2>5 DEF Parts, Becomes, Labels
  <2>17. ListedIsStored'
    BY <1>0, <1>1, <1>2, <1>3, <2>1, <2>2, <2>4, <2>5 DEF Parts, ListedIsStored
  <2>18. Room' /\ WithinLimit'
    BY <1>0, <1>1, <1>2, <1>3, <2>1, <2>2, <2>4, <2>5 DEF Parts, Becomes, Room, WithinLimit,
                                                          InCreate, InShutdown
  <2> QED
    BY <2>10, <2>11, <2>12, <2>13, <2>14, <2>15, <2>16, <2>17, <2>18 DEF IInv, Parts
<1>4. CASE Done(h) /\ lock' = Nobody
  <2>1. Eases(h, NoTask)
    BY <1>0, <1>1, <1>4, DoneEases
  <2>10. TypeOK'
    BY <1>0, <1>1, <1>2, <1>4, <2>1 DEF TypeOK, Eases, Becomes
  <2>11. Traces'
    BY <1>0, <1>1, <1>2, <1>4, <2>1 DEF Parts, Eases, Becomes, Traces, NoTask
  <2>12. Tasks'
    BY <1>0, <1>1, <1>2, <1>4, <2>1 DEF Parts, Eases, Becomes, Tasks, InRename, NoTask
  <2>13. Creation'
    BY <1>0, <1>1, <1>2, <1>4, <2>1 DEF Parts, Eases, Becomes, Creation, InCreate, Tasks, NoTask
  <2>14. Locked'
    BY <1>0, <1>1, <1>2, <1>4, <2>1 DEF Parts, Eases, Becomes, Locked, Renaming, NoTask
  <2>15. Ended'
    BY <1>0, <1>1, <1>2, <1>4, <2>1 DEF Parts, Ended
  <2>16. Labels'
    BY <1>0, <1>1, <1>2, <1>4, <2>1 DEF Parts, Eases, Becomes, Labels, NoTask
  <2>17. ListedIsStored'
    BY <1>0, <1>1, <1>2, <1>4, <2>1 DEF Parts, ListedIsStored
  <2>18. Room' /\ WithinLimit'
    BY <1>0, <1>1, <1>2, <1>4, <2>1 DEF Parts, Eases, Becomes, Room, WithinLimit, InCreate,
                                        InShutdown, NoTask
  <2> QED
    BY <2>10, <2>11, <2>12, <2>13, <2>14, <2>15, <2>16, <2>17, <2>18 DEF IInv, Parts
<1> QED
  BY <1>3, <1>4 DEF ShutdownNext

LEMMA ChildExitStep ==
  ASSUME IInv, NEW s \in Session, ChildExit(s)
  PROVE  IInv'
<1> USE LifecycleAssumption, NoOne
<1>0. TypeOK /\ Parts
  BY DEF IInv
<1>1. /\ child' \in [Session -> {"none", "alive", "dead"}]
      /\ child[s] # "none" /\ child'[s] = "dead" /\ \A r \in Session : r # s => child'[r] = child[r]
      /\ UNCHANGED <<handler, lock, live, running, meta, metaLock, closed, waiter, db,
                     failures, restarts>>
  BY <1>0 DEF TypeOK, ChildExit
<1>10. TypeOK'
  BY <1>0, <1>1 DEF TypeOK
<1>11. Traces'
  BY <1>0, <1>1 DEF Parts, Traces
<1>12. Tasks'
  BY <1>0, <1>1 DEF Parts, Tasks, InRename
<1>13. Creation'
  BY <1>0, <1>1 DEF Parts, Creation, InCreate
<1>14. Locked'
  BY <1>0, <1>1 DEF Parts, Locked, Renaming
<1>15. Ended'
  BY <1>0, <1>1 DEF Parts, Ended
<1>16. Labels'
  BY <1>0, <1>1 DEF Parts, Labels
<1>17. ListedIsStored'
  BY <1>0, <1>1 DEF Parts, ListedIsStored, TypeOK
<1>18. Room' /\ WithinLimit'
  BY <1>0, <1>1 DEF Parts, Room, WithinLimit, InCreate, InShutdown
<1> QED
  BY <1>10, <1>11, <1>12, <1>13, <1>14, <1>15, <1>16, <1>17, <1>18 DEF IInv, Parts

LEMMA WaitReturnsStep ==
  ASSUME IInv, NEW s \in Session, WaitReturns(s)
  PROVE  IInv'
<1> USE LifecycleAssumption, NoOne
<1>0. TypeOK /\ Parts
  BY DEF IInv
<1>1. /\ waiter[s].pc = "waiting"
      /\ UNCHANGED <<handler, lock, live, meta, metaLock, child, closed, db, failures, restarts>>
      /\ running' \in {running, [running EXCEPT ![s] = FALSE]}
  BY DEF WaitReturns
<1>2. /\ waiter' \in [Session -> [pc : {"none", "waiting", "state", "info", "save", "done"},
                               row : Meta \cup {NoRow}]]
      /\ waiter'[s].pc \in {"state", "done"} /\ (waiter'[s].pc = "state" => ~running'[s])
      /\ \A r \in Session : r # s => waiter'[r] = waiter[r] /\ running'[r] = running[r]
      /\ running' \in [Session -> BOOLEAN] /\ (running'[s] => running[s])
  <2>1. CASE Held(s)
    <3>1. running' = [running EXCEPT ![s] = FALSE] /\ waiter' = [waiter EXCEPT ![s].pc = "state"]
      BY <2>1 DEF WaitReturns
    <3>2. /\ running' \in [Session -> BOOLEAN] /\ ~running'[s]
          /\ \A r \in Session : r # s => running'[r] = running[r]
      BY <1>0, <3>1 DEF TypeOK
    <3> QED
      BY <1>0, <3>1, <3>2 DEF TypeOK
  <2>2. CASE ~Held(s)
    BY <1>0, <2>2 DEF TypeOK, WaitReturns
  <2> QED
    BY <2>1, <2>2
<1>10. TypeOK'
  BY <1>0, <1>1, <1>2 DEF TypeOK
<1>11. Traces'
  BY <1>0, <1>1, <1>2 DEF Parts, Traces
<1>12. Tasks'
  BY <1>0, <1>1, <1>2 DEF Parts, Tasks, InRename
<1>13. Creation'
  BY <1>0, <1>1, <1>2 DEF Parts, Creation, InCreate
<1>14. Locked'
  BY <1>0, <1>1, <1>2 DEF Parts, Locked, Renaming
<1>15. Ended'
  BY <1>0, <1>1, <1>2 DEF Parts, Ended
<1>16. Labels'
  BY <1>0, <1>1, <1>2 DEF Parts, Labels
<1>17. ListedIsStored'
  BY <1>0, <1>1, <1>2 DEF Parts, ListedIsStored
<1>18. Room' /\ WithinLimit'
  <2>1. live' \subseteq live /\ \A r \in live' : running'[r] => running[r]
    BY <1>0, <1>1, <1>2 DEF TypeOK
  <2>2. Cardinality({r \in live' : running'[r]}) <= Cardinality({r \in live : running[r]})
        /\ Cardinality({r \in live : running[r]}) \in Nat
        /\ Cardinality({r \in live' : running'[r]}) \in Nat
    BY <1>0, <2>1, Fewer
  <2>3. MaxSessions \in Nat
    BY LifecycleAssumption
  <2>4. WithinLimit'
    BY <1>0, <2>2, <2>3 DEF Parts, WithinLimit
  <2>5. ASSUME NEW g \in Handler, handler'[g].pc \in InCreate
        PROVE  Cardinality({r \in live' : running'[r]}) < MaxSessions
    <3>1. handler[g].pc \in InCreate
      BY <1>0, <2>5, <1>1 DEF  InCreate
    <3> QED
      BY <1>0, <2>2, <2>3, <3>1 DEF Parts, Room
  <2>6. ASSUME NEW g \in Handler, InShutdown(g)'
        PROVE  lock' = g
    BY <1>0, <2>6, <1>1 DEF Parts,  Room, InShutdown
  <2> QED
    BY <2>4, <2>5, <2>6 DEF Room
<1> QED
  BY <1>10, <1>11, <1>12, <1>13, <1>14, <1>15, <1>16, <1>17, <1>18 DEF IInv, Parts

LEMMA WaitStateStep ==
  ASSUME IInv, NEW s \in Session, WaitState(s)
  PROVE  IInv'
<1> USE LifecycleAssumption, NoOne
<1>0. TypeOK /\ Parts
  BY DEF IInv
<1>1. /\ waiter[s].pc = "state" /\ meta' = [meta EXCEPT ![s].state = "exited"]
      /\ UNCHANGED <<handler, lock, live, running, metaLock, child, closed, db, failures,
                     restarts>>
  BY DEF WaitState
<1>2. /\ waiter' \in [Session -> [pc : {"none", "waiting", "state", "info", "save", "done"},
                               row : Meta \cup {NoRow}]]
      /\ waiter'[s].pc = "info" /\ \A r \in Session : r # s => waiter'[r] = waiter[r]
  BY <1>0 DEF TypeOK, WaitState
<1>3. meta[s] \in Meta
  BY <1>0, <1>1 DEF Parts, Traces
<1>4. /\ meta' \in [Session -> Meta \cup {NoRow}] /\ meta'[s] \in Meta
      /\ meta'[s].label = meta[s].label /\ \A r \in Session : r # s => meta'[r] = meta[r]
  BY <1>0, <1>1, <1>3 DEF TypeOK, Meta, State
<1>5. /\ waiter[s].pc = "state"
      /\ UNCHANGED <<handler, lock, live, running, metaLock, child, closed, db, failures,
                   restarts>>
  BY <1>1
<1>10. TypeOK'
  BY <1>0, <1>2, <1>3, <1>4, <1>5 DEF TypeOK
<1>11. Traces'
  BY <1>0, <1>2, <1>3, <1>4, <1>5 DEF Parts, Traces
<1>12. Tasks'
  BY <1>0, <1>2, <1>3, <1>4, <1>5 DEF Parts, Tasks, InRename
<1>13. Creation'
  BY <1>0, <1>2, <1>3, <1>4, <1>5 DEF Parts, Creation, InCreate, Tasks
<1>14. Locked'
  BY <1>0, <1>2, <1>3, <1>4, <1>5 DEF Parts, Locked, Renaming
<1>15. Ended'
  BY <1>0, <1>2, <1>3, <1>4, <1>5 DEF Parts, Ended
<1>16. Labels'
  BY <1>0, <1>2, <1>3, <1>4, <1>5 DEF Parts, Labels
<1>17. ListedIsStored'
  BY <1>0, <1>2, <1>3, <1>4, <1>5 DEF Parts, ListedIsStored
<1>18. Room' /\ WithinLimit'
  BY <1>0, <1>2, <1>3, <1>4, <1>5 DEF Parts, Room, WithinLimit, InCreate, InShutdown
<1> QED
  BY <1>10, <1>11, <1>12, <1>13, <1>14, <1>15, <1>16, <1>17, <1>18 DEF IInv, Parts

LEMMA WaitInfoStep ==
  ASSUME IInv, NEW s \in Session, WaitInfo(s)
  PROVE  IInv'
<1> USE LifecycleAssumption, NoOne
<1>0. TypeOK /\ Parts
  BY DEF IInv
<1>1. /\ waiter[s].pc = "info" /\ metaLock[s] = Nobody
      /\ UNCHANGED <<handler, lock, live, running, meta, metaLock, child, closed, db, failures,
                     restarts>>
  BY DEF WaitInfo
<1>2. meta[s] \in Meta
  BY <1>0, <1>1 DEF Parts, Traces
<1>3. /\ waiter' \in [Session -> [pc : {"none", "waiting", "state", "info", "save", "done"},
                               row : Meta \cup {NoRow}]]
      /\ waiter'[s].pc = "save" /\ waiter'[s].row = meta[s]
      /\ \A r \in Session : r # s => waiter'[r] = waiter[r]
  BY <1>0, <1>2 DEF TypeOK, WaitInfo
<1>10. TypeOK'
  BY <1>0, <1>1, <1>2, <1>3 DEF TypeOK
<1>11. Traces'
  BY <1>0, <1>1, <1>2, <1>3 DEF Parts, Traces
<1>12. Tasks'
  BY <1>0, <1>1, <1>2, <1>3 DEF Parts, Tasks, InRename
<1>13. Creation'
  BY <1>0, <1>1, <1>2, <1>3 DEF Parts, Creation, InCreate
<1>14. Locked'
  BY <1>0, <1>1, <1>2, <1>3 DEF Parts, Locked, Renaming
<1>15. Ended'
  BY <1>0, <1>1, <1>2, <1>3 DEF Parts, Ended
<1>16. Labels'
  BY <1>0, <1>1, <1>2, <1>3 DEF Parts, Labels
<1>17. ListedIsStored'
  BY <1>0, <1>1, <1>2, <1>3 DEF Parts, ListedIsStored
<1>18. Room' /\ WithinLimit'
  BY <1>0, <1>1, <1>2, <1>3 DEF Parts, Room, WithinLimit, InCreate, InShutdown
<1> QED
  BY <1>10, <1>11, <1>12, <1>13, <1>14, <1>15, <1>16, <1>17, <1>18 DEF IInv, Parts

LEMMA WaitSaveStep ==
  ASSUME IInv, NEW s \in Session, WaitSave(s)
  PROVE  IInv'
<1> USE LifecycleAssumption, NoOne
<1>0. TypeOK /\ Parts
  BY DEF IInv
<1>1. /\ waiter[s].pc = "save"
      /\ UNCHANGED <<handler, lock, live, running, meta, metaLock, child, closed, restarts>>
  BY DEF WaitSave
<1>2. /\ meta[s] \in Meta /\ waiter[s].row \in Meta /\ waiter[s].row.label = meta[s].label
      /\ metaLock[s] = Nobody /\ child[s] # "none"
  BY <1>0, <1>1 DEF Parts, Traces, Ended
<1>3. /\ waiter' \in [Session -> [pc : {"none", "waiting", "state", "info", "save", "done"},
                               row : Meta \cup {NoRow}]]
      /\ waiter'[s].pc = "done"
      /\ \A r \in Session : r # s => waiter'[r] = waiter[r]
  BY <1>0 DEF TypeOK, WaitSave
<1>4. failures' \in 0..MaxFailures /\ db' \in {db, [db EXCEPT ![s] = waiter[s].row]}
  BY <1>0 DEF TypeOK, WaitSave, Write
<1>5. /\ db' \in [Session -> Meta \cup {NoRow}] /\ db'[s] \in {db[s], waiter[s].row}
      /\ \A r \in Session : r # s => db'[r] = db[r]
  BY <1>0, <1>2, <1>4 DEF TypeOK
<1>6. \A h \in Handler : handler[h].s = s => handler[h].pc \notin Renaming
  BY <1>0, <1>2 DEF Parts, Locked
<1>7. failures' \in 0..MaxFailures
  BY <1>4
<1>10. TypeOK'
  BY <1>0, <1>1, <1>2, <1>3, <1>5, <1>6, <1>7 DEF TypeOK
<1>11. Traces'
  BY <1>0, <1>1, <1>2, <1>3, <1>5, <1>6, <1>7 DEF Parts, Traces
<1>12. Tasks'
  BY <1>0, <1>1, <1>2, <1>3, <1>5, <1>6, <1>7 DEF Parts, Tasks, InRename
<1>13. Creation'
  BY <1>0, <1>1, <1>2, <1>3, <1>5, <1>6, <1>7 DEF Parts, Creation, InCreate
<1>14. Locked'
  BY <1>0, <1>1, <1>2, <1>3, <1>5, <1>6, <1>7 DEF Parts, Locked, Renaming
<1>15. Ended'
  BY <1>0, <1>1, <1>2, <1>3, <1>5, <1>6, <1>7 DEF Parts, Ended
<1>16. Labels'
  BY <1>0, <1>1, <1>2, <1>3, <1>5, <1>6, <1>7 DEF Parts, Labels, Tasks, InRename, Renaming
<1>17. ListedIsStored'
  BY <1>0, <1>1, <1>2, <1>3, <1>5, <1>6, <1>7 DEF Parts, ListedIsStored, TypeOK
<1>18. Room' /\ WithinLimit'
  BY <1>0, <1>1, <1>2, <1>3, <1>5, <1>6, <1>7 DEF Parts, Room, WithinLimit, InCreate, InShutdown
<1> QED
  BY <1>10, <1>11, <1>12, <1>13, <1>14, <1>15, <1>16, <1>17, <1>18 DEF IInv, Parts

LEMMA CreateFailsStep ==
  ASSUME IInv, NEW h \in Handler, CreateFails(h)
  PROVE  IInv'
<1> USE LifecycleAssumption, NoOne
<1>0. TypeOK /\ Parts
  BY DEF IInv
<1>1. /\ live' = {t \in live : running[t]}
      /\ UNCHANGED <<handler, lock, running, meta, metaLock, child, closed, waiter, db,
                     failures, restarts>>
  BY DEF CreateFails
<1>10. TypeOK'
  BY <1>0, <1>1 DEF TypeOK
<1>11. Traces'
  BY <1>0, <1>1 DEF Parts, Traces
<1>12. Tasks'
  BY <1>0, <1>1 DEF Parts, Tasks, InRename
<1>13. Creation'
  BY <1>0, <1>1 DEF Parts, Creation, InCreate
<1>14. Locked'
  BY <1>0, <1>1 DEF Parts, Locked, Renaming
<1>15. Ended'
  BY <1>0, <1>1 DEF Parts, Ended
<1>16. Labels'
  BY <1>0, <1>1 DEF Parts, Labels
<1>17. ListedIsStored'
  BY <1>0, <1>1 DEF Parts, ListedIsStored
<1>18. Room' /\ WithinLimit'
  <2>1. live' \subseteq live /\ \A r \in live' : running'[r] => running[r]
    BY <1>0, <1>1 DEF TypeOK
  <2>2. Cardinality({r \in live' : running'[r]}) <= Cardinality({r \in live : running[r]})
        /\ Cardinality({r \in live : running[r]}) \in Nat
        /\ Cardinality({r \in live' : running'[r]}) \in Nat
    BY <1>0, <2>1, Fewer
  <2>3. MaxSessions \in Nat
    BY LifecycleAssumption
  <2>4. WithinLimit'
    BY <1>0, <2>2, <2>3 DEF Parts, WithinLimit
  <2>5. ASSUME NEW g \in Handler, handler'[g].pc \in InCreate
        PROVE  Cardinality({r \in live' : running'[r]}) < MaxSessions
    <3>1. handler[g].pc \in InCreate
      BY <1>0, <2>5, <1>1 DEF  InCreate
    <3> QED
      BY <1>0, <2>2, <2>3, <3>1 DEF Parts, Room
  <2>6. ASSUME NEW g \in Handler, InShutdown(g)'
        PROVE  lock' = g
    BY <1>0, <2>6, <1>1 DEF Parts,  Room, InShutdown
  <2> QED
    BY <2>4, <2>5, <2>6 DEF Room
<1> QED
  BY <1>10, <1>11, <1>12, <1>13, <1>14, <1>15, <1>16, <1>17, <1>18 DEF IInv, Parts

LEMMA RestartStep ==
  ASSUME IInv, Restart
  PROVE  IInv'
<1> USE LifecycleAssumption, NoOne
<1>0. TypeOK /\ Parts
  BY DEF IInv
<1>1. /\ lock' = Nobody /\ live' = {} /\ running' = [s \in Session |-> FALSE]
      /\ meta' = [s \in Session |-> NoRow] /\ metaLock' = [s \in Session |-> Nobody]
      /\ handler' = [h \in Handler |-> NoTask] /\ restarts' \in 0..MaxRestarts
      /\ UNCHANGED <<closed, failures>>
  BY <1>0 DEF TypeOK, Restart
<1>2. /\ child' \in [Session -> {"none", "alive", "dead"}]
      /\ \A s \in Session : child'[s] = "none" <=> child[s] = "none"
  BY <1>0 DEF TypeOK, Restart
<1>3. /\ waiter' \in [Session -> [pc : {"none", "waiting", "state", "info", "save", "done"},
                               row : Meta \cup {NoRow}]]
      /\ \A s \in Session : waiter'[s].pc = IF child[s] = "none" THEN "none" ELSE "done"
  BY <1>0 DEF TypeOK, Restart
<1>4. /\ db' \in [Session -> Meta \cup {NoRow}]
      /\ \A s \in Session : db[s] = NoRow => db'[s] = NoRow
  <2> DEFINE Row(s) == IF db[s] # NoRow /\ db[s].state \in {"running", "closing"}
                       THEN [db[s] EXCEPT !.state = "lost"] ELSE db[s]
  <2>1. db' = [s \in Session |-> Row(s)]
    BY DEF Restart
  <2>2. ASSUME NEW s \in Session
        PROVE  Row(s) \in Meta \cup {NoRow} /\ (db[s] = NoRow => Row(s) = NoRow)
    <3>1. db[s] = NoRow \/ db[s] \in Meta
      BY <1>0 DEF TypeOK
    <3> QED
      BY <3>1 DEF Meta, State
  <2> HIDE DEF Row
  <2> QED
    BY <2>1, <2>2
<1>5. \A h \in Handler :
        /\ handler'[h] = NoTask /\ NoTask.pc = "idle"
        /\ NoTask.s = Nobody /\ NoTask.todo = {}
  BY <1>1 DEF NoTask
<1>6. handler' \in [Handler -> Task]
  BY <1>1, NoTaskIsTask
<1>10. TypeOK'
  BY <1>0, <1>1, <1>2, <1>3, <1>4, <1>5, <1>6 DEF TypeOK
<1>11. Traces'
  BY <1>0, <1>1, <1>2, <1>3, <1>4, <1>5, <1>6 DEF Parts, Traces
<1>12. Tasks'
  BY <1>0, <1>1, <1>2, <1>3, <1>4, <1>5, <1>6 DEF Parts, Tasks, InRename
<1>13. Creation'
  BY <1>0, <1>1, <1>2, <1>3, <1>4, <1>5, <1>6 DEF Parts, Creation, InCreate
<1>14. Locked'
  BY <1>0, <1>1, <1>2, <1>3, <1>4, <1>5, <1>6 DEF Parts, Locked, Renaming
<1>15. Ended'
  BY <1>0, <1>1, <1>2, <1>3, <1>4, <1>5, <1>6 DEF Parts, Ended
<1>16. Labels'
  BY <1>0, <1>1, <1>2, <1>3, <1>4, <1>5, <1>6 DEF Parts, Labels
<1>17. ListedIsStored'
  BY <1>0, <1>1, <1>2, <1>3, <1>4, <1>5, <1>6 DEF Parts, ListedIsStored
<1>18. Room' /\ WithinLimit'
  <2>1. {r \in live' : running'[r]} = {}
    BY <1>1
  <2>2. Cardinality({r \in live' : running'[r]}) = 0
    BY <2>1, FS_EmptySet
  <2> QED
    BY <1>1, <1>5, <2>2 DEF Room, WithinLimit, InCreate, InShutdown
<1> QED
  BY <1>10, <1>11, <1>12, <1>13, <1>14, <1>15, <1>16, <1>17, <1>18 DEF IInv, Parts

LEMMA CreateStep ==
  ASSUME IInv, NEW h \in Handler, NEW s \in Session, Create(h, s)
  PROVE  IInv'
<1> USE LifecycleAssumption, NoOne
<1>0. TypeOK /\ Parts
  BY DEF IInv
<1>1. /\ handler[h].pc = "idle" /\ lock = Nobody /\ HasSlot /\ child[s] = "none"
      /\ lock' = h /\ live' = {t \in live : running[t]}
      /\ UNCHANGED <<metaLock, closed, db, failures, restarts>>
  BY DEF Create
<1> DEFINE t == [handler[h] EXCEPT !.pc = "describe", !.s = s]
<1>2. /\ t \in Task /\ t.pc = "describe" /\ t.s = s /\ t.todo = handler[h].todo
  BY <1>0, Fields DEF Task, HandlerPc
<1>3. handler' = [handler EXCEPT ![h] = t]
  BY DEF Create
<1> HIDE DEF t
<1>4. Becomes(h, t)
  BY <1>0, <1>2, <1>3, Replace
<1>5. handler[h].todo = {}
  BY <1>0, <1>1 DEF Parts, Tasks, NoTask
<1>6. /\ child' \in [Session -> {"none", "alive", "dead"}] /\ child'[s] = "alive"
      /\ running' \in [Session -> BOOLEAN] /\ running'[s] = TRUE
      /\ \A r \in Session : r # s => child'[r] = child[r] /\ running'[r] = running[r]
  BY <1>0 DEF TypeOK, Create
<1>a. /\ meta' \in [Session -> Meta \cup {NoRow}] /\ meta'[s] \in Meta
      /\ \A r \in Session : r # s => meta'[r] = meta[r]
  <2>1. [state |-> "running", label |-> FirstLabel] \in Meta
    BY DEF Meta, State
  <2>2. meta' = [meta EXCEPT ![s] = [state |-> "running", label |-> FirstLabel]]
    BY DEF Create
  <2> QED
    BY <1>0, <2>1, <2>2 DEF TypeOK
<1>b. /\ waiter' \in [Session -> [pc : {"none", "waiting", "state", "info", "save", "done"},
                               row : Meta \cup {NoRow}]]
      /\ waiter'[s].pc = "waiting" /\ \A r \in Session : r # s => waiter'[r] = waiter[r]
  BY <1>0 DEF TypeOK, Create
<1>7. /\ s \notin live /\ db[s] = NoRow /\ meta[s] = NoRow
      /\ \A g \in Handler : handler[g].s # s /\ s \notin handler[g].todo
  BY <1>0, <1>1 DEF Parts, Traces
<1>8. metaLock[s] = Nobody
  BY <1>0, <1>1 DEF Parts, Traces
<1>10. TypeOK'
  BY <1>0, <1>1, <1>2, <1>4, <1>5, <1>6, <1>7, <1>8, <1>a, <1>b DEF TypeOK, Becomes
<1>11. Traces'
  <2>1. ASSUME NEW g \in Handler
        PROVE  handler'[g].todo = handler[g].todo /\ handler'[g].s \in {handler[g].s, s}
    BY <1>2, <1>4 DEF Becomes
  <2>2. child'[s] # "none" /\ meta'[s] \in Meta
    BY <1>6, <1>a
  <2>3. ASSUME NEW r \in Session, r # s
        PROVE  /\ child'[r] = child[r] /\ meta'[r] = meta[r] /\ waiter'[r] = waiter[r]
               /\ db'[r] = db[r] /\ metaLock'[r] = metaLock[r] /\ (r \in live' => r \in live)
    BY <1>1, <1>6, <1>a, <1>b, <2>3
  <2> QED
    BY <1>0, <2>1, <2>2, <2>3 DEF Parts, Traces
<1>12. Tasks'
  BY <1>0, <1>1, <1>2, <1>4, <1>5, <1>6, <1>7, <1>8, <1>a, <1>b DEF Parts, Becomes, Tasks,
                                                                    InRename, ListedIsStored
<1>13. Creation'
  BY <1>0, <1>1, <1>2, <1>4, <1>5, <1>6, <1>7, <1>8, <1>a, <1>b DEF Parts, Becomes, Creation,
                                                                    InCreate
<1>14. Locked'
  BY <1>0, <1>1, <1>2, <1>4, <1>5, <1>6, <1>7, <1>8, <1>a, <1>b DEF Parts, Becomes, Locked,
                                                                    Renaming
<1>15. Ended'
  BY <1>0, <1>1, <1>2, <1>4, <1>5, <1>6, <1>7, <1>8, <1>a, <1>b DEF Parts, Ended
<1>16. Labels'
  <2>1. ASSUME NEW r \in Session, db'[r] # NoRow, meta'[r] # NoRow
        PROVE  db'[r].label = meta'[r].label
               \/ \E g \in Handler : handler'[g].s = r /\ handler'[g].pc = "renameMeta"
    <3>1. r # s /\ db'[r] = db[r] /\ meta'[r] = meta[r]
      BY <1>1, <1>7, <1>a, <2>1
    <3>2. CASE db[r].label = meta[r].label
      BY <3>1, <3>2
    <3>3. CASE db[r].label # meta[r].label
      <4>1. PICK g \in Handler : handler[g].s = r /\ handler[g].pc = "renameMeta"
        BY <1>0, <2>1, <3>1, <3>3 DEF Parts, Labels
      <4>2. handler'[g] = handler[g]
        BY <1>1, <1>4, <4>1 DEF Becomes
      <4> QED
        BY <4>1, <4>2
    <3> QED
      BY <3>2, <3>3
  <2>2. ASSUME NEW g \in Handler, handler'[g].pc = "renameMeta"
        PROVE  db'[handler'[g].s].label = handler'[g].label
    <3>1. g # h /\ handler'[g] = handler[g]
      BY <1>2, <1>4, <2>2 DEF Becomes
    <3> QED
      BY <1>0, <1>1, <2>2, <3>1 DEF Parts, Labels
  <2> QED
    BY <2>1, <2>2 DEF Labels
<1>17. ListedIsStored'
  BY <1>0, <1>1, <1>2, <1>4, <1>5, <1>6, <1>7, <1>8, <1>a, <1>b DEF Parts, ListedIsStored, TypeOK
<1>18. Room' /\ WithinLimit'
  <2>1. {r \in live' : running'[r]} = {r \in live : running[r]}
    BY <1>0, <1>1, <1>6, <1>7 DEF TypeOK
  <2>2. Cardinality({r \in live' : running'[r]}) \in Nat
        /\ Cardinality({r \in live' : running'[r]}) < MaxSessions
    BY <1>0, <1>1, <2>1, RunningFinite DEF HasSlot
  <2>3. WithinLimit'
    BY <2>2 DEF WithinLimit
  <2>4. \A g \in Handler : InShutdown(g)' => lock' = g
    BY <1>0, <1>1, <1>2, <1>4 DEF Parts, Room, Becomes, InShutdown
  <2> QED
    BY <2>2, <2>3, <2>4 DEF Room
<1> QED
  BY <1>10, <1>11, <1>12, <1>13, <1>14, <1>15, <1>16, <1>17, <1>18 DEF IInv, Parts

LEMMA SessionsNext == IInv /\ [Next]_vars => IInv'
<1> SUFFICES ASSUME IInv, [Next]_vars PROVE IInv'
  OBVIOUS
<1>1. CASE UNCHANGED vars
  <2>1. UNCHANGED <<lock, live, running, meta, metaLock, child, closed, waiter, handler, db,
                    failures, restarts>>
    BY <1>1 DEF vars
  <2>2. TypeOK' /\ Traces' /\ Tasks' /\ Creation'
    BY <2>1 DEF IInv, Parts, TypeOK, Traces, Tasks, Creation
  <2>3. Room' /\ Locked' /\ Ended' /\ Labels'
    BY <2>1 DEF IInv, Parts, Room, InShutdown, Locked, Ended, Labels
  <2>4. ListedIsStored' /\ WithinLimit'
    BY <2>1 DEF IInv, Parts, ListedIsStored, WithinLimit
  <2> QED
    BY <2>2, <2>3, <2>4 DEF IInv, Parts
<1>2. ASSUME NEW h \in Handler, CreateFails(h) \/ ShutdownBegin(h) \/ Continue(h) PROVE IInv'
  BY <1>2, CreateFailsStep, ShutdownBeginStep, CreateInfoStep, CreateSaveStep, ShutdownNextStep,
     SwapStep, MarkStep,
     RenameCheckStep, RenameStoreStep, RenameMetaStep DEF Continue
<1>3. ASSUME NEW h \in Handler, NEW s \in Session, Create(h, s) \/ CloseBegin(h, s) PROVE IInv'
  BY <1>3, CreateStep, CloseBeginStep
<1>4. ASSUME NEW h \in Handler, NEW s \in Session, NEW label \in Label, RenameBegin(h, s, label)
      PROVE  IInv'
  BY <1>4, RenameBeginStep
<1>5. ASSUME NEW s \in Session, ChildExit(s) \/ WaitThread(s) PROVE IInv'
  BY <1>5, ChildExitStep, WaitReturnsStep, WaitStateStep, WaitInfoStep, WaitSaveStep
     DEF WaitThread
<1>6. CASE Restart
  BY <1>6, RestartStep
<1> QED
  BY <1>1, <1>2, <1>3, <1>4, <1>5, <1>6 DEF Next

\* The inductive invariant holds in every reachable state.
THEOREM Invariance == Spec => []IInv
<1> QED
  BY SessionsInit, SessionsNext, PTL DEF Spec

\* The map, the rows, the wait threads and the handlers keep their types (session.rs:
\* create, close, rename_label, shutdown; store.rs: the sessions table).
THEOREM TypeCorrect == Spec => []TypeOK
<1>1. IInv => TypeOK
  BY DEF IInv
<1> QED
  BY <1>1, Invariance, PTL

\* The limit on running sessions that create checks still holds when it inserts the session,
\* because the map stays locked from the one to the other (session.rs: create).
THEOREM LimitHolds == Spec => []WithinLimit
<1>1. IInv => WithinLimit
  BY DEF IInv, Parts
<1> QED
  BY <1>1, Invariance, PTL

\* A listed session has been started and has its row, whichever saves fail and whenever the
\* agent restarts (session.rs: create).
THEOREM ListedHasRow == Spec => []ListedIsStored
<1>1. IInv => ListedIsStored
  BY DEF IInv, Parts
<1> QED
  BY <1>1, Invariance, PTL

\* Unless a rename is between its two writes, a session and its row have the same label: no
\* save of the creation or of the wait thread brings an older one back (session.rs:
\* rename_label, create and its wait thread).
THEOREM LabelsAgree == Spec => []RenameKept
<1>1. IInv => RenameKept
  <2> SUFFICES ASSUME IInv, NEW s \in Session, Held(s), db[s] # NoRow,
                      \A h \in Handler : handler[h].s = s => handler[h].pc # "renameMeta"
               PROVE  db[s].label = meta[s].label
    BY DEF RenameKept
  <2>1. meta[s] \in Meta
    BY DEF IInv, Parts, Traces, Held
  <2>2. meta[s] # NoRow
    BY <2>1, NoOne
  <2> QED
    BY <2>2 DEF IInv, Parts, Labels
<1> QED
  BY <1>1, Invariance, PTL

-----------------------------------------------------------------------------
(* The settings commands. *)

Place == {"idle", "opened", "journal", "command", "verify", "journal2", "receipt", "unreceipt", "read",
          "write", "done"}
Job == [op : Operation, flag : BOOLEAN, cand : Dns \cup {None}, media : Media \cup {None},
        doc : Config \cup {None}]

\* TypeOK, with the places and the local variables of the processes: the mutex is held by
\* exactly the process that is not idle.
Typed == SettingsTypeOK /\ pc \in [Proc -> Place] /\ job \in [Proc -> Job]

\* What a command that stops here leaves behind, at every step: the properties without
\* the proviso that nobody holds the mutex.
Base ==
  /\ made => rule \in Dns
  /\ OwnedIsRecorded
  /\ config.media = saved
  /\ pending = None /\ receipt # None => config.origin = receipt

\* What the files are when the receipt and the configuration agree about the rule.
Agree == (made => receipt = rule) /\ (receipt # None => config.origin = receipt)

\* What a process relies on where it is.
Where(p) ==
  LET op == job[p].op
      cand == job[p].cand
      changes == op \in {"enable", "disable", "uninstall"}
  IN  /\ op = "media" => job[p].media \in Media
      /\ At(p, "journal") => /\ changes /\ cand = None /\ pending = None
                             /\ op # "enable" => receipt \in Dns
      /\ At(p, "command") => changes /\ cand = None /\ pending # None /\ Agree
      /\ At(p, "verify") => changes /\ cand = None /\ pending # None
      /\ At(p, "journal2") => op # "media" /\ cand \in Dns /\ pending # None /\ (made => rule = cand)
      /\ At(p, "receipt") => op # "media" /\ cand \in Dns /\ pending # None /\ (made => rule = cand)
      /\ At(p, "unreceipt") => op # "media" /\ cand = None /\ ~made
      /\ pc[p] \in {"read", "write"} /\ op # "media" => receipt = cand /\ (made => receipt = rule)
      /\ At(p, "write") => job[p].doc = config
      /\ At(p, "done") => Agree

SettingsInv == Typed /\ Base /\ \A p \in Proc : Where(p)

-----------------------------------------------------------------------------
(* Lemmas. *)

\* The names, one by one.
LEMMA Names ==
  /\ MaxFaults \in Nat /\ None \notin Proc /\ None \notin Entry
  /\ Absent \notin Dns /\ Other \notin Dns /\ None \notin Dns /\ Absent # Other
BY ServeNames, NoEntry

\* A process that does not take the step is idle, and relies on nothing that changes.
LEMMA Elsewhere ==
  ASSUME SettingsInv, NEW p \in Proc, NEW q \in Proc, p # q, mutex = p,
         pc'[q] = pc[q], job'[q] = job[q]
  PROVE  Where(q)'
<1>1. pc[q] = "idle" /\ pc'[q] = "idle"
  BY DEF SettingsInv, Typed, SettingsTypeOK
<1> QED
  BY <1>1 DEF SettingsInv, Where, At

\* A process that moves while it holds the mutex.
LEMMA Moved ==
  ASSUME SettingsInv, NEW p \in Proc, NEW place \in Place \ {"idle"}, ~At(p, "idle"), Go(p, place),
         dns' \in Dns, rule' \in Rule, made' \in BOOLEAN, saved' \in Media,
         receipt' \in Dns \cup {None}, pending' \in Entry \cup {None}, config' \in Config,
         NEW j \in Job, job' = [job EXCEPT ![p] = j],
         Base', Where(p)'
  PROVE  SettingsInv'
<1>1. mutex = p /\ mutex' = mutex /\ abandoned' = abandoned /\ faults' = faults
      /\ pc' = [pc EXCEPT ![p] = place]
  BY DEF SettingsInv, Typed, SettingsTypeOK, Go, At
<1>2. pc' \in [Proc -> Place] /\ job' \in [Proc -> Job] /\ \A q \in Proc : pc'[q] = "idle" <=> mutex' # q
  BY <1>1 DEF SettingsInv, Typed, SettingsTypeOK
<1>3. Typed'
  BY <1>1, <1>2 DEF SettingsInv, Typed, SettingsTypeOK
<1>4. ASSUME NEW q \in Proc, q # p
      PROVE  Where(q)'
  <2>1. pc'[q] = pc[q] /\ job'[q] = job[q]
    BY <1>1, <1>4 DEF SettingsInv, Typed
  <2> QED
    BY <1>1, <1>4, <2>1, Elsewhere
<1> QED
  BY <1>3, <1>4 DEF SettingsInv

\* A process that returns, fails or dies.
LEMMA Left ==
  ASSUME SettingsInv, NEW p \in Proc, NEW b \in BOOLEAN, ~At(p, "idle"), Leave(p, b),
         faults' \in 0 .. MaxFaults,
         dns' \in Dns, rule' \in Rule, made' \in BOOLEAN, saved' \in Media,
         receipt' \in Dns \cup {None}, pending' \in Entry \cup {None}, config' \in Config,
         Base'
  PROVE  SettingsInv'
<1>1. mutex = p /\ mutex' = None /\ abandoned' = b
      /\ pc' = [pc EXCEPT ![p] = "idle"] /\ job' = [job EXCEPT ![p] = Idle]
  BY DEF SettingsInv, Typed, SettingsTypeOK, Leave, At
<1>2. Idle \in Job
  BY DEF Idle, Job, Operation
<1>3. pc' \in [Proc -> Place] /\ job' \in [Proc -> Job] /\ \A q \in Proc : pc'[q] = "idle"
  BY <1>1, <1>2 DEF SettingsInv, Typed, SettingsTypeOK, Place
<1>4. \A q \in Proc : pc'[q] = "idle" <=> mutex' # q
  BY <1>1, <1>3, Names
<1>5. Typed'
  BY <1>1, <1>3, <1>4 DEF SettingsInv, Typed, SettingsTypeOK
<1>6. Where(p)'
  <2>1. pc'[p] = "idle" /\ job'[p] = Idle
    BY <1>1 DEF SettingsInv, Typed
  <2> QED
    BY <2>1 DEF Where, At, Idle
<1>7. ASSUME NEW q \in Proc, q # p
      PROVE  Where(q)'
  <2>1. pc'[q] = pc[q] /\ job'[q] = job[q]
    BY <1>1, <1>7 DEF SettingsInv, Typed
  <2> QED
    BY <1>1, <1>7, <2>1, Elsewhere
<1> QED
  BY <1>5, <1>6, <1>7 DEF SettingsInv

\* A fresh installation.
LEMMA SettingsInitInv == SettingsInit => SettingsInv
<1> SUFFICES ASSUME SettingsInit PROVE SettingsInv
  OBVIOUS
<1>1. Idle \in Job
  BY DEF Idle, Job, Operation
<1>2. Typed
  <2>1. config \in Config /\ saved \in Media
    BY DEF SettingsInit, Config
  <2>2. mutex = None /\ (\A p \in Proc : pc[p] = "idle" /\ mutex # p) /\ faults \in 0 .. MaxFaults
    BY Names DEF SettingsInit
  <2>3. pc \in [Proc -> Place] /\ job \in [Proc -> Job]
    BY <1>1 DEF SettingsInit, Place
  <2> QED
    BY <2>1, <2>2, <2>3 DEF SettingsInit, Typed, SettingsTypeOK, Rule
<1>3. Base
  BY DEF SettingsInit, Base, OwnedIsRecorded
<1>4. \A p \in Proc : Where(p)
  BY DEF SettingsInit, Where, At, Idle
<1> QED
  BY <1>2, <1>3, <1>4 DEF SettingsInv
-----------------------------------------------------------------------------
(* The steps. *)

\* A process enters a command.
LEMMA AcquireStep ==
  ASSUME SettingsInv, NEW p \in Proc, NEW op \in Operation, NEW m \in Media \cup {None},
         op = "media" => m \in Media, Acquire(p, op, m)
  PROVE  SettingsInv'
<1> DEFINE j == [Idle EXCEPT !.op = op, !.flag = abandoned, !.media = m]
<1>1. j \in Job /\ j.op = op /\ j.media = m
  BY DEF Idle, Job, SettingsInv, Typed, SettingsTypeOK
<1>2. /\ pc' = [pc EXCEPT ![p] = "opened"] /\ job' = [job EXCEPT ![p] = j]
      /\ mutex = None /\ mutex' = p /\ abandoned' = FALSE /\ UNCHANGED <<faults, daemon, files>>
  BY DEF Acquire
<1> HIDE DEF j
<1>3. pc' \in [Proc -> Place] /\ job' \in [Proc -> Job]
  BY <1>1, <1>2 DEF SettingsInv, Typed, Place
<1>4. \A q \in Proc : pc[q] = "idle"
  BY <1>2, Names DEF SettingsInv, Typed, SettingsTypeOK
<1>5. \A q \in Proc : pc'[q] = "idle" <=> mutex' # q
  BY <1>2, <1>4 DEF SettingsInv, Typed
<1>6. Typed'
  BY <1>2, <1>3, <1>5 DEF SettingsInv, Typed, SettingsTypeOK, daemon, files
<1>7. Base'
  BY <1>2 DEF SettingsInv, Base, OwnedIsRecorded, daemon, files
<1>8. Where(p)'
  <2>1. pc'[p] = "opened" /\ job'[p] = j
    BY <1>2 DEF SettingsInv, Typed
  <2> QED
    BY <1>1, <2>1 DEF Where, At
<1>9. ASSUME NEW q \in Proc, q # p
      PROVE  Where(q)'
  <2>1. pc'[q] = "idle" /\ job'[q] = job[q]
    BY <1>2, <1>4, <1>9 DEF SettingsInv, Typed
  <2> QED
    BY <2>1 DEF SettingsInv, Where, At
<1> QED
  BY <1>6, <1>7, <1>8, <1>9 DEF SettingsInv

\* The checks and the inspection.
LEMMA InspectStep ==
  ASSUME SettingsInv, NEW p \in Proc, Inspect(p)
  PROVE  SettingsInv'
<1> DEFINE op == job[p].op
           place == Plan(op, job[p].flag)
           c == IF place = "receipt" THEN Candidate ELSE None
           j == [job[p] EXCEPT !.cand = c]
<1>0. job[p] \in Job /\ op \in Operation /\ ~At(p, "idle") /\ UNCHANGED <<daemon, files>>
  BY DEF SettingsInv, Typed, Job, Inspect, At
<1>1. Base'
  BY <1>0 DEF SettingsInv, Base, OwnedIsRecorded, daemon, files
<1>2. /\ dns' \in Dns /\ rule' \in Rule /\ made' \in BOOLEAN /\ saved' \in Media
      /\ receipt' \in Dns \cup {None} /\ pending' \in Entry \cup {None} /\ config' \in Config
  BY <1>0 DEF SettingsInv, Typed, SettingsTypeOK, daemon, files
<1>3. CASE place = "return"
  <2>1. Leave(p, FALSE) /\ faults' = faults
    BY <1>3 DEF Inspect, Finish
  <2> QED
    BY <1>0, <1>1, <1>2, <2>1, Left DEF SettingsInv, Typed, SettingsTypeOK
<1>4. CASE place # "return"
  <2>1. Go(p, place) /\ job' = [job EXCEPT ![p] = j]
    BY <1>4 DEF Inspect, SettingsInv, Typed
  <2>2. /\ place \in {"journal", "read", "receipt", "unreceipt"}
        /\ place = "read" => op = "media"
        /\ place # "read" => op # "media"
        /\ place = "journal" => /\ op \in {"enable", "disable", "uninstall"} /\ pending = None
                                /\ op # "enable" => Ownership(receipt) = "Owned"
        /\ place = "receipt" => pending # None /\ Ownership(Candidate) = "Owned"
        /\ place = "unreceipt" => rule = Absent
    BY <1>0, <1>4 DEF Plan, Operation
  <2>3. Ownership(receipt) = "Owned" => receipt \in Dns
    BY DEF Ownership, SettingsInv, Typed, SettingsTypeOK
  <2>4. place = "receipt" => Candidate \in Dns /\ rule = Candidate
    <3>1. CASE pending # None /\ Ownership(Candidate) = "Owned"
      <4>1. pending \in Entry /\ pending.receipt \in Dns \cup {None} /\ pending.dns \in Dns
        BY <3>1 DEF SettingsInv, Typed, SettingsTypeOK, Entry
      <4>2. Candidate \in Dns \cup {None}
        BY <4>1 DEF Candidate
      <4> QED
        BY <3>1, <4>2 DEF Ownership
    <3> QED
      BY <2>2, <3>1
  <2>5. place = "unreceipt" => ~made
    BY <2>2, Names DEF SettingsInv, Base
  <2>6. c \in Dns \cup {None} /\ (place # "receipt" => c = None) /\ (place = "receipt" => c = Candidate)
    BY <2>4
  <2> HIDE DEF c
  <2>7. j \in Job /\ j.op = op /\ j.cand = c /\ j.media = job[p].media
    BY <1>0, <2>6 DEF Job
  <2>8. pc'[p] = place /\ job'[p] = j
    BY <2>1 DEF Go, SettingsInv, Typed
  <2>9. /\ receipt' = receipt /\ pending' = pending /\ rule' = rule /\ made' = made /\ config' = config
    BY <1>0 DEF daemon, files
  <2> HIDE DEF j, place, op
  <2>10. op = "media" => job[p].media \in Media
    BY DEF SettingsInv, Where, op
  <2>11. Where(p)'
    BY <2>2, <2>3, <2>4, <2>5, <2>6, <2>7, <2>8, <2>9, <2>10 DEF Where, At
  <2>12. place \in Place \ {"idle"}
    BY <2>2 DEF Place
  <2> QED
    BY <1>0, <1>1, <1>2, <2>1, <2>7, <2>11, <2>12, Moved
<1> QED
  BY <1>3, <1>4

\* Changing the rule.
LEMMA RuleStep ==
  ASSUME SettingsInv, NEW p \in Proc,
         Journal(p) \/ Refused(p) \/ Verify(p) \/ JournalReceipt(p) \/ \E b \in BOOLEAN : Command(p, b)
  PROVE  SettingsInv'
<1> DEFINE op == job[p].op
<1>0. /\ job[p] \in Job /\ op \in Operation /\ job[p].cand \in Dns \cup {None} /\ pc[p] \in Place
      /\ Where(p) /\ SettingsTypeOK /\ Base /\ job \in [Proc -> Job] /\ pc \in [Proc -> Place]
  BY DEF SettingsInv, Typed, Job
<1>1. job = [job EXCEPT ![p] = job[p]]
  BY <1>0
<1>2. CASE Journal(p)
  <2>1. /\ pc[p] = "journal" /\ Go(p, "command") /\ pc'[p] = "command" /\ job' = job
        /\ UNCHANGED <<dns, rule, made, receipt, config, saved>>
        /\ pending' = IF Adding(p) THEN [on |-> TRUE, receipt |-> None, dns |-> dns]
                      ELSE [on |-> FALSE, receipt |-> receipt, dns |-> receipt]
    BY <1>0, <1>2 DEF Journal, Go, At, daemon
  <2>2. /\ op \in {"enable", "disable", "uninstall"} /\ job[p].cand = None /\ pending = None
        /\ op # "enable" => receipt \in Dns
    BY <1>0, <2>1 DEF Where, At
  <2>3. pending' \in Entry
    BY <1>0, <2>1, <2>2 DEF Adding, Entry, SettingsTypeOK
  <2>4. pending' # None
    BY <2>3, Names
  <2>5. Base'
    BY <1>0, <2>1, <2>4 DEF Base, OwnedIsRecorded
  <2>6. Where(p)'
    BY <1>0, <2>1, <2>2, <2>4 DEF Where, At, Agree, Base, OwnedIsRecorded
  <2>7. "command" \in Place \ {"idle"} /\ ~At(p, "idle")
    BY <2>1 DEF Place, At
  <2> QED
    BY <1>0, <1>1, <2>1, <2>3, <2>5, <2>6, <2>7, Moved DEF SettingsTypeOK
<1>3. CASE Refused(p)
  <2>1. /\ pc[p] = "command" /\ Go(p, "done") /\ pc'[p] = "done" /\ job' = job
        /\ UNCHANGED <<dns, rule, made, receipt, pending, config, saved>>
    BY <1>0, <1>3 DEF Refused, Go, At, daemon, files
  <2>2. Base'
    BY <1>0, <2>1 DEF Base, OwnedIsRecorded
  <2>3. Where(p)'
    BY <1>0, <2>1 DEF Where, At, Agree
  <2>4. "done" \in Place \ {"idle"} /\ ~At(p, "idle")
    BY <2>1 DEF Place, At
  <2> QED
    BY <1>0, <1>1, <2>1, <2>2, <2>3, <2>4, Moved DEF SettingsTypeOK
<1>4. CASE Verify(p)
  <2>1. pc[p] = "verify" /\ UNCHANGED <<dns, rule, made, receipt, pending, config, saved>>
    BY <1>4 DEF Verify, At, daemon, files
  <2>2. op \in {"enable", "disable", "uninstall"} /\ job[p].cand = None /\ pending # None
    BY <1>0, <2>1 DEF Where, At
  <2>3. Base'
    BY <1>0, <2>1 DEF Base, OwnedIsRecorded
  <2>4. "journal2" \in Place \ {"idle"} /\ "unreceipt" \in Place \ {"idle"} /\ ~At(p, "idle")
    BY <2>1 DEF Place, At
  <2>5. ASSUME rule \in Dns, Go(p, "journal2"), job' = [job EXCEPT ![p].cand = rule]
        PROVE  SettingsInv'
    <3> DEFINE j == [job[p] EXCEPT !.cand = rule]
    <3>1. j \in Job /\ j.op = op /\ j.cand = rule /\ j.media = job[p].media
      BY <1>0, <2>5 DEF Job
    <3>2. job' = [job EXCEPT ![p] = j] /\ job'[p] = j /\ pc'[p] = "journal2"
      BY <1>0, <2>5 DEF Go
    <3> HIDE DEF j
    <3>3. Where(p)'
      BY <2>1, <2>2, <2>5, <3>1, <3>2 DEF Where, At
    <3> QED
      BY <1>0, <2>1, <2>3, <2>4, <2>5, <3>1, <3>2, <3>3, Moved DEF SettingsTypeOK
  <2>6. ASSUME rule = Absent, Go(p, "unreceipt"), UNCHANGED job
        PROVE  SettingsInv'
    <3>1. ~made /\ pc'[p] = "unreceipt"
      BY <1>0, <2>6, Names DEF Base, Go
    <3>2. Where(p)'
      BY <2>1, <2>2, <2>6, <3>1 DEF Where, At
    <3> QED
      BY <1>0, <1>1, <2>1, <2>3, <2>4, <2>6, <3>2, Moved DEF SettingsTypeOK
  <2>7. ASSUME Finish(p)
        PROVE  SettingsInv'
    BY <1>0, <2>1, <2>3, <2>4, <2>7, Left DEF Finish, SettingsTypeOK
  <2> QED
    BY <1>4, <2>5, <2>6, <2>7 DEF Verify
<1>5. CASE JournalReceipt(p)
  <2>1. /\ pc[p] = "journal2" /\ Go(p, "receipt") /\ pc'[p] = "receipt" /\ job' = job
        /\ UNCHANGED <<dns, rule, made, receipt, config, saved>>
        /\ pending' = [pending EXCEPT !.receipt = job[p].cand]
    BY <1>0, <1>5 DEF JournalReceipt, Go, At, daemon
  <2>2. op # "media" /\ job[p].cand \in Dns /\ pending # None /\ (made => rule = job[p].cand)
    BY <1>0, <2>1 DEF Where, At
  <2>3. pending' \in Entry
    BY <1>0, <2>1, <2>2 DEF SettingsTypeOK, Entry
  <2>4. pending' # None
    BY <2>3, Names
  <2>5. Base'
    BY <1>0, <2>1, <2>4 DEF Base, OwnedIsRecorded
  <2>6. Where(p)'
    BY <1>0, <2>1, <2>2, <2>4 DEF Where, At
  <2>7. "receipt" \in Place \ {"idle"} /\ ~At(p, "idle")
    BY <2>1 DEF Place, At
  <2> QED
    BY <1>0, <1>1, <2>1, <2>3, <2>5, <2>6, <2>7, Moved DEF SettingsTypeOK
<1>6. ASSUME NEW b \in BOOLEAN, Command(p, b)
      PROVE  SettingsInv'
  <2>1. /\ pc[p] = "command" /\ UNCHANGED <<dns, receipt, pending, config, saved>>
        /\ rule' = (IF Adding(p) THEN dns ELSE Absent) /\ made' = Adding(p)
    BY <1>6 DEF Command, At, files
  <2>2. op \in {"enable", "disable", "uninstall"} /\ job[p].cand = None /\ pending # None
    BY <1>0, <2>1 DEF Where, At
  <2>3. rule' \in Rule /\ made' \in BOOLEAN /\ (made' => rule' \in Dns)
    BY <1>0, <2>1 DEF SettingsTypeOK, Rule, Adding
  <2>4. Base'
    BY <1>0, <2>1, <2>2, <2>3 DEF Base, OwnedIsRecorded
  <2>5. "verify" \in Place \ {"idle"} /\ ~At(p, "idle")
    BY <2>1 DEF Place, At
  <2>6. CASE Go(p, "verify") /\ UNCHANGED job
    <3>1. pc'[p] = "verify"
      BY <1>0, <2>6 DEF Go
    <3>2. Where(p)'
      BY <1>0, <2>1, <2>2, <2>6, <3>1 DEF Where, At
    <3> QED
      BY <1>0, <1>1, <2>1, <2>3, <2>4, <2>5, <2>6, <3>2, Moved DEF SettingsTypeOK
  <2>7. CASE Leave(p, FALSE) /\ Fault
    <3>1. faults' \in 0 .. MaxFaults
      BY <1>0, <2>7, Names DEF Fault, SettingsTypeOK
    <3> QED
      BY <1>0, <2>1, <2>3, <2>4, <2>5, <2>7, <3>1, Left DEF SettingsTypeOK
  <2> QED
    BY <1>6, <2>6, <2>7 DEF Command
<1> QED
  BY <1>2, <1>3, <1>4, <1>5, <1>6
\* Receipt, configuration and the end of the journal.
LEMMA FileStep ==
  ASSUME SettingsInv, NEW p \in Proc,
         \/ WriteReceipt(p) \/ RemoveReceipt(p) \/ ReadConfig(p) \/ WriteConfig(p) \/ SaveMedia(p)
         \/ RemovePending(p)
  PROVE  SettingsInv'
<1> DEFINE op == job[p].op
<1>0. /\ job[p] \in Job /\ op \in Operation /\ job[p].cand \in Dns \cup {None} /\ pc[p] \in Place
      /\ Where(p) /\ SettingsTypeOK /\ Base /\ job \in [Proc -> Job] /\ pc \in [Proc -> Place]
  BY DEF SettingsInv, Typed, Job
<1>1. job = [job EXCEPT ![p] = job[p]]
  BY <1>0
<1>2. "read" \in Place \ {"idle"} /\ "write" \in Place \ {"idle"} /\ "done" \in Place \ {"idle"}
  BY DEF Place
<1>3. CASE WriteReceipt(p)
  <2>1. /\ pc[p] = "receipt" /\ Go(p, "read") /\ pc'[p] = "read" /\ job' = job /\ ~At(p, "idle")
        /\ UNCHANGED <<dns, rule, made, pending, config, saved>> /\ receipt' = job[p].cand
    BY <1>0, <1>3 DEF WriteReceipt, Go, At, daemon
  <2>2. op # "media" /\ job[p].cand \in Dns /\ pending # None /\ (made => rule = job[p].cand)
    BY <1>0, <2>1 DEF Where, At
  <2>3. Base'
    BY <1>0, <2>1, <2>2 DEF Base, OwnedIsRecorded
  <2>4. Where(p)'
    BY <2>1, <2>2 DEF Where, At
  <2> QED
    BY <1>0, <1>1, <1>2, <2>1, <2>2, <2>3, <2>4, Moved DEF SettingsTypeOK
<1>4. CASE RemoveReceipt(p)
  <2>1. /\ pc[p] = "unreceipt" /\ Go(p, "read") /\ pc'[p] = "read" /\ job' = job /\ ~At(p, "idle")
        /\ UNCHANGED <<dns, rule, made, pending, config, saved>> /\ receipt' = None
    BY <1>0, <1>4 DEF RemoveReceipt, Go, At, daemon
  <2>2. op # "media" /\ job[p].cand = None /\ ~made
    BY <1>0, <2>1 DEF Where, At
  <2>3. Base'
    BY <1>0, <2>1, <2>2 DEF Base, OwnedIsRecorded
  <2>4. Where(p)'
    BY <2>1, <2>2 DEF Where, At
  <2> QED
    BY <1>0, <1>1, <1>2, <2>1, <2>3, <2>4, Moved DEF SettingsTypeOK
<1>5. CASE ReadConfig(p)
  <2> DEFINE j == [job[p] EXCEPT !.doc = config]
  <2>1. /\ pc[p] = "read" /\ Go(p, "write") /\ pc'[p] = "write" /\ ~At(p, "idle")
        /\ job' = [job EXCEPT ![p] = j] /\ job'[p] = j
        /\ UNCHANGED <<dns, rule, made, receipt, pending, config, saved>>
    BY <1>0, <1>5 DEF ReadConfig, Go, At, daemon, files
  <2>2. j \in Job /\ j.op = op /\ j.cand = job[p].cand /\ j.media = job[p].media /\ j.doc = config
    BY <1>0 DEF Job, SettingsTypeOK
  <2> HIDE DEF j
  <2>3. Base'
    BY <1>0, <2>1 DEF Base, OwnedIsRecorded
  <2>4. Where(p)'
    BY <1>0, <2>1, <2>2 DEF Where, At
  <2> QED
    BY <1>0, <1>2, <2>1, <2>2, <2>3, <2>4, Moved DEF SettingsTypeOK
<1>6. CASE WriteConfig(p)
  <2>1. /\ pc[p] = "write" /\ Go(p, "done") /\ pc'[p] = "done" /\ job' = job /\ ~At(p, "idle")
        /\ UNCHANGED <<dns, rule, made, receipt, pending, saved>> /\ op # "media"
        /\ config' = [job[p].doc EXCEPT !.origin = job[p].cand]
    BY <1>0, <1>6 DEF WriteConfig, Go, At, daemon
  <2>2. job[p].doc = config /\ receipt = job[p].cand /\ (made => receipt = rule)
    BY <1>0, <2>1 DEF Where, At
  <2>3. config' \in Config /\ config'.origin = receipt /\ config'.media = config.media
    BY <1>0, <2>1, <2>2 DEF SettingsTypeOK, Config
  <2>4. Base'
    BY <1>0, <2>1, <2>2, <2>3 DEF Base, OwnedIsRecorded
  <2>5. Where(p)'
    BY <2>1, <2>2, <2>3 DEF Where, At, Agree
  <2> QED
    BY <1>0, <1>1, <1>2, <2>1, <2>3, <2>4, <2>5, Moved DEF SettingsTypeOK
<1>7. CASE SaveMedia(p)
  <2>1. /\ pc[p] = "write" /\ op = "media" /\ Leave(p, FALSE) /\ faults' = faults /\ ~At(p, "idle")
        /\ UNCHANGED <<dns, rule, made, receipt, pending>> /\ saved' = job[p].media
        /\ config' = [job[p].doc EXCEPT !.media = job[p].media]
    BY <1>7 DEF SaveMedia, Finish, At, daemon
  <2>2. job[p].doc = config /\ job[p].media \in Media
    BY <1>0, <2>1 DEF Where, At
  <2>3. config' \in Config /\ config'.origin = config.origin /\ config'.media = saved'
    BY <1>0, <2>1, <2>2 DEF SettingsTypeOK, Config
  <2>4. Base'
    BY <1>0, <2>1, <2>3 DEF Base, OwnedIsRecorded
  <2> QED
    BY <1>0, <2>1, <2>2, <2>3, <2>4, Left DEF SettingsTypeOK
<1>8. CASE RemovePending(p)
  <2>1. /\ pc[p] = "done" /\ Leave(p, FALSE) /\ faults' = faults /\ ~At(p, "idle")
        /\ UNCHANGED <<dns, rule, made, receipt, config, saved>> /\ pending' = None
    BY <1>8 DEF RemovePending, Finish, At, daemon
  <2>2. Agree
    BY <1>0, <2>1 DEF Where, At
  <2>3. Base'
    BY <1>0, <2>1, <2>2 DEF Base, OwnedIsRecorded, Agree
  <2> QED
    BY <1>0, <2>1, <2>3, Left DEF SettingsTypeOK
<1> QED
  BY <1>3, <1>4, <1>5, <1>6, <1>7, <1>8

\* An error or the death of the process, anywhere.
LEMMA StopStep ==
  ASSUME SettingsInv, NEW p \in Proc, Fail(p) \/ Crash(p)
  PROVE  SettingsInv'
<1>1. PICK b \in BOOLEAN : Leave(p, b)
  BY DEF Fail, Crash
<1>2. ~At(p, "idle") /\ Fault /\ UNCHANGED <<dns, rule, made, receipt, pending, config, saved>>
  BY DEF Fail, Crash, daemon, files
<1>3. faults' \in 0 .. MaxFaults
  BY <1>2, Names DEF Fault, SettingsInv, Typed, SettingsTypeOK
<1>4. Base'
  BY <1>2 DEF SettingsInv, Base, OwnedIsRecorded
<1> QED
  BY <1>1, <1>2, <1>3, <1>4, Left DEF SettingsInv, Typed, SettingsTypeOK

\* Somebody else changes the rule or the name of the node.
LEMMA WorldStep ==
  ASSUME SettingsInv, Foreign \/ Rename
  PROVE  SettingsInv'
<1>1. /\ UNCHANGED <<mutex, abandoned, receipt, pending, config, saved, faults, pc, job>>
      /\ dns' \in Dns /\ rule' \in Rule /\ made' \in BOOLEAN
      /\ made' => made /\ rule' = rule
  <2>1. CASE Foreign
    BY <2>1 DEF Foreign, files, SettingsInv, Typed, SettingsTypeOK, Rule
  <2>2. CASE Rename
    BY <2>2 DEF Rename, files, SettingsInv, Typed, SettingsTypeOK
  <2> QED
    BY <2>1, <2>2
<1>2. Typed'
  BY <1>1 DEF SettingsInv, Typed, SettingsTypeOK
<1>3. Base'
  BY <1>1 DEF SettingsInv, Base, OwnedIsRecorded
<1>4. ASSUME NEW p \in Proc PROVE Where(p)'
  BY <1>1 DEF SettingsInv, Where, At, Agree
<1> QED
  BY <1>2, <1>3, <1>4 DEF SettingsInv

-----------------------------------------------------------------------------
(* The theorems. *)

\* Every step preserves the inductive invariant (main.rs, transaction.rs).
THEOREM SettingsInvariance == SettingsSpec => []SettingsInv
<1>1. SettingsInv /\ [SettingsNext]_settingsVars => SettingsInv'
  <2> SUFFICES ASSUME SettingsInv, [SettingsNext]_settingsVars PROVE SettingsInv'
    OBVIOUS
  <2>1. ASSUME NEW p \in Proc, NEW o \in Operation \ {"media"}, Acquire(p, o, None)
        PROVE  SettingsInv'
    BY <2>1, AcquireStep
  <2>2. ASSUME NEW p \in Proc, NEW m \in Media, Acquire(p, "media", m)
        PROVE  SettingsInv'
    <3>1. "media" \in Operation
      BY DEF Operation
    <3> QED
      BY <2>2, <3>1, AcquireStep
  <2>3. ASSUME NEW p \in Proc, Step(p) \/ Crash(p)
        PROVE  SettingsInv'
    BY <2>3, InspectStep, RuleStep, FileStep, StopStep DEF Step
  <2>4. CASE Foreign \/ Rename
    BY <2>4, WorldStep
  <2>5. CASE UNCHANGED settingsVars
    <3>1. Typed' /\ Base'
      BY <2>5 DEF SettingsInv, Typed, SettingsTypeOK, Base, OwnedIsRecorded, settingsVars
    <3>2. \A p \in Proc : Where(p)'
      BY <2>5 DEF SettingsInv, Where, At, Agree, settingsVars
    <3> QED
      BY <3>1, <3>2 DEF SettingsInv
  <2> QED
    BY <2>1, <2>2, <2>3, <2>4, <2>5 DEF SettingsNext
<1> QED
  BY <1>1, SettingsInitInv, PTL DEF SettingsSpec

\* Every variable keeps its type, and exactly the process that is in a command holds the mutex.
THEOREM SettingsTypeCorrect == SettingsSpec => []SettingsTypeOK
<1>1. SettingsInv => SettingsTypeOK
  BY DEF SettingsInv, Typed
<1> QED
  BY <1>1, SettingsInvariance, PTL

\* A Serve rule that the program made has its receipt or a journal, whatever failed or died
\* and whoever changed the rule (main.rs: tailscale_enable, tailscale_disable).
THEOREM RuleRecorded == SettingsSpec => []OwnedIsRecorded
<1>1. SettingsInv => OwnedIsRecorded
  BY DEF SettingsInv, Base
<1> QED
  BY <1>1, SettingsInvariance, PTL

\* The configuration has the media settings last saved, and without a journal the origin of
\* the receipt (transaction.rs, update_public_origin, set_media_document).
THEOREM ConfigAgrees == SettingsSpec => []ConfigCommitted
<1>1. SettingsInv => ConfigCommitted
  BY DEF SettingsInv, Base, ConfigCommitted
<1> QED
  BY <1>1, SettingsInvariance, PTL
=============================================================================
