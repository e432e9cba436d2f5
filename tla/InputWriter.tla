---------------------------- MODULE InputWriter ------------------------------
(***************************************************************************)
(* The input path of one session (crates/rc-agent/src/session.rs), from an *)
(* admitted request to the bytes in the pseudoconsole: request handlers    *)
(* that enqueue jobs under the input lock, two bounded queues, the writer  *)
(* thread with its permission checks, the interrupt that cancels queued    *)
(* input, and the two threads that may end the session (close and the      *)
(* child's wait).                                                          *)
(*                                                                         *)
(* The lease and the ledger are InputState's, and every step on them is    *)
(* one of its actions; who acquires, renews or loses the lease is left as  *)
(* free as InputState leaves it.  A job is an index into `accepted`.       *)
(*                                                                         *)
(* Payloads are measured in 8 KiB chunks, the unit write_job breaks a      *)
(* paste into.  `pty` records each write_all as [job, part, ok, late]:     *)
(* ok is FALSE when the write failed, late is TRUE when at that moment     *)
(* the job was no longer permitted.                                        *)
(***************************************************************************)
EXTENDS Lease, InputLedger, FiniteSets

CONSTANTS
  MaxInput, MaxPaste, MaxAccepted,  \* as in InputState; 1 and 32 chunks in the code
  Principal,     \* access tokens as carried by a request or a control socket
  ClientOf,      \* [Principal -> Client]
  Handler,       \* request tasks that can be in flight together
  Handles,       \* [Handler -> [principal, connection, ids]]: what each one sends
  Shape,         \* [InputId -> [seq, chunks, bulk, bracketed, enter, priority]]
  NormalCap,     \* 64 in the code
  InterruptCap,  \* 8
  QueryCap,      \* 128
  MaxFailures,   \* bound: failed PTY writes in one behaviour
  Ender,         \* the threads that may end the session: "close", "wait"
  Idle           \* a handler with no request

VARIABLES
  lease, ledger, accepted,  \* InputState
  who,        \* who[n]: the principal inside job n
  reply,      \* reply[n]: what job n's oneshot channel delivered
  normal, interrupt,        \* the two job queues
  queries,    \* pending answers to terminal queries
  stop,       \* the one-slot stop channel holds a signal
  w,          \* the writer thread
  pty,        \* history: writes to the pseudoconsole
  running, gone,            \* the session flag; the last Arc was dropped
  ender,      \* progress of close() and of the wait thread
  valid,      \* principals neither revoked nor expired
  request     \* the admitted request of each handler

inputVars == <<lease, ledger, accepted>>
queueVars == <<normal, interrupt>>
sessionVars == <<stop, running, gone, ender>>

vars == <<inputVars, who, reply, queueVars, queries, w, pty, sessionVars, valid, request>>

IS == INSTANCE InputState

ASSUME WriterAssumption ==
  /\ MaxInput \in Nat \ {0} /\ MaxPaste \in Nat /\ MaxInput <= MaxPaste
  /\ MaxAccepted \in Nat
  /\ Shape \in [InputId -> [seq : Nat, chunks : Nat, bulk : BOOLEAN, bracketed : BOOLEAN,
                           enter : BOOLEAN, priority : BOOLEAN]]
  /\ ClientOf \in [Principal -> Client]
  /\ \A h \in Handler : /\ Handles[h].principal \in Principal
                        /\ Handles[h].connection \in Connection
                        /\ Handles[h].ids \subseteq InputId
  /\ NormalCap \in Nat \ {0} /\ InterruptCap \in Nat \ {0} /\ QueryCap \in Nat
  /\ MaxFailures \in Nat
  /\ Ender \subseteq {"close", "wait"}

Request == [id : InputId, epoch : IS!Epoch]

JobOf(n) == Shape[accepted[n].id]

\* `permitted` in write_job.  Its three reads are not atomic, but none of them
\* turns back to true, so a loss between two of them is a loss after the check.
Permitted(n) ==
  /\ who[n] \in valid
  /\ running
  /\ Verify(lease, accepted[n].client, accepted[n].connection, accepted[n].lease)

ResetWriter(pc) ==
  [pc |-> pc, job |-> 0, next |-> 1, open |-> FALSE, urgent |-> 0, result |-> "ok"]

Init ==
  /\ IS!Init
  /\ who = << >> /\ reply = << >>
  /\ normal = << >> /\ interrupt = << >> /\ queries = 0 /\ stop = FALSE
  /\ w = ResetWriter("stop")
  /\ pty = << >>
  /\ running = TRUE /\ gone = FALSE
  /\ ender = [t \in Ender |-> "idle"]
  /\ valid = Principal
  /\ request = [h \in Handler |-> Idle]
-----------------------------------------------------------------------------
(***************************************************************************)
(* Request handlers: the control socket's Input message and the paste      *)
(* endpoint.  The principal and the running flag are read before the lock. *)
(***************************************************************************)
Admit(h, id) ==
  /\ request[h] = Idle /\ ~gone
  /\ id \in Handles[h].ids
  /\ Handles[h].principal \in valid /\ running
  /\ request' = [request EXCEPT ![h] = [id |-> id, epoch |-> lease.epoch]]
  /\ UNCHANGED <<inputVars, who, reply, queueVars, queries, w, pty, sessionVars, valid>>

\* try_send finds room: the receiver lives until the writer thread returns.
HasRoom(id) ==
  /\ w.pc # "exited"
  /\ IF Shape[id].priority THEN Len(interrupt) < InterruptCap
                           ELSE Len(normal) < NormalCap

\* The critical section of enqueue and enqueue_paste.
Enqueue(h) ==
  LET p    == Handles[h].principal
      k    == Handles[h].connection
      id   == request[h].id
      n    == Len(accepted) + 1
      room == HasRoom(id)
      q    == IF room THEN <<n>> ELSE << >>
  IN /\ request[h] # Idle
     /\ IS!Accept(ClientOf[p], k, request[h].epoch, id, Shape[id].seq, Shape[id].chunks,
                  IF Shape[id].bulk THEN MaxPaste ELSE MaxInput,
                  IF room THEN "accepted" ELSE "rejected")
     /\ who' = Append(who, p)
     /\ reply' = Append(reply, IF room THEN "pending" ELSE "rejected")
     /\ IF Shape[id].priority
        THEN interrupt' = interrupt \o q /\ UNCHANGED normal
        ELSE normal' = normal \o q /\ UNCHANGED interrupt
     /\ request' = [request EXCEPT ![h] = Idle]
     /\ UNCHANGED <<queries, w, pty, sessionVars, valid>>

\* verify or accept returns an error and nothing changes.
Refuse(h) ==
  /\ request[h] # Idle
  /\ \/ ~Verify(lease, ClientOf[Handles[h].principal], Handles[h].connection, request[h].epoch)
     \/ Duplicate(ledger, Handles[h].connection, request[h].epoch, request[h].id,
                  Shape[request[h].id].seq)
  /\ request' = [request EXCEPT ![h] = Idle]
  /\ UNCHANGED <<inputVars, who, reply, queueVars, queries, w, pty, sessionVars, valid>>
-----------------------------------------------------------------------------
(***************************************************************************)
(* The writer thread: writer_loop.                                         *)
(***************************************************************************)
writerOnly == <<inputVars, who, reply, queueVars, queries, pty, sessionVars, valid, request>>

\* Faulty variant: the thread returns without answering what is queued.
PollStopNoDrain ==
  /\ w.pc = "stop"
  /\ IF stop \/ gone
     THEN w' = ResetWriter("exited") /\ stop' = FALSE
     ELSE w' = [w EXCEPT !.pc = "urgent"] /\ UNCHANGED stop
  /\ UNCHANGED <<inputVars, who, reply, queueVars, queries, pty, running, gone, ender,
                 valid, request>>

\* select_biased! tries its channels one after the other, so a job may arrive
\* on a channel that was just found empty; when it parks and is woken by a
\* send it takes that send.  Both are the three polls below, repeated.
PollStop ==
  /\ w.pc = "stop"
  /\ IF stop \/ gone
     THEN w' = ResetWriter("drainNormal") /\ stop' = FALSE
     ELSE w' = [w EXCEPT !.pc = "urgent"] /\ UNCHANGED stop
  /\ UNCHANGED <<inputVars, who, reply, queueVars, queries, pty, running, gone, ender,
                 valid, request>>

PollInterrupt ==
  /\ w.pc = "urgent"
  /\ IF interrupt # << >>
     THEN /\ w' = [w EXCEPT !.pc = "cancel", !.job = Head(interrupt)]
          /\ interrupt' = Tail(interrupt)
     ELSE /\ w' = [w EXCEPT !.pc = "low"]
          /\ UNCHANGED interrupt
  /\ UNCHANGED <<inputVars, who, reply, normal, queries, pty, sessionVars, valid, request>>

\* An answer to a terminal query; a failed write is ignored.  A run of
\* consecutive answers is one entry of the history.
AnswerQuery ==
  /\ w.pc = "low" /\ queries > 0
  /\ queries' = queries - 1
  /\ pty' = IF pty # << >> /\ pty[Len(pty)].part = "query" THEN pty
            ELSE Append(pty, [job |-> 0, part |-> "query", ok |-> TRUE, late |-> FALSE])
  /\ w' = ResetWriter("stop")
  /\ UNCHANGED <<inputVars, who, reply, queueVars, sessionVars, valid, request>>

TakeNormal ==
  /\ w.pc = "low" /\ normal # << >>
  /\ w' = [w EXCEPT !.pc = "begin", !.job = Head(normal)]
  /\ normal' = Tail(normal)
  /\ UNCHANGED <<inputVars, who, reply, interrupt, queries, pty, sessionVars, valid, request>>

NothingToDo ==
  /\ w.pc = "low" /\ queries = 0 /\ normal = << >>
  /\ w' = ResetWriter("stop")
  /\ UNCHANGED writerOnly

\* Faulty variant: the interrupt is written ahead of the queue, which stays.
CancelNothing ==
  /\ w.pc = "cancel"
  /\ w' = [w EXCEPT !.pc = "begin"]
  /\ UNCHANGED writerOnly

\* Before an interrupt is written, every job in the normal queue is canceled,
\* one at a time.
CancelQueued ==
  /\ w.pc = "cancel"
  /\ IF normal # << >>
     THEN /\ IF gone THEN UNCHANGED inputVars
                     ELSE IS!Finish(accepted[Head(normal)].id, "rejected")
          /\ reply' = [reply EXCEPT ![Head(normal)] = "canceled"]
          /\ normal' = Tail(normal)
          /\ UNCHANGED w
     ELSE /\ w' = [w EXCEPT !.pc = "begin"]
          /\ UNCHANGED <<inputVars, reply, normal>>
  /\ UNCHANGED <<who, interrupt, queries, pty, sessionVars, valid, request>>
-----------------------------------------------------------------------------
(***************************************************************************)
(* write_job.                                                              *)
(***************************************************************************)
Fail(result) == [w EXCEPT !.pc = "suffix", !.result = result]

\* write_all of one part of the current job: it succeeds and the writer goes
\* on as `good`, or fails and goes on as `bad`.
Write(part, good, bad) ==
  /\ \E ok \in BOOLEAN :
       /\ ok \/ Cardinality({i \in 1..Len(pty) : ~pty[i].ok}) < MaxFailures
       /\ pty' = Append(pty, [job |-> w.job, part |-> part, ok |-> ok,
                              late |-> ~Permitted(w.job)])
       /\ w' = IF ok THEN good ELSE bad
  /\ UNCHANGED <<inputVars, who, reply, queueVars, queries, sessionVars, valid, request>>

Begin ==
  /\ w.pc = "begin"
  /\ IF gone
     THEN /\ reply' = [reply EXCEPT ![w.job] = "lost"]
          /\ w' = ResetWriter("stop")
     ELSE /\ w' = IF Permitted(w.job)
                  THEN [w EXCEPT !.pc = IF JobOf(w.job).bracketed THEN "prefix" ELSE "chunk"]
                  ELSE Fail("refused")
          /\ UNCHANGED reply
  /\ UNCHANGED <<inputVars, who, queueVars, queries, pty, sessionVars, valid, request>>

WritePrefix ==
  /\ w.pc = "prefix"
  /\ Write("open", [w EXCEPT !.pc = "chunk", !.open = TRUE], Fail("unknown"))

\* Faulty variant: permission is checked once, before the first chunk.
NextChunkUnchecked ==
  /\ w.pc = "chunk"
  /\ IF w.next > JobOf(w.job).chunks
     THEN w' = Fail("ok") /\ UNCHANGED interrupt
     ELSE IF JobOf(w.job).bulk /\ interrupt # << >>
     THEN /\ w' = [Fail("canceled") EXCEPT !.urgent = Head(interrupt)]
          /\ interrupt' = Tail(interrupt)
     ELSE w' = [w EXCEPT !.pc = "write"] /\ UNCHANGED interrupt
  /\ UNCHANGED <<inputVars, who, reply, normal, queries, pty, sessionVars, valid, request>>

\* Between chunks: the end of the payload, an interrupt for a paste to yield
\* to, or the permission check.
NextChunk ==
  /\ w.pc = "chunk"
  /\ IF w.next > JobOf(w.job).chunks
     THEN w' = Fail("ok") /\ UNCHANGED interrupt
     ELSE IF JobOf(w.job).bulk /\ interrupt # << >>
     THEN /\ w' = [Fail("canceled") EXCEPT !.urgent = Head(interrupt)]
          /\ interrupt' = Tail(interrupt)
     ELSE /\ w' = IF Permitted(w.job) THEN [w EXCEPT !.pc = "write"] ELSE Fail("refused")
          /\ UNCHANGED interrupt
  /\ UNCHANGED <<inputVars, who, reply, normal, queries, pty, sessionVars, valid, request>>

WriteChunk ==
  /\ w.pc = "write"
  /\ Write("data", [w EXCEPT !.pc = "chunk", !.next = @ + 1], Fail("unknown"))

\* Faulty variant: an interrupted paste is left open.
SuffixUnlessCanceled ==
  /\ w.pc = "suffix"
  /\ IF w.open /\ w.result # "canceled"
     THEN Write("close", [w EXCEPT !.pc = "enter"],
                [w EXCEPT !.pc = "enter", !.result = IF @ = "ok" THEN "unknown" ELSE @])
     ELSE w' = [w EXCEPT !.pc = "enter"] /\ UNCHANGED writerOnly

\* Faulty variant: the outcome does not depend on the closing delimiter.
SuffixIgnored ==
  /\ w.pc = "suffix"
  /\ IF w.open
     THEN Write("close", [w EXCEPT !.pc = "enter"], [w EXCEPT !.pc = "enter"])
     ELSE w' = [w EXCEPT !.pc = "enter"] /\ UNCHANGED writerOnly

\* The closing delimiter of a paste whose opening one was written, on every
\* path; then result.and(suffix).
Suffix ==
  /\ w.pc = "suffix"
  /\ IF w.open
     THEN Write("close", [w EXCEPT !.pc = "enter"],
                [w EXCEPT !.pc = "enter", !.result = IF @ = "ok" THEN "unknown" ELSE @])
     ELSE w' = [w EXCEPT !.pc = "enter"] /\ UNCHANGED writerOnly

CheckEnter ==
  /\ w.pc = "enter"
  /\ w' = IF w.result = "ok" /\ JobOf(w.job).enter
          THEN IF Permitted(w.job) THEN [w EXCEPT !.pc = "enterWrite"]
                                   ELSE [w EXCEPT !.pc = "finish", !.result = "refused"]
          ELSE [w EXCEPT !.pc = "finish"]
  /\ UNCHANGED writerOnly

WriteEnter ==
  /\ w.pc = "enterWrite"
  /\ Write("enter", [w EXCEPT !.pc = "finish"],
           [w EXCEPT !.pc = "finish", !.result = "unknown"])

\* Faulty variant: the interrupt a paste yielded to is forgotten.
FinishJobAlone ==
  /\ w.pc = "finish"
  /\ IS!Finish(accepted[w.job].id, IF w.result = "ok" THEN "written" ELSE "delivery_unknown")
  /\ reply' = [reply EXCEPT ![w.job] = IF w.result = "ok" THEN "written" ELSE w.result]
  /\ w' = ResetWriter("stop")
  /\ UNCHANGED <<who, queueVars, queries, pty, sessionVars, valid, request>>

\* Settle the job; then the interrupt it yielded to, if any, runs next, after
\* the queue is canceled.
FinishJob ==
  /\ w.pc = "finish"
  /\ IS!Finish(accepted[w.job].id, IF w.result = "ok" THEN "written" ELSE "delivery_unknown")
  /\ reply' = [reply EXCEPT ![w.job] = IF w.result = "ok" THEN "written" ELSE w.result]
  /\ w' = IF w.urgent \notin {0, w.job}
          THEN [ResetWriter("cancel") EXCEPT !.job = w.urgent, !.urgent = w.urgent]
          ELSE ResetWriter("stop")
  /\ UNCHANGED <<who, queueVars, queries, pty, sessionVars, valid, request>>
-----------------------------------------------------------------------------
(***************************************************************************)
(* The end of the writer thread.                                           *)
(***************************************************************************)
DrainNormal ==
  /\ w.pc = "drainNormal"
  /\ IF normal # << >>
     THEN /\ reply' = [reply EXCEPT ![Head(normal)] = "unknown"]
          /\ normal' = Tail(normal)
          /\ UNCHANGED w
     ELSE /\ w' = [w EXCEPT !.pc = "drainInterrupt"]
          /\ UNCHANGED <<reply, normal>>
  /\ UNCHANGED <<inputVars, who, interrupt, queries, pty, sessionVars, valid, request>>

\* When the thread returns, its receivers are dropped, and with them the reply
\* channels of the jobs that arrived behind the drain.
DrainInterrupt ==
  /\ w.pc = "drainInterrupt"
  /\ IF interrupt # << >>
     THEN /\ reply' = [reply EXCEPT ![Head(interrupt)] = "unknown"]
          /\ interrupt' = Tail(interrupt)
          /\ UNCHANGED <<w, normal>>
     ELSE /\ w' = [w EXCEPT !.pc = "exited"]
          /\ reply' = [n \in DOMAIN reply |->
                         IF \E i \in DOMAIN normal : normal[i] = n THEN "dropped" ELSE reply[n]]
          /\ normal' = << >>
          /\ UNCHANGED interrupt
  /\ UNCHANGED <<inputVars, who, queries, pty, sessionVars, valid, request>>
-----------------------------------------------------------------------------
(***************************************************************************)
(* The end of the session: close() and the wait thread, each in the order  *)
(* running := false, revoke_all, stop signal; then the last reference.     *)
(***************************************************************************)
endUnchanged == <<who, reply, queueVars, queries, w, pty, gone, valid, request>>

\* close() acts only if it is the one to clear the flag; the wait thread
\* always acts, unless the session is gone.
BeginEnd(t) ==
  /\ ender[t] = "idle" /\ ~gone
  /\ t = "close" => running
  /\ running' = FALSE
  /\ ender' = [ender EXCEPT ![t] = "revoking"]
  /\ UNCHANGED <<inputVars, stop, endUnchanged>>

EndLease(t) ==
  /\ ender[t] = "revoking"
  /\ IS!RevokeAll
  /\ ender' = [ender EXCEPT ![t] = "signalling"]
  /\ UNCHANGED <<stop, running, endUnchanged>>

SignalStop(t) ==
  /\ ender[t] = "signalling"
  /\ stop' = (w.pc # "exited")
  /\ ender' = [ender EXCEPT ![t] = "done"]
  /\ UNCHANGED <<inputVars, running, endUnchanged>>

InWriteJob == w.pc \in {"prefix", "chunk", "write", "suffix", "enter", "enterWrite", "finish"}
              \/ w.urgent # 0

\* The manager forgets a session that is not running (create) and nobody else
\* holds it: Drop for Session.
DropSession ==
  /\ ~running /\ ~gone
  /\ \A h \in Handler : request[h] = Idle
  /\ \A t \in DOMAIN ender : ender[t] \in {"idle", "done"}
  /\ ~InWriteJob
  /\ gone' = TRUE
  /\ stop' = (w.pc # "exited")
  /\ UNCHANGED <<inputVars, who, reply, queueVars, queries, w, pty, running, ender, valid, request>>
-----------------------------------------------------------------------------
(***************************************************************************)
(* The environment: the program's terminal queries, the withdrawal of      *)
(* principals and the life of the lease.                                   *)
(***************************************************************************)
AskTerminal ==
  /\ ~gone /\ w.pc # "exited" /\ queries < QueryCap
  /\ queries' = queries + 1
  /\ UNCHANGED <<inputVars, who, reply, queueVars, w, pty, sessionVars, valid, request>>

\* A token expires, or the cancellation token its device's principals share is
\* canceled.
Withdraw(P) ==
  /\ valid' = valid \ P
  /\ UNCHANGED <<inputVars, who, reply, queueVars, queries, w, pty, sessionVars, request>>

LeaseStep ==
  /\ \/ \E c \in Client, k \in Connection, takeover \in BOOLEAN : IS!Acquire(c, k, takeover)
     \/ \E c \in Client, k \in Connection, e \in IS!Epoch :
          IS!Renew(c, k, e) \/ IS!Release(c, k, e)
     \/ \E k \in Connection : IS!RevokeConnection(k)
     \/ \E c \in Client : IS!RevokeClient(c)
     \/ IS!RevokeAll
     \/ IS!Tick
  /\ ~gone
  /\ UNCHANGED <<who, reply, queueVars, queries, w, pty, sessionVars, valid, request>>

WriterStep ==
  \/ PollStop \/ PollInterrupt \/ AnswerQuery \/ TakeNormal \/ NothingToDo \/ CancelQueued
  \/ Begin \/ WritePrefix \/ NextChunk \/ WriteChunk \/ Suffix \/ CheckEnter \/ WriteEnter
  \/ FinishJob \/ DrainNormal \/ DrainInterrupt

HandlerStep(h) == (\E id \in InputId : Admit(h, id)) \/ Enqueue(h) \/ Refuse(h)

EndStep(t) == BeginEnd(t) \/ EndLease(t) \/ SignalStop(t)

Next ==
  \/ WriterStep
  \/ \E h \in Handler : HandlerStep(h)
  \/ \E t \in Ender : EndStep(t)
  \/ DropSession
  \/ AskTerminal
  \/ \E p \in Principal : Withdraw({p})
  \/ \E c \in Client : Withdraw({p \in Principal : ClientOf[p] = c})
  \/ LeaseStep

\* The writer is a thread of its own and a PTY write returns; a thread that
\* began to end the session goes on.
Fairness ==
  /\ WF_vars(WriterStep)
  /\ \A t \in Ender : WF_vars(EndLease(t) \/ SignalStop(t))

Spec == Init /\ [][Next]_vars /\ Fairness
-----------------------------------------------------------------------------
Part == {"open", "data", "close", "enter", "query"}
Outcome == {"pending", "written", "rejected", "canceled", "refused", "unknown", "lost", "dropped"}
Pc == {"stop", "urgent", "low", "cancel", "begin", "prefix", "chunk", "write", "suffix",
       "enter", "enterWrite", "finish", "drainNormal", "drainInterrupt", "exited"}
Job == 1..Len(accepted)

WriterTypeOK ==
  /\ lease \in LeaseValue /\ accepted \in Seq(IS!InputRecord)
  /\ who \in Seq(Principal) /\ reply \in Seq(Outcome)
  /\ Len(who) = Len(accepted) /\ Len(reply) = Len(accepted)
  /\ normal \in Seq(Job) /\ Len(normal) <= NormalCap
  /\ interrupt \in Seq(Job) /\ Len(interrupt) <= InterruptCap
  /\ queries \in 0..QueryCap
  /\ w \in [pc : Pc, job : 0..Len(accepted), next : 1..MaxPaste + 1, open : BOOLEAN,
            urgent : 0..Len(accepted), result : {"ok", "canceled", "refused", "unknown"}]
  /\ pty \in Seq([job : 0..Len(accepted), part : Part, ok : BOOLEAN, late : BOOLEAN])
  /\ {stop, running, gone} \subseteq BOOLEAN
  /\ ender \in [Ender -> {"idle", "revoking", "signalling", "done"}]
  /\ valid \subseteq Principal
  /\ request \in [Handler -> Request \cup {Idle}]

TypeOK == IS!TypeOK /\ WriterTypeOK

Writes(n) == {i \in 1..Len(pty) : pty[i].job = n}

\* SPEC.md 1252: input is checked again right before it is written.  Losing the
\* lease, the device or the session while a job is being written lets at most
\* the one write already past its check go through: of the writes that carry
\* user input or open a paste, at most one per job is late, and none follows it.
AtMostOneLateWrite ==
  \A n \in Job : \A i, j \in Writes(n) :
    (i < j /\ pty[i].late) => pty[j].part = "close"

\* Jobs reach the terminal in the order they were accepted, except that an
\* interrupt may overtake: whatever was accepted before an interrupt is never
\* written after it (the comment at session.rs:629).
InterruptBarrier ==
  \A i, j \in 1..Len(pty) :
    (i < j /\ pty[i].job > pty[j].job /\ pty[j].job # 0)
    => JobOf(pty[j].job).priority /\ ~JobOf(pty[i].job).priority

\* A bracketed paste is one unit in the terminal: between its opening delimiter
\* and its closing one nothing of another job and no query answer appears, and
\* it is closed on every path, unless writing the closing delimiter failed.
PasteUnbroken ==
  \A i, j \in 1..Len(pty) :
    (i < j /\ pty[i].part = "open" /\ pty[i].ok /\ pty[j].job # pty[i].job)
    => \E m \in i..j : pty[m].job = pty[i].job /\ pty[m].part = "close"

\* A complete job is its parts in this order: the opening delimiter, the
\* chunks, the closing delimiter, Enter.
Delimiters(n) == IF JobOf(n).bracketed THEN 1 ELSE 0
Parts(n) == JobOf(n).chunks + 2 * Delimiters(n) + (IF JobOf(n).enter THEN 1 ELSE 0)
PartAt(n, k) ==
  IF k <= Delimiters(n) THEN "open"
  ELSE IF k <= Delimiters(n) + JobOf(n).chunks THEN "data"
  ELSE IF k <= 2 * Delimiters(n) + JobOf(n).chunks THEN "close" ELSE "enter"

\* The successful writes of a job, and which of them write i is.
Good(n) == {i \in Writes(n) : pty[i].ok}
Rank(n, i) == Cardinality({j \in Good(n) : j <= i})

InOrder(n) == \A i \in Good(n) : pty[i].part = PartAt(n, Rank(n, i))

\* No other accepted input has the id of job n.
Once(n) == \A m \in Job : accepted[m].id = accepted[n].id => m = n

\* What the client is told is true: "written" means every part of the job, each
\* once and in order, and an input the agent rejected, in its answer or in the
\* ledger's record of an id that was not used again, has no byte in the
\* terminal (SPEC.md 460-463).
OutcomeHonest ==
  \A n \in Job :
    /\ reply[n] = "written" => Cardinality(Good(n)) = Parts(n) /\ InOrder(n)
    /\ reply[n] = "rejected" => Writes(n) = {}
    /\ (/\ accepted[n].id \in DOMAIN ledger.outcomes /\ Once(n)
        /\ ledger.outcomes[accepted[n].id] = "rejected") => Writes(n) = {}

\* Every accepted job is in exactly one place until it is settled, once: in one
\* queue, in the writer's hands, or the interrupt a paste yielded to.
Owners(n) ==
  Cardinality({i \in 1..Len(normal) : normal[i] = n})
  + Cardinality({i \in 1..Len(interrupt) : interrupt[i] = n})
  + (IF n \in {w.job, w.urgent} THEN 1 ELSE 0)

ExactlyOnce == \A n \in Job : Owners(n) = IF reply[n] = "pending" THEN 1 ELSE 0

Settled(n) == n \in Job /\ reply[n] # "pending"

\* Every accepted interrupt is settled, whatever the terminal program asks: the
\* writer polls for interrupts before queries and before the normal queue, and
\* a paste polls for them between chunks (session.rs:626, 676).
InterruptSettled ==
  \A n \in 1..MaxAccepted : (n \in Job /\ JobOf(n).priority) ~> Settled(n)

\* Every accepted input is settled unless the program keeps the query channel
\* busy forever (queries are polled before the normal queue), through every
\* cancellation, permission loss and end of the session.
InputSettled ==
  <>[](queries = 0) =>
    \A n \in 1..MaxAccepted : (n \in Job) ~> Settled(n)
=============================================================================
