--------------------------- MODULE TerminalStream ----------------------------
(***************************************************************************)
(* The output of one session on its way to one viewer: the event ring and  *)
(* the broadcast channel (rc-core/src/ring.rs, session.rs emit and         *)
(* subscribe_snapshot), the agent's stream task (rc-agent/src/ws.rs        *)
(* terminal), the WebSocket, and the viewer (terminal-client/src/          *)
(* terminal.ts connect, core/src/snapshot.ts StreamGuard and               *)
(* RenderBudget), which reconnects when the stream ends.                   *)
(*                                                                         *)
(* An event is its number.  Counters of bytes are kept as positions, in    *)
(* abstract units: output[n] is where event n ends, its 40-byte header     *)
(* included, when all events are laid end to end, and a frame on the       *)
(* socket knows where it ends among the bytes of its connection.  What a   *)
(* run of events, or of frames, costs is the difference of two positions.  *)
(* The ring holds the events front..Len(output).  The content of the       *)
(* screen is the number of events it shows.                                *)
(***************************************************************************)
EXTENDS Integers, Sequences, FiniteSetsExt

CONSTANTS
  MaxEvents,     \* bound: output events in one behaviour
  Costs,         \* the costs an event may have
  ResizeCost,    \* the cost of a resize event, 44 bytes
  RingLimits,    \* the values that ring_bytes may have
  RingEvents,    \* 4096 in the code
  BroadcastCap,  \* 64
  Window,        \* 256 KiB of credit
  PendingLimit,  \* 1 MiB
  SnapshotCost,  \* the largest snapshot chunk frame
  RenderLimit,   \* the viewer's RenderBudget, 5 MiB
  MaxDrops       \* bound: connections cut by the network, by a stalled
                 \* viewer's deadline or by an authorization that ends

ASSUME StreamAssumption ==
  /\ Costs \subseteq Nat \ {0} /\ ResizeCost \in Costs
  /\ RingLimits \subseteq Nat
  /\ {MaxEvents, PendingLimit, SnapshotCost, RenderLimit, MaxDrops} \subseteq Nat
  /\ {RingEvents, BroadcastCap, Window} \subseteq Nat \ {0}
  /\ \A n \in Costs : SnapshotCost + (Window - 1) + n <= RenderLimit   \* 4 MiB + 256 KiB + a frame

VARIABLES
  output,    \* the events emitted so far: where each one ends
  front,     \* the oldest event in the ring
  ringLimit, \* ring_bytes, as configured
  oversized, \* the screen's snapshot would exceed 4 MiB
  resizing,  \* a resize has been committed and waits for the pseudoconsole
  task,      \* the agent's stream task
  toViewer,  \* frames on the socket or in the viewer's render queue
  toAgent,   \* `applied` messages on the socket
  viewer,    \* [phase, sequence, bytes]: the StreamGuard of the current
             \* connection, and how many of its bytes were handled
  ready,     \* TerminalView.ready
  retry,     \* the viewer is to connect: at first, and by the timer of onclose
  shown,     \* events on the viewer's screen, when it is ready
  drops

vars ==
  <<output, front, ringLimit, oversized, resizing, task, toViewer, toAgent, viewer, ready, retry,
    shown, drops>>

agentVars == <<output, front, ringLimit, oversized, resizing>>
viewerVars == <<viewer, ready, retry, shown>>

last == Len(output)

\* What the first n events cost, and what event n does.
Offset(n) == IF n = 0 THEN 0 ELSE output[n]
Cost(n) == Offset(n) - Offset(n - 1)

\* bytes is what the task has put on its socket.
NoTask == [pc |-> "off", sent |-> 0, applied |-> 0, cursor |-> 1, pending |-> << >>, bytes |-> 0]

Init ==
  /\ output = << >> /\ front = 1 /\ ringLimit \in RingLimits /\ oversized = FALSE /\ resizing = FALSE
  /\ task = NoTask
  /\ toViewer = << >> /\ toAgent = << >>
  /\ viewer = [phase |-> "closed", sequence |-> 0, bytes |-> 0]
  /\ ready = FALSE /\ retry = TRUE /\ shown = 0
  /\ drops = 0
-----------------------------------------------------------------------------
(***************************************************************************)
(* The session's output: EventRing and the broadcast channel.              *)
(***************************************************************************)

\* The ring fits its limits when it holds the events from f on.
Fits(f) == Offset(last) - Offset(f - 1) <= ringLimit /\ last - f + 1 <= RingEvents

\* A push: whole events leave the front until the ring fits.  An event that does not
\* fit by itself leaves at once.
Evict ==
  /\ front' \in front..last' + 1
  /\ Fits(front)'
  /\ \A f \in front..front' - 1 : ~Fits(f)'

\* Under the output lock the emulator has applied the event, which gets its number,
\* enters the ring and is broadcast.  The screen, and what its snapshot takes, is another.
Pushed(n) ==
  /\ last < MaxEvents
  /\ output' = Append(output, Offset(last) + n)
  /\ oversized' \in BOOLEAN /\ UNCHANGED ringLimit
  /\ Evict

\* The reader thread emits a batch of output.
Emit(n) ==
  /\ Pushed(n)
  /\ UNCHANGED <<resizing, task, toViewer, toAgent, viewerVars, drops>>

\* resize: the new size is committed to the stream before the pseudoconsole is asked,
\* without the output lock; one resize at a time (resize_guard).
Resize ==
  /\ ~resizing /\ resizing' = TRUE
  /\ Pushed(ResizeCost)
  /\ UNCHANGED <<task, toViewer, toAgent, viewerVars, drops>>

\* The pseudoconsole answers; if it refused, the old size is committed again, after
\* whatever output came in between.
ResizeEnds ==
  /\ resizing /\ resizing' = FALSE
  /\ Pushed(ResizeCost) \/ UNCHANGED <<output, front, ringLimit, oversized>>
  /\ UNCHANGED <<task, toViewer, toAgent, viewerVars, drops>>

\* EventRing::after fails when an event after s was evicted; an empty ring
\* has no front and never fails.
Missing(s) == front <= last /\ s + 1 < front

After(s) ==
  LET low == IF s + 1 > front THEN s + 1 ELSE front
  IN [i \in 1..last - low + 1 |-> low + i - 1]
-----------------------------------------------------------------------------
(***************************************************************************)
(* The agent's stream task.                                                *)
(***************************************************************************)
\* The frames in flight are those after the one last reported applied: every frame is
\* the successor of the one before it, and a report takes away all up to it.
Unacked == Offset(task.sent) - Offset(task.applied)

End == [task EXCEPT !.pc = "off", !.pending = << >>]

\* A frame that the task sends in this step, after all others of its connection.
Frame(kind, n) == [kind |-> kind, sequence |-> n, end |-> task'.bytes]

\* Faulty variant: a snapshot kept from the time the ring's front was emitted.
SubscribeCached ==
  /\ task.pc = "subscribe"
  /\ task' = [NoTask EXCEPT !.pc = "meta", !.sent = front - 1, !.applied = front - 1,
                            !.cursor = last + 1]
  /\ UNCHANGED <<agentVars, toViewer, toAgent, viewerVars, drops>>

\* subscribe_snapshot: the receiver and the snapshot's sequence, in one
\* critical section of the output lock.  A snapshot that is too large is an error,
\* which ends the task before it has sent anything.
Subscribe ==
  /\ task.pc = "subscribe"
  /\ task' = IF oversized THEN End
             ELSE [NoTask EXCEPT !.pc = "meta", !.sent = last, !.applied = last, !.cursor = last + 1]
  /\ UNCHANGED <<agentVars, toViewer, toAgent, viewerVars, drops>>

\* The snapshot: its description, its bytes (one chunk frame stands for all),
\* its end.
SendSnapshot ==
  /\ \/ task.pc = "meta" /\ task' = [task EXCEPT !.pc = "chunk"]
     \/ task.pc = "chunk" /\ task' = [task EXCEPT !.pc = "end", !.bytes = @ + SnapshotCost]
     \/ task.pc = "end" /\ task' = [task EXCEPT !.pc = "loop"]
  /\ toViewer' = Append(toViewer, Frame(task.pc, task.sent))
  /\ UNCHANGED <<agentVars, toAgent, viewerVars, drops>>

\* The top of the loop: an empty queue is filled from the ring.
Fill ==
  /\ task.pc = "loop"
  /\ task' = IF task.pending # << >> THEN [task EXCEPT !.pc = "send"]
             ELSE IF Missing(task.sent) THEN End
             ELSE [task EXCEPT !.pc = "send", !.pending = After(task.sent)]
  /\ UNCHANGED <<agentVars, toViewer, toAgent, viewerVars, drops>>

\* Faulty variant: credit is spent up to and over its limit.
HasCreditLate == Unacked <= Window

HasCredit == Unacked < Window

Sent(n) ==
  [task EXCEPT !.pc = "loop", !.sent = n, !.pending = Tail(@), !.bytes = @ + Cost(n)]

\* Faulty variant: a frame whose send failed counts as sent.
SendIgnoringErrors ==
  /\ task.pc = "send" /\ HasCredit /\ task.pending # << >>
  /\ task' = Sent(Head(task.pending))
  /\ \/ toViewer' = Append(toViewer, Frame("output", Head(task.pending)))
     \/ UNCHANGED toViewer
  /\ UNCHANGED <<agentVars, toAgent, viewerVars, drops>>

\* One frame within the credit.  A gap in the queue ends the task; so does a
\* failed or slow send, which is a Drop.
Send ==
  /\ task.pc = "send" /\ HasCredit /\ task.pending # << >>
  /\ IF Head(task.pending) # task.sent + 1
     THEN task' = End /\ UNCHANGED toViewer
     ELSE /\ task' = Sent(Head(task.pending))
          /\ toViewer' = Append(toViewer, Frame("output", Head(task.pending)))
  /\ UNCHANGED <<agentVars, toAgent, viewerVars, drops>>

Wait ==
  /\ task.pc = "send" /\ ~(HasCredit /\ task.pending # << >>)
  /\ task' = [task EXCEPT !.pc = "select"]
  /\ UNCHANGED <<agentVars, toViewer, toAgent, viewerVars, drops>>

\* The bottom of the loop: a queue over its limit ends the task.
Queued(t) == MapThenSumSet(LAMBDA i : Cost(t.pending[i]), 1..Len(t.pending))
Checked(t) == IF Queued(t) > PendingLimit THEN End ELSE [t EXCEPT !.pc = "loop"]

\* Faulty variant: the credit of the reported frame itself is not returned.
RecvAppliedStrict ==
  LET s == Head(toAgent)
  IN /\ task.pc = "select" /\ toAgent # << >>
     /\ task' = IF s < task.applied \/ s > task.sent THEN End
                ELSE Checked([task EXCEPT !.applied = IF s > @ THEN s - 1 ELSE @])
     /\ toAgent' = Tail(toAgent)
     /\ UNCHANGED <<agentVars, toViewer, viewerVars, drops>>

\* An `applied` message returns the credit of every frame up to it.
RecvApplied ==
  LET s == Head(toAgent)
  IN /\ task.pc = "select" /\ toAgent # << >>
     /\ task' = IF s < task.applied \/ s > task.sent THEN End
                ELSE Checked([task EXCEPT !.applied = s])
     /\ toAgent' = Tail(toAgent)
     /\ UNCHANGED <<agentVars, toViewer, viewerVars, drops>>

Lagged == last - task.cursor + 1 > BroadcastCap

\* The next broadcast event: one already sent is ignored, the next one is
\* queued, and after a gap or a lag the ring is asked (Recover).
RecvEvent ==
  /\ task.pc = "select" /\ HasCredit /\ task.cursor <= last
  /\ task' = IF Lagged
             THEN [task EXCEPT !.pc = "recover", !.cursor = last - BroadcastCap + 1]
             ELSE LET n == task.cursor
                      t == [task EXCEPT !.cursor = n + 1]
                  IN CASE n <= task.sent     -> Checked(t)
                       [] n = task.sent + 1  -> Checked([t EXCEPT !.pending = Append(@, n)])
                       [] n > task.sent + 1  -> [t EXCEPT !.pc = "recover"]
  /\ UNCHANGED <<agentVars, toViewer, toAgent, viewerVars, drops>>

Recover ==
  /\ task.pc = "recover"
  /\ task' = IF Missing(task.sent) THEN End
             ELSE Checked([task EXCEPT !.pending = @ \o After(task.sent)])
  /\ UNCHANGED <<agentVars, toViewer, toAgent, viewerVars, drops>>
-----------------------------------------------------------------------------
(***************************************************************************)
(* The viewer.                                                             *)
(***************************************************************************)
\* Bytes the viewer may have to hold: RenderBudget counts a message from its
\* arrival until it is applied.
Backlog == IF toViewer = << >> THEN 0 ELSE toViewer[Len(toViewer)].end - viewer.bytes

\* connect: a new socket, a new StreamGuard, and the queue of the old connection is dead
\* (the epoch test).
Reconnect ==
  /\ retry /\ task.pc = "off"
  /\ viewer' = [phase |-> "awaiting", sequence |-> 0, bytes |-> 0]
  /\ task' = [NoTask EXCEPT !.pc = "subscribe"]
  /\ toViewer' = << >> /\ toAgent' = << >>
  /\ ready' = FALSE /\ retry' = FALSE
  /\ UNCHANGED <<agentVars, shown, drops>>

\* StreamGuard.validate.
Acceptable(f) ==
  \/ f.kind = "meta" /\ viewer.phase = "awaiting"
  \/ f.kind \in {"chunk", "end"} /\ viewer.phase = "snapshot" /\ f.sequence = viewer.sequence
  \/ f.kind = "output" /\ viewer.phase = "live" /\ f.sequence = viewer.sequence + 1

\* One frame: validate, write it to the terminal and wait for the callback,
\* then report it if the guard is live.  A frame the guard refuses, or a
\* backlog over the budget, makes the viewer close the socket.
ApplyFrame ==
  LET f    == Head(toViewer)
      live == f.kind \in {"end", "output"}
  IN /\ toViewer # << >> /\ viewer.phase \notin {"closed", "failed"}
     /\ toViewer' = Tail(toViewer)
     /\ IF Acceptable(f) /\ Backlog <= RenderLimit
        THEN /\ viewer' = [phase    |-> IF live THEN "live" ELSE "snapshot",
                           sequence |-> f.sequence, bytes |-> f.end]
             /\ toAgent' = IF live /\ task.pc # "off" THEN Append(toAgent, f.sequence) ELSE toAgent
             /\ ready' = (ready \/ f.kind = "end")
             /\ shown' = IF live THEN f.sequence ELSE shown
             /\ UNCHANGED task
        ELSE /\ viewer' = [viewer EXCEPT !.phase = "failed"]
             /\ task' = End
             /\ UNCHANGED <<toAgent, ready, shown>>
     /\ UNCHANGED <<agentVars, retry, drops>>

\* onclose.  What the render queue still holds is handled, and may even make the view ready
\* again, until the timer calls connect.
OnClose ==
  /\ task.pc = "off" /\ ~retry
  /\ retry' = TRUE /\ ready' = FALSE
  /\ UNCHANGED <<agentVars, task, toViewer, toAgent, viewer, shown, drops>>

\* The connection is cut: what is on the wire is lost, the rest of the render
\* queue too if the viewer sees the close first.
Drop ==
  /\ task.pc # "off" /\ drops < MaxDrops
  /\ drops' = drops + 1
  /\ task' = End
  /\ \E n \in 0..Len(toViewer) : toViewer' = SubSeq(toViewer, 1, n)
  /\ toAgent' = << >>
  /\ UNCHANGED <<agentVars, viewerVars>>

TaskStep ==
  \/ Subscribe \/ SendSnapshot \/ Fill \/ Send \/ Wait \/ RecvApplied \/ RecvEvent \/ Recover

ViewerStep == Reconnect \/ ApplyFrame \/ OnClose

Next == (\E n \in Costs : Emit(n)) \/ Resize \/ ResizeEnds \/ TaskStep \/ ViewerStep \/ Drop

\* The stream task and the viewer's event loop keep running; nothing forces
\* the program to print or the network to fail.
Fairness == WF_vars(TaskStep) /\ WF_vars(ViewerStep)

Spec == Init /\ [][Next]_vars /\ Fairness
-----------------------------------------------------------------------------
TaskPc == {"off", "subscribe", "meta", "chunk", "end", "loop", "send", "select", "recover"}
Phase == {"closed", "awaiting", "snapshot", "live", "failed"}

TypeOK ==
  /\ output \in Seq(Nat) /\ \A n \in 1..last : Cost(n) \in Costs
  /\ front \in 1..last + 1 /\ Fits(front) /\ ringLimit \in RingLimits
  /\ oversized \in BOOLEAN /\ resizing \in BOOLEAN
  /\ task \in [pc : TaskPc, sent : 0..last, applied : 0..last, cursor : 1..last + 1,
               pending : Seq(1..last), bytes : Nat]
  /\ toViewer \in Seq([kind : {"meta", "chunk", "end", "output"}, sequence : 0..last, end : Nat])
  /\ toAgent \in Seq(0..last)
  /\ viewer \in [phase : Phase, sequence : 0..last, bytes : Nat]
  /\ {ready, retry} \subseteq BOOLEAN /\ shown \in 0..last /\ drops \in 0..MaxDrops

\* The two ends never refuse each other: however the ring evicts, the broadcast
\* channel lags and the connection breaks, the viewer's StreamGuard meets no
\* gap, repetition or stale frame, and the agent no `applied` out of range.
NeverRefused ==
  /\ viewer.phase # "failed"
  /\ (toAgent # << >> /\ task.pc # "off") =>
       Head(toAgent) >= task.applied /\ Head(toAgent) <= task.sent

\* Credit: the bytes sent and not reported applied stay below the window plus
\* one frame, and with the snapshot below what the viewer is able to hold; its
\* RenderBudget therefore never overflows (ws.rs:336, terminal.ts:81).
CreditBound ==
  /\ task.sent > task.applied => Offset(task.sent - 1) - Offset(task.applied) < Window
  /\ Backlog <= RenderLimit

\* The view is one of TerminalFeed: its screen is always a prefix of the
\* output, it advances event by event, and a reconnection never sets it back.
Feed == INSTANCE TerminalFeed WITH seq <- last, view <- shown
FeedSpec == Feed!Spec

\* A new connection would be refused its snapshot, or the ring's newest event did not fit it
\* and left it empty, so that a viewer that lagged has nothing to recover from.
OutOfReach == oversized \/ (last > 0 /\ front > last)

\* Unless the output goes on for ever, a viewer catches up with it, through lag, eviction,
\* reconnections and events too large for the ring (ws.rs terminal, terminal.ts connect).  The two
\* states of the session that the code has no answer for (OutOfReach) are excepted.
CatchesUp == []<><<last' > last>>_vars \/ []<>((ready /\ shown = last) \/ OutOfReach)
=============================================================================
