------------------------------ MODULE GuiControl -----------------------------
(***************************************************************************)
(* Remote control of the desktop: the agent's media loop (media.rs), which *)
(* grants a client the GUI lease, and the native safety thread             *)
(* (gui_session.rs), which owns the injected keys (gui_input.rs) and gives *)
(* way to the local user.  They share three atomics (closed, armed,        *)
(* revision) and a bounded command queue.  A step of the model touches the *)
(* shared state once, so a revoke (armed, then revision) and an arm        *)
(* (revision, then armed, then revision again) interleave as in the code.  *)
(* Low-level hooks run on the safety thread, only where it looks for       *)
(* messages: in GetMessage and in the PeekMessage of allowed().            *)
(* Coordinates, key codes and the text of an action are left out: when it  *)
(* is sent, an action presses, releases, or only moves or types.           *)
(***************************************************************************)
EXTENDS Naturals, Sequences

CONSTANTS
  QueueCap,   \* capacity of the command channel (64)
  Batch,      \* commands handled for one WAKE (64)
  MaxRev,     \* bound of the model: no new revoking step from this revision on
  NoArm       \* no Arm is awaited, or it has no answer yet

\* A batch may not outrun the queue: see ArmStartsClean.
ASSUME BatchFitsQueue ==
  QueueCap \in Nat \ {0} /\ Batch \in Nat \ {0} /\ Batch <= QueueCap /\ MaxRev \in Nat /\ NoArm \notin Nat

VARIABLES
  armed, revision, closed,  \* Safety: the three atomics
  queue,                    \* the command channel
  gui,                      \* safety thread: [at, then, cmd, left, ok]
  enabled, held,            \* InputBackend: enabled, the epochs of the pressed keys
  agent,                    \* media loop: [at, mode]
  ready,                    \* helper_control_ready: allowed, live, frames within 500 ms
  lease,                    \* the lease epoch, 0 for none
  waiting, answer,          \* expected of the Arm awaited (NoArm for none), its answer
  touch, fence, late        \* history: revision after the last local input, after the last
                            \* revoke of any kind; inputs sent after a revoke

safety == <<armed, revision, closed>>
backend == <<enabled, held>>
loop == <<ready, lease>>
history == <<touch, fence, late>>
vars == <<armed, revision, closed, queue, gui, enabled, held, agent, ready, lease,
          waiting, answer, touch, fence, late>>

Rev == Nat   \* revisions, the epochs of leases among them
Simple == [op : {"Frame", "Disarm", "Stop", "none"}]
Command == Simple \cup [op : {"Arm"}, expected : Rev]
                  \cup [op : {"Action"}, epoch : Rev]
Refusal == 0   \* an answer that is no epoch: epochs are at least 1

TypeOK ==
  /\ armed \in BOOLEAN /\ closed \in BOOLEAN /\ revision \in Rev
  /\ queue \in Seq(Command) /\ Len(queue) <= QueueCap
  /\ gui \in [at : {"get", "batch", "cas", "store", "recheck", "reply", "apply", "send",
                    "r1", "r2", "closing", "gone"},
              then : {"get", "batch", "reply", "apply", "closing"},
              cmd : Command, left : 0 .. Batch, ok : BOOLEAN]
  /\ enabled \in BOOLEAN /\ held \subseteq Rev
  /\ agent \in [at : {"loop", "wait", "act", "r1", "r2", "post", "gone"},
                mode : {"disarm", "end", "drop"}]
  /\ ready \in BOOLEAN /\ lease \in Rev /\ waiting \in Rev \cup {NoArm} /\ answer \in Rev \cup {NoArm}
  /\ touch \in Rev /\ fence \in Rev /\ late \in Nat

Nothing == [op |-> "none"]

Init ==
  /\ armed = FALSE /\ revision = 0 /\ closed = FALSE
  /\ queue = <<>>
  /\ gui = [at |-> "get", then |-> "get", cmd |-> Nothing, left |-> 0, ok |-> FALSE]
  /\ enabled = FALSE /\ held = {}
  /\ agent = [at |-> "loop", mode |-> "disarm"]
  /\ ready = FALSE /\ lease = 0 /\ waiting = NoArm /\ answer = NoArm
  /\ touch = 0 /\ fence = 0 /\ late = 0

\* Steps that will end in a revoke are begun only below the bound, an Arm up to it.
Room == revision < MaxRev

-----------------------------------------------------------------------------
(* The agent's media loop. *)

\* GuiSession::post: refused by a closed session, a full queue or a dropped receiver.
\* A wake-up that fails after queueing (its thread has ended) revokes and is an error: the
\* command is queued, and the loop goes on by EndLoop or ArmTimeout.
Posts(c) == ~closed /\ Len(queue) < QueueCap /\ gui.at # "gone" /\ queue' = Append(queue, c)
Refused == (closed \/ Len(queue) >= QueueCap \/ gui.at = "gone") /\ UNCHANGED queue

\* The helper's status.  Without control_allowed the loop disarms at once.
Status(ok) ==
  /\ agent.at = "loop" /\ (ok \/ Room)
  /\ ready' = ok
  /\ agent' = IF ok THEN agent ELSE [at |-> "r1", mode |-> "disarm"]
  /\ UNCHANGED <<safety, queue, gui, backend, lease, waiting, answer, history>>

\* The client presents a frame and the safety thread is told; a refusal ends the stream.
Presented ==
  /\ agent.at = "loop"
  /\ \/ Posts([op |-> "Frame"]) /\ UNCHANGED agent
     \/ Refused /\ agent' = [at |-> "r1", mode |-> "end"]
  /\ UNCHANGED <<safety, gui, backend, loop, waiting, answer, history>>

\* 500 ms pass without a frame encoded or presented.
Stale ==
  /\ ready' = FALSE
  /\ UNCHANGED <<safety, queue, gui, backend, agent, lease, waiting, answer, history>>

\* Acquire: the revision is read and an Arm posted; the loop waits for its answer.
Acquire ==
  /\ agent.at = "loop" /\ revision <= MaxRev
  /\ ready
  /\ \/ /\ Posts([op |-> "Arm", expected |-> revision])
        /\ waiting' = revision /\ answer' = NoArm /\ agent' = [agent EXCEPT !.at = "wait"]
     \/ /\ Refused
        /\ agent' = [at |-> "r1", mode |-> "disarm"] /\ UNCHANGED <<waiting, answer>>
  /\ UNCHANGED <<safety, gui, backend, loop, history>>

\* The answer of the safety thread: the lease is the new revision, or the loop disarms.
ArmAnswered ==
  /\ agent.at = "wait" /\ answer # NoArm
  /\ waiting' = NoArm /\ answer' = NoArm
  /\ \/ /\ answer = Refusal
        /\ agent' = [at |-> "r1", mode |-> "disarm"] /\ UNCHANGED lease
     \/ /\ answer # Refusal
        /\ lease' = answer /\ agent' = [agent EXCEPT !.at = "loop"]
  /\ UNCHANGED <<safety, queue, gui, backend, ready, history>>

\* 500 ms pass: the receiver is dropped, with an answer that just came too.
ArmTimeout ==
  /\ agent.at = "wait"
  /\ waiting' = NoArm /\ answer' = NoArm
  /\ agent' = [at |-> "r1", mode |-> "disarm"]
  /\ UNCHANGED <<safety, queue, gui, backend, loop, history>>

\* The 100 ms tick ends the stream with the safety thread, and takes the lease back
\* from a client that is not ready, lost the session or let the lease expire (15 s
\* without a Renew, at any time here).
Tick(expired) ==
  /\ agent.at = "loop"
  /\ \/ /\ closed
        /\ agent' = [at |-> "r1", mode |-> "end"]
     \/ /\ ~closed /\ lease # 0
        /\ ~ready \/ ~armed \/ lease # revision \/ (expired /\ Room)
        /\ agent' = [at |-> "r1", mode |-> "disarm"]
  /\ UNCHANGED <<safety, queue, gui, backend, loop, waiting, answer, history>>

\* An input of the client: a wrong epoch, sequence or geometry, or an expired lease,
\* costs it the lease.
Input(good) ==
  /\ agent.at = "loop"
  /\ LET pass == good /\ ready /\ lease # 0 /\ armed
     IN  /\ pass \/ Room
         /\ agent' = IF pass THEN [agent EXCEPT !.at = "act"]
                             ELSE [at |-> "r1", mode |-> "disarm"]
  /\ UNCHANGED <<safety, queue, gui, backend, loop, waiting, answer, history>>

\* GuiSession::action: refused by the fence or the queue, it ends the stream.
Act ==
  /\ agent.at = "act"
  /\ \/ /\ armed /\ lease = revision
        /\ Posts([op |-> "Action", epoch |-> lease])
        /\ agent' = [agent EXCEPT !.at = "loop"]
     \/ /\ ~armed \/ lease # revision \/ Refused
        /\ UNCHANGED queue /\ agent' = [at |-> "r1", mode |-> "end"]
  /\ UNCHANGED <<safety, gui, backend, loop, waiting, answer, history>>

\* A release by the client, or the end of the loop for any reason.
Release ==
  /\ agent.at = "loop" /\ Room
  /\ agent' = [at |-> "r1", mode |-> "disarm"]
  /\ UNCHANGED <<safety, queue, gui, backend, loop, waiting, answer, history>>

EndLoop ==
  /\ agent.at = "loop"
  /\ agent' = [at |-> "r1", mode |-> "end"]
  /\ UNCHANGED <<safety, queue, gui, backend, loop, waiting, answer, history>>

\* Safety::revoke by the agent's thread, one atomic at a time.
AgentRevoke ==
  /\ \/ /\ agent.at = "r1"
        /\ armed' = FALSE /\ agent' = [agent EXCEPT !.at = "r2"] /\ UNCHANGED <<revision, fence>>
     \/ /\ agent.at = "r2"
        /\ revision' = revision + 1 /\ fence' = revision'
        /\ agent' = [agent EXCEPT !.at = "post"] /\ UNCHANGED armed
  /\ UNCHANGED <<closed, queue, gui, backend, loop, waiting, answer, touch, late>>

\* The rest of disarm(): a Disarm that a full queue drops, the tray's flag and the
\* lease.  At the end of the stream the drop of the session revokes once more.
AgentDisarm ==
  /\ agent.at = "post" /\ agent.mode # "drop"
  /\ Posts([op |-> "Disarm"]) \/ Refused
  /\ lease' = 0
  /\ agent' = IF agent.mode = "end" THEN [at |-> "r1", mode |-> "drop"]
                                    ELSE [at |-> "loop", mode |-> "disarm"]
  /\ UNCHANGED <<safety, gui, backend, ready, waiting, answer, history>>

AgentDrop ==
  /\ agent.at = "post" /\ agent.mode = "drop"
  /\ queue' = IF Len(queue) < QueueCap /\ gui.at # "gone"
              THEN Append(queue, [op |-> "Stop"]) ELSE queue
  /\ agent' = [agent EXCEPT !.at = "gone"]
  /\ UNCHANGED <<safety, gui, backend, loop, waiting, answer, history>>

AgentNext ==
  \/ \E ok \in BOOLEAN : Status(ok) \/ Input(ok) \/ Tick(~ok)
  \/ Act \/ Presented \/ Acquire \/ ArmAnswered \/ ArmTimeout \/ Stale
  \/ Release \/ EndLoop \/ AgentRevoke \/ AgentDisarm \/ AgentDrop

-----------------------------------------------------------------------------
(* The safety thread. *)

\* InputBackend::disarm releases every injected key and button.  InputBackend::check
\* (age of the last frame, desktop, geometry, foreground window, integrity) may fail
\* wherever it is asked: each of its callers has a failing branch without a guard.
Disarmed == enabled' = FALSE /\ held' = {}

\* The thread goes on with a revoke of its own, and then with step k.
RevokeThen(k) == [gui EXCEPT !.at = "r1", !.then = k]

shared == <<queue, agent, loop, waiting, answer>>

\* A physical key or mouse event reaches the hooks.
LocalTouch ==
  /\ gui.at \in {"get", "apply"} /\ Room
  /\ touch' = revision + 1
  /\ gui' = RevokeThen(gui.at)
  /\ UNCHANGED <<safety, backend, shared, fence, late>>

GuiRevoke ==
  /\ \/ /\ gui.at = "r1"
        /\ armed' = FALSE /\ gui' = [gui EXCEPT !.at = "r2"] /\ UNCHANGED <<revision, fence>>
     \/ /\ gui.at = "r2"
        /\ revision' = revision + 1 /\ fence' = revision'
        /\ gui' = [gui EXCEPT !.at = gui.then, !.then = "get"] /\ UNCHANGED armed
  /\ UNCHANGED <<closed, backend, shared, touch, late>>

\* Mutant: only the Disarm command releases the keys.
TopOfLoopKeeps == UNCHANGED <<enabled, held>>

\* Each message: an unarmed backend is disarmed first.
TopOfLoop == IF armed THEN UNCHANGED <<enabled, held>> ELSE Disarmed

\* The timer: a desktop that left ends the thread, a failed check revokes.
Timer ==
  /\ gui.at = "get"
  /\ \/ /\ TopOfLoop /\ UNCHANGED gui
     \/ /\ armed /\ Disarmed /\ gui' = RevokeThen("get")
  /\ UNCHANGED <<safety, shared, history>>

\* The hotkey, the closed indicator window, WM_QUIT or a locked desktop.
Leave ==
  /\ gui.at = "get"
  /\ Disarmed
  /\ gui' = RevokeThen("closing")
  /\ UNCHANGED <<safety, shared, history>>

Wake ==
  /\ gui.at = "get" /\ queue # <<>>
  /\ TopOfLoop
  /\ gui' = [gui EXCEPT !.at = "batch", !.left = Batch]
  /\ UNCHANGED <<safety, shared, history>>

\* After the batch the thread leaves if it was closed, or waits again.  A receiver
\* whose sender is gone closes too.
BatchDone ==
  /\ gui.at = "batch" /\ (gui.left = 0 \/ queue = <<>> \/ closed)
  /\ closed' = (closed \/ (queue = <<>> /\ gui.left # 0 /\ agent.at = "gone"))
  /\ IF closed' THEN Disarmed /\ gui' = RevokeThen("closing")
                ELSE UNCHANGED <<enabled, held>> /\ gui' = [gui EXCEPT !.at = "get", !.left = 0]
  /\ UNCHANGED <<armed, revision, shared, history>>

\* One command is taken.  An Arm whose revision is old, or whose check fails, is
\* refused; an Action of another epoch is skipped.
Take ==
  /\ gui.at = "batch" /\ gui.left > 0 /\ queue # <<>> /\ ~closed
  /\ queue' = Tail(queue)
  /\ LET c == Head(queue)
         done == [gui EXCEPT !.left = @ - 1]
         next == [done EXCEPT !.cmd = c]
     IN  \/ /\ c.op = "Frame" /\ gui' = done /\ UNCHANGED <<backend, closed>>
         \/ /\ c.op = "Disarm" /\ Disarmed /\ gui' = done /\ UNCHANGED closed
         \/ /\ c.op = "Stop" /\ closed' = TRUE /\ gui' = done /\ UNCHANGED backend
         \/ /\ c.op = "Arm" /\ UNCHANGED closed
            /\ \/ /\ revision = c.expected
                  /\ enabled' = TRUE /\ UNCHANGED held /\ gui' = [next EXCEPT !.at = "cas"]
               \/ /\ Disarmed
                  /\ gui' = [next EXCEPT !.at = "r1", !.then = "reply", !.ok = FALSE]
         \/ /\ c.op = "Action" /\ UNCHANGED <<backend, closed>>
            /\ gui' = IF armed /\ revision = c.epoch THEN [next EXCEPT !.at = "apply"] ELSE done
  /\ UNCHANGED <<armed, revision, agent, loop, waiting, answer, history>>

\* compare_exchange of the revision, store of armed, load of the revision again.
ArmCas ==
  /\ gui.at = "cas"
  /\ \/ /\ revision = gui.cmd.expected
        /\ revision' = revision + 1 /\ gui' = [gui EXCEPT !.at = "store"]
        /\ UNCHANGED <<enabled, held>>
     \/ /\ revision # gui.cmd.expected
        /\ Disarmed /\ gui' = [RevokeThen("reply") EXCEPT !.ok = FALSE] /\ UNCHANGED revision
  /\ UNCHANGED <<armed, closed, shared, history>>

ArmStore ==
  /\ gui.at = "store"
  /\ armed' = TRUE /\ late' = 0 /\ gui' = [gui EXCEPT !.at = "recheck"]
  /\ UNCHANGED <<revision, closed, backend, shared, touch, fence>>

ArmRecheck ==
  /\ gui.at = "recheck"
  /\ \/ /\ revision = gui.cmd.expected + 1
        /\ gui' = [gui EXCEPT !.at = "reply", !.ok = TRUE] /\ UNCHANGED <<armed, enabled, held>>
     \/ /\ revision # gui.cmd.expected + 1
        /\ armed' = FALSE /\ Disarmed /\ gui' = [RevokeThen("reply") EXCEPT !.ok = FALSE]
  /\ UNCHANGED <<revision, closed, shared, history>>

\* Mutant: an answer nobody waits for is only dropped.
ArmReplyDropped ==
  /\ gui.at = "reply"
  /\ answer' = IF waiting # gui.cmd.expected THEN answer
               ELSE IF gui.ok THEN gui.cmd.expected + 1 ELSE Refusal
  /\ gui' = [gui EXCEPT !.at = "batch", !.cmd = Nothing, !.ok = FALSE]
  /\ UNCHANGED <<safety, backend, queue, agent, loop, waiting, history>>

\* The reply: if the requester is gone the thread disarms and revokes again.
ArmReply ==
  /\ gui.at = "reply"
  /\ \/ /\ waiting = gui.cmd.expected
        /\ answer' = IF gui.ok THEN gui.cmd.expected + 1 ELSE Refusal
        /\ gui' = [gui EXCEPT !.at = "batch", !.cmd = Nothing, !.ok = FALSE] /\ UNCHANGED <<enabled, held>>
     \/ /\ waiting # gui.cmd.expected
        /\ Disarmed /\ gui' = [RevokeThen("batch") EXCEPT !.cmd = Nothing, !.ok = FALSE] /\ UNCHANGED answer
  /\ UNCHANGED <<safety, queue, agent, loop, waiting, history>>

\* Mutant: allowed() is asked for the first SendInput of an action only.
ApplyCheckOnce ==
  /\ gui.at = "apply"
  /\ \/ enabled /\ gui' = [gui EXCEPT !.at = "send"] /\ UNCHANGED backend
     \/ Disarmed /\ gui' = [RevokeThen("batch") EXCEPT !.cmd = Nothing, !.ok = FALSE]
  /\ UNCHANGED <<safety, shared, history>>

\* allowed() and check_live before each SendInput.
ApplyCheck ==
  /\ gui.at = "apply"
  /\ LET may == enabled /\ armed /\ revision = gui.cmd.epoch /\ ~closed
     IN  \/ /\ may /\ gui' = [gui EXCEPT !.at = "send"]
            /\ UNCHANGED <<enabled, held>>
         \/ /\ Disarmed /\ gui' = [RevokeThen("batch") EXCEPT !.cmd = Nothing, !.ok = FALSE]
  /\ UNCHANGED <<safety, shared, history>>

\* SendInput; it may fail.  held follows the key or button that went down or up.  A click
\* first moves, a text has many characters: then allowed() is asked again.
SendInput ==
  /\ gui.at = "send"
  /\ LET e == gui.cmd.epoch
     IN  /\ late' = IF armed /\ revision = e THEN late ELSE late + 1
         /\ \/ /\ gui' = [gui EXCEPT !.at = "apply"] /\ UNCHANGED <<enabled, held>>
            \/ /\ gui' = [gui EXCEPT !.at = "batch", !.cmd = Nothing, !.ok = FALSE] /\ UNCHANGED enabled
               /\ held' \in {held, held \cup {e}, held \ {e}}
            \/ /\ Disarmed /\ gui' = [RevokeThen("batch") EXCEPT !.cmd = Nothing, !.ok = FALSE]
  /\ UNCHANGED <<safety, shared, touch, fence>>

\* The closure around run(): one more revoke, then closed.
Closing ==
  /\ gui.at = "closing"
  /\ armed' = FALSE /\ revision' = revision + 1 /\ fence' = revision' /\ closed' = TRUE
  /\ gui' = [gui EXCEPT !.at = "gone"] /\ queue' = <<>>
  /\ UNCHANGED <<agent, loop, waiting, answer, backend, touch, late>>

GuiNext ==
  \/ LocalTouch \/ GuiRevoke \/ Timer \/ Leave \/ Wake \/ BatchDone \/ Take
  \/ ArmCas \/ ArmStore \/ ArmRecheck \/ ArmReply \/ ApplyCheck \/ SendInput \/ Closing

Next == AgentNext \/ GuiNext

\* The safety thread gets its messages (the timer fires every 100 ms, WM_QUIT is
\* delivered) and runs; the loop finishes what it began and ticks.
Fairness ==
  /\ WF_vars(Timer) /\ WF_vars(Wake) /\ WF_vars(Leave /\ agent.at = "gone")
  /\ WF_vars(GuiRevoke \/ BatchDone \/ Take \/ ArmCas \/ ArmStore \/ ArmRecheck
             \/ ArmReply \/ ApplyCheck \/ Closing)
  /\ WF_vars(SendInput /\ gui'.at # "apply")
  /\ WF_vars(ArmAnswered) /\ WF_vars(ArmTimeout) /\ WF_vars(Tick(FALSE))
  /\ WF_vars(AgentRevoke) /\ WF_vars(AgentDisarm) /\ WF_vars(AgentDrop)
  /\ WF_vars(Act)

Spec == Init /\ [][Next]_vars /\ Fairness

-----------------------------------------------------------------------------
(* Properties. *)

\* A revoke stops the remote input, although an action may be anywhere between the
\* agent's test and SendInput.  No SendInput carries an epoch that was granted, or even
\* asked for, before the last physical key or mouse event (the hooks, the expected
\* revision of an Arm, the epoch test of an Action); and after a revoke by the agent
\* (release, lost readiness, expiry, end of the stream) at most the one SendInput that is
\* already past allowed() lands.
RevokeStopsInput ==
  /\ gui.at = "send" => gui.cmd.epoch > touch
  /\ late <= 1

\* A lease never inherits the keys of one that was revoked: they are up before an
\* Arm succeeds, also when a full queue dropped the Disarm of the earlier lease.
\* (A client that acquires again while it has control keeps its own keys.)
ArmStartsClean ==
  armed /\ agent.at \in {"loop", "wait", "act"} /\ gui.at \notin {"recheck", "reply"}
    => \A e \in held : e >= fence

\* An arm never survives a revoke: when the safety thread rests and the loop is not
\* itself revoking, an armed session has the epoch the agent holds or is about to.
ArmedIsLeased ==
  armed /\ gui.at = "get" /\ agent.at \in {"loop", "wait", "act"}
    => revision \in {lease, answer}

\* Injected keys do not stay down: once unarmed they are released, or control was
\* granted again; and the end of the stream ends the thread with every key up.
KeysReleased ==
  /\ ~armed ~> (held = {} \/ armed)
  /\ agent.at = "gone" ~> (gui.at = "gone" /\ held = {})
=============================================================================
