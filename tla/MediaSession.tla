----------------------------- MODULE MediaSession ----------------------------
(***************************************************************************)
(* Video streams: the agent's single-viewer slot and stream tasks          *)
(* (media.rs), and the capture helper process that a stream starts         *)
(* (rc-media: native.rs, pump.rs).  A frame is its capture serial; a       *)
(* buffer pushed to the encoder has a fresh PTS and the serial of the      *)
(* latest capture, so an unchanged screen repeats a serial.  The helper    *)
(* proves freshness to the agent with one Frame message per new serial,    *)
(* matched to the encoded buffer by its PTS.  What signals and pictures    *)
(* hold is left out; the GUI lease of a stream is GuiControl.              *)
(***************************************************************************)
EXTENDS Naturals, Sequences, FiniteSets

CONSTANTS
  Stream,     \* media socket tasks
  None,
  MaxSerial,  \* bound of the model: captures of one helper
  MaxPts,     \* bound of the model: pushes of one helper
  QueueCap,   \* max-size-buffers of the leaky queue (2)
  EncoderCap, \* bound of the model: buffers the encoder holds
  MaxProofs,  \* MAX_PENDING_FRESH_PROOFS (128)
  EventCap,   \* the helper's event channel (64)
  OutCap      \* messages in the stdout pipe and the agent's channel

ASSUME MediaBounds ==
  /\ {MaxSerial, MaxPts} \subseteq Nat
  /\ {QueueCap, EncoderCap, MaxProofs, EventCap, OutCap} \subseteq Nat \ {0}
  /\ None \notin Stream
  /\ QueueCap <= MaxProofs   \* the map outlasts the buffers of the queue: see ProofKept

VARIABLES
  approved,   \* the source is in MediaManager::sources
  active,     \* the stream in MediaManager::active, or None
  st,         \* where each stream task is
  cancel,     \* streams whose token is canceled (or whose client is revoked)
  seen,       \* last_frame_seq of the active stream
  helper,     \* the helper process, one record (see Idle)
  honest      \* history: every Frame so far proved the serial that was encoded

vars == <<approved, active, st, cancel, seen, helper, honest>>

Serial == 0 .. MaxSerial
Pts == 0 .. MaxPts
Proof == [pts : Pts, serial : Serial]
Buffer == [pts : Pts, serial : Serial, new : BOOLEAN]   \* new: first push of its serial
Message == [type : {"Frame"}, serial : Serial] \cup [type : {"Signal", "Error", "Stopped"}]

\* No process.  at is the place in the main loop, latest the pump's slot, last the
\* serial last enqueued, queue the leaky queue, encoder the buffers the encoder holds.
Idle == [at |-> "none", owner |-> None, stop |-> FALSE, latest |-> 0, pts |-> 0, last |-> 0,
         queue |-> <<>>, encoder |-> {}, proofs |-> {}, events |-> <<>>, out |-> <<>>]

\* Where a stream task is.  It holds the slot at the places Holding; at the places Sending
\* it waits, without a timeout, for its client to read: the answer to a ping (running), the
\* error of a start that failed, the closing handshake.
Holding == {"starting", "refused", "running", "pong", "closing", "ending"}
Sending == {"refused", "pong", "ending"}

TypeOK ==
  /\ approved \in BOOLEAN /\ active \in Stream \cup {None}
  /\ st \in [Stream -> Holding \cup {"socket", "got", "done"}]
  /\ cancel \subseteq Stream /\ seen \in Serial
  /\ helper.at \in {"none", "top", "push", "status", "exited"}
  /\ helper.owner \in Stream \cup {None} /\ helper.stop \in BOOLEAN
  /\ {helper.latest, helper.last} \subseteq Serial /\ helper.pts \in Pts
  /\ helper.queue \in Seq(Buffer) /\ Len(helper.queue) <= QueueCap
  /\ helper.encoder \subseteq Buffer /\ Cardinality(helper.encoder) <= EncoderCap
  /\ helper.proofs \subseteq Proof /\ Cardinality(helper.proofs) <= MaxProofs
  /\ helper.events \in Seq(Message) /\ Len(helper.events) <= EventCap
  /\ helper.out \in Seq(Message) /\ Len(helper.out) <= OutCap
  /\ honest \in BOOLEAN

Init ==
  /\ approved = TRUE /\ active = None
  /\ st = [s \in Stream |-> "socket"] /\ cancel = {} /\ seen = 0
  /\ helper = Idle /\ honest = TRUE

-----------------------------------------------------------------------------
(* The agent. *)

manager == <<approved, active>>
Go(s, place) == st' = [st EXCEPT ![s] = place]

\* The first half of begin: the approval is read, and its lock released.
Get(s) ==
  /\ st[s] = "socket"
  /\ IF approved THEN Go(s, "got") ELSE Go(s, "done")
  /\ UNCHANGED <<manager, cancel, seen, helper, honest>>

\* Mutant: a second viewer takes the slot over.
BeginSteals(s) ==
  /\ st[s] = "got"
  /\ active' = s /\ Go(s, "starting")
  /\ UNCHANGED <<approved, cancel, seen, helper, honest>>

\* The second half: the slot is taken, or the stream is refused as busy.
Begin(s) ==
  /\ st[s] = "got"
  /\ IF active = None THEN active' = s /\ Go(s, "starting") ELSE Go(s, "done") /\ UNCHANGED active
  /\ UNCHANGED <<approved, cancel, seen, helper, honest>>

\* The GUI session and the helper start.
Start(s) ==
  /\ st[s] = "starting" /\ Go(s, "running")
  /\ helper' = [Idle EXCEPT !.at = "top", !.owner = s]
  /\ UNCHANGED <<manager, cancel, seen, honest>>

\* The safety thread, the path of the helper or its process fails: the client is told.
StartFails(s) ==
  /\ st[s] = "starting" /\ Go(s, "refused")
  /\ UNCHANGED <<manager, cancel, seen, helper, honest>>

\* A message of the helper.  A Frame whose serial does not increase is an error, and
\* any error, Error or Stopped ends the loop.
Receive(s) ==
  /\ st[s] = "running" /\ s \notin cancel /\ helper.owner = s /\ helper.out # <<>>
  /\ helper' = [helper EXCEPT !.out = Tail(@)]
  /\ LET m == Head(helper.out)
         next == m.type = "Frame" /\ m.serial > seen
     IN  /\ seen' = IF next THEN m.serial ELSE seen
         /\ Go(s, IF next \/ m.type = "Signal" THEN "running" ELSE "closing")
  /\ UNCHANGED <<manager, cancel, honest>>

\* A WebSocket ping of the client, polled after the tokens.
Ping(s) ==
  /\ st[s] = "running" /\ s \notin cancel /\ Go(s, "pong")
  /\ UNCHANGED <<manager, cancel, seen, helper, honest>>

\* Its pong is sent, or the send fails and the loop ends.
PongSent(s) ==
  /\ st[s] = "pong" /\ \E place \in {"running", "closing"} : Go(s, place)
  /\ UNCHANGED <<manager, cancel, seen, helper, honest>>

\* The loop ends: cancel, revoke or shutdown (checked first), the client or its
\* messages, a tick (expired, source changed, negotiation late), a helper that is gone.
\* Stop is sent and stdin closed.
Leave(s) ==
  /\ st[s] = "running"
  /\ Go(s, "closing")
  /\ UNCHANGED <<manager, cancel, seen, helper, honest>>

\* child.wait succeeds, or after two seconds the helper is killed.
Reap(s) ==
  /\ st[s] = "closing"
  /\ helper' = Idle /\ seen' = 0 /\ Go(s, "ending")
  /\ UNCHANGED <<manager, cancel, honest>>

\* Mutant: the guard is forgotten.
FinishKeeps(s) ==
  /\ st[s] \in {"refused", "ending"} /\ Go(s, "done")
  /\ UNCHANGED <<manager, cancel, seen, helper, honest>>

\* The error is sent, or the socket closed, and the guard dropped: finish frees the slot
\* if it is this stream's.  The token goes with the task.
Finish(s) ==
  /\ st[s] \in {"refused", "ending"}
  /\ active' = IF active = s THEN None ELSE active
  /\ Go(s, "done") /\ cancel' = cancel \ {s}
  /\ UNCHANGED <<approved, seen, helper, honest>>

\* The local user approves the source again.
Approve ==
  /\ ~approved /\ approved' = TRUE
  /\ UNCHANGED <<active, st, cancel, seen, helper, honest>>

\* clear_sources: approvals are dropped and the active stream is canceled.
ClearSources ==
  /\ approved' = FALSE
  /\ cancel' = cancel \cup ({active} \ {None})
  /\ UNCHANGED <<active, st, seen, helper, honest>>

\* cancel_all (block, stop GUI, shutdown) and revoke_client.
CancelActive ==
  /\ active # None /\ cancel' = cancel \cup {active}
  /\ UNCHANGED <<manager, st, seen, helper, honest>>

-----------------------------------------------------------------------------
(* The helper. *)

agent == <<approved, active, st, cancel, seen>>
Alive == helper.at \in {"top", "push", "status"}

\* event(): try_send from a callback; a full channel stops the helper.
Emit(h, m) == IF Len(h.events) < EventCap THEN [h EXCEPT !.events = Append(@, m)]
                                          ELSE [h EXCEPT !.stop = TRUE]

\* The capture callback replaces the latest frame.
Capture ==
  /\ Alive /\ helper.latest < MaxSerial
  /\ helper' = [helper EXCEPT !.latest = @ + 1]
  /\ UNCHANGED <<agent, honest>>

\* The main loop's select: an event is written to stdout, which blocks when full, or
\* nothing came.  Commands are read by a thread of their own: the end of stdin stops.
Select ==
  /\ helper.at = "top" /\ ~helper.stop
  /\ \/ /\ helper.events # <<>> /\ Len(helper.out) < OutCap
        /\ helper' = [helper EXCEPT !.at = "push", !.events = Tail(@),
                                    !.out = Append(@, Head(helper.events))]
     \/ /\ helper.events = <<>> /\ helper' = [helper EXCEPT !.at = "push"]
  /\ UNCHANGED <<agent, honest>>

StdinEnds ==
  /\ Alive /\ ~helper.stop /\ (st[helper.owner] = "closing")
  /\ helper' = [helper EXCEPT !.stop = TRUE]
  /\ UNCHANGED <<agent, honest>>

\* Mutant: at the limit the newest PTS goes.
InsertedNewest(proofs, b) ==
  LET newest == CHOOSE p \in proofs : \A q \in proofs : p.pts >= q.pts
  IN  (IF Cardinality(proofs) >= MaxProofs THEN proofs \ {newest} ELSE proofs) \cup {b}

\* FreshProofMap::insert: at the limit the oldest PTS goes.
Inserted(proofs, b) ==
  LET oldest == CHOOSE p \in proofs : \A q \in proofs : p.pts <= q.pts
  IN  (IF Cardinality(proofs) >= MaxProofs THEN proofs \ {oldest} ELSE proofs) \cup {b}

\* A capture is new if its serial was not enqueued before.
Fresh(serial) == serial > helper.last

\* push_latest_with, when it is time: the latest capture gets the next PTS, a new one
\* is recorded before the buffer enters the pipeline, and a full leaky queue drops its
\* own oldest buffer.
Push ==
  /\ helper.at = "push"
  /\ LET p == [pts |-> helper.pts, serial |-> helper.latest]
         new == Fresh(p.serial)
         kept == IF Len(helper.queue) < QueueCap THEN helper.queue ELSE Tail(helper.queue)
     IN  \/ helper' = [helper EXCEPT !.at = "status"]
         \/ /\ helper.latest > 0 /\ helper.pts < MaxPts
            /\ helper' = [helper EXCEPT !.at = "status", !.pts = @ + 1, !.last = p.serial,
                            !.queue = Append(kept, [pts |-> p.pts, serial |-> p.serial, new |-> new]),
                            !.proofs = IF new THEN Inserted(@, p) ELSE @]
  /\ UNCHANGED <<agent, honest>>

\* The encoder takes the next buffer of the queue.
Feed ==
  /\ Alive /\ helper.queue # <<>> /\ Cardinality(helper.encoder) < EncoderCap
  /\ helper' = [helper EXCEPT !.queue = Tail(@), !.encoder = @ \cup {Head(helper.queue)}]
  /\ UNCHANGED <<agent, honest>>

\* Every 100 ms a Status, a signal too, is written, which blocks when stdout is full.
WriteStatus ==
  /\ helper.at = "status"
  /\ \/ helper' = [helper EXCEPT !.at = "top"]
     \/ /\ Len(helper.out) < OutCap
        /\ helper' = [helper EXCEPT !.at = "top", !.out = Append(@, [type |-> "Signal"])]
  /\ UNCHANGED <<agent, honest>>

\* The encoder drops a buffer.
EncoderDrop ==
  /\ Alive
  /\ \E b \in helper.encoder : helper' = [helper EXCEPT !.encoder = @ \ {b}]
  /\ UNCHANGED <<agent, honest>>

\* Mutant: proofs are matched in the order of capture, not by PTS.
EncodedFifo ==
  /\ Alive
  /\ \E b \in helper.encoder :
       LET h == [helper EXCEPT !.encoder = @ \ {b}]
       IN  IF helper.proofs = {} THEN helper' = h /\ UNCHANGED honest
           ELSE LET p == CHOOSE p \in h.proofs : \A q \in h.proofs : p.pts <= q.pts
                IN  /\ helper' = Emit([h EXCEPT !.proofs = @ \ {p}],
                                      [type |-> "Frame", serial |-> p.serial])
                    /\ honest' = (honest /\ p.serial = b.serial)
  /\ UNCHANGED agent

\* A buffer, in whatever order the encoder hands them on, passes the pad probe: if its PTS
\* has a proof, a Frame is sent.
Encoded ==
  /\ Alive
  /\ \E b \in helper.encoder :
       LET mine == {p \in helper.proofs : p.pts = b.pts}
           h == [helper EXCEPT !.encoder = @ \ {b}, !.proofs = @ \ mine]
       IN  IF mine = {} THEN helper' = h /\ UNCHANGED honest
           ELSE \E p \in mine :
                  /\ helper' = Emit(h, [type |-> "Frame", serial |-> p.serial])
                  /\ honest' = (honest /\ p.serial = b.serial)
  /\ UNCHANGED agent

\* The callbacks of webrtcbin send an offer or a candidate; an offer that fails is an error.
Negotiate ==
  /\ Alive /\ ~helper.stop
  /\ \/ helper' = Emit(helper, [type |-> "Signal"])
     \/ helper' = [Emit(helper, [type |-> "Error"]) EXCEPT !.stop = TRUE]
  /\ UNCHANGED <<agent, honest>>

\* A pipeline error, or an end of stream, seen by the bus handler.
BusMessage ==
  /\ Alive /\ ~helper.stop
  /\ \/ helper' = [Emit(helper, [type |-> "Error"]) EXCEPT !.stop = TRUE]
     \/ helper' = [helper EXCEPT !.stop = TRUE]
  /\ UNCHANGED <<agent, honest>>

\* The process has ended: what it wrote is still to be read.
Exited(out) == [Idle EXCEPT !.at = "exited", !.owner = helper.owner, !.out = out]

\* The loop saw stop: the pipeline is torn down and Stopped written.
Exit ==
  /\ helper.at = "top" /\ helper.stop
  /\ Len(helper.out) < OutCap
  /\ helper' = Exited(Append(helper.out, [type |-> "Stopped"]))
  /\ UNCHANGED <<agent, honest>>

\* The pipeline cannot be built, a push into it or a write to stdout fails, or the client's
\* answer or candidate is refused: the process ends at once, without a Stopped.
Abort ==
  /\ Alive
  /\ helper' = Exited(helper.out)
  /\ UNCHANGED <<agent, honest>>

HelperNext == Capture \/ Select \/ StdinEnds \/ Push \/ Feed \/ WriteStatus \/ EncoderDrop \/ Encoded
              \/ Negotiate \/ BusMessage \/ Exit \/ Abort

StreamNext(s) == Get(s) \/ Begin(s) \/ Start(s) \/ StartFails(s) \/ Receive(s) \/ Ping(s) \/ PongSent(s)
                 \/ Leave(s) \/ Reap(s) \/ Finish(s)

Next ==
  \/ \E s \in Stream : StreamNext(s)
  \/ Approve \/ ClearSources \/ CancelActive
  \/ HelperNext

\* Stream tasks are scheduled.  The start is bounded by the safety thread's three seconds,
\* the reaping by two seconds and a kill, the sends of the loop (send!, helper_send) by
\* 500 ms.  The select of the loop is biased: a canceled token is seen before anything
\* else, so the loop is left.  Nothing is assumed of the sends without a timeout, the
\* steps from Sending: PongSent and Finish.
Fairness ==
  \A s \in Stream :
    /\ WF_vars(Begin(s)) /\ WF_vars(Start(s) \/ StartFails(s)) /\ WF_vars(Reap(s))
    /\ WF_vars(Leave(s) /\ s \in cancel)

Spec == Init /\ [][Next]_vars /\ Fairness

-----------------------------------------------------------------------------
(* Properties. *)

\* One host-wide owner: a stream that is past begin holds the slot, so no second
\* viewer starts a helper, and the end of an old stream never frees a new one's slot.
OneOwner ==
  \A s \in Stream : st[s] \in Holding => active = s

\* A Frame says the truth: the serial it proves is the serial of the buffer that was
\* encoded, although the queue drops buffers, captures are repeated and the encoder drops
\* and reorders (pad probe, PTS).
ProofHonest == honest

Queued == {helper.queue[i] : i \in 1 .. Len(helper.queue)}

\* The bounded map keeps the proof of a buffer that can still be encoded, however many
\* proofs of dropped buffers it holds: of every buffer in the leaky queue, and of a buffer
\* the encoder holds as long as at most MaxProofs buffers were pushed from it on.  One that
\* the encoder holds longer may lose its proof, and is encoded without a Frame.
ProofKept ==
  \A b \in Queued \cup helper.encoder :
    b.new /\ (b \in Queued \/ helper.pts <= b.pts + MaxProofs)
      => [pts |-> b.pts, serial |-> b.serial] \in helper.proofs

\* A canceled stream ends and frees the slot, unless one of its sends without a timeout
\* waits for ever for the client to read.
CanceledEnds ==
  \A s \in Stream :
    []<>(st[s] \notin Sending) => (s \in cancel ~> (st[s] = "done" /\ active # s))
=============================================================================
