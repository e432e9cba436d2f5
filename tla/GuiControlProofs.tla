--------------------------- MODULE GuiControlProofs ---------------------------
(***************************************************************************)
(* Proofs about GuiControl for every capacity of the command queue, every  *)
(* batch no longer than it, and any number of revokes.                     *)
(***************************************************************************)
EXTENDS GuiControl, SequenceTheorems, TLAPS

(* The command queue. *)

\* What an Arm expects and the epoch of an Action were revisions, and no epoch is the
\* revision of a local input.
Known(q, rev, t) ==
  \A i \in 1 .. Len(q) : /\ q[i].op = "Arm" => q[i].expected <= rev
                         /\ q[i].op = "Action" => q[i].epoch <= rev /\ q[i].epoch # t

\* An Arm that may still succeed is not in this batch of n, or behind a Disarm.
Guarded(q, n, f) ==
  \A i \in 1 .. Len(q) :
    q[i].op = "Arm" /\ q[i].expected >= f => i > n \/ \E j \in 1 .. i - 1 : q[j].op = "Disarm"

\* So is the next Arm that is posted.
Cleaner(q, n) == n <= Len(q) \/ \E j \in 1 .. Len(q) : q[j].op = "Disarm"

(* The inductive invariant. *)

ArmPlace == {"cas", "store", "recheck", "reply"}
ActPlace == {"apply", "send"}
Revoking == gui.at \in {"r1", "r2"}

\* The command in hand is one of the place's kind, after a revoke too, which refuses an Arm.
Kind ==
  /\ Revoking /\ gui.then = "reply" => ~gui.ok
  /\ gui.at \in ArmPlace \/ (Revoking /\ gui.then = "reply") => gui.cmd.op = "Arm"
  /\ gui.at \in ActPlace \/ (Revoking /\ gui.then = "apply") => gui.cmd.op = "Action"

\* The Arm in hand has moved the revision.
Granting == gui.at \in {"store", "recheck"} \/ (gui.at = "reply" /\ gui.ok)

\* Nobody knows an epoch that was not granted, or one that a local input ended.
Epoch(e) == e <= revision /\ e # touch
Epochs ==
  /\ Known(queue, revision, touch)
  /\ gui.cmd.op = "Action" => Epoch(gui.cmd.epoch)
  /\ gui.cmd.op = "Arm" => gui.cmd.expected <= revision
  /\ Granting => Epoch(gui.cmd.expected + 1)
  /\ lease # 0 => Epoch(lease)
  /\ answer \notin {NoArm, Refusal} => Epoch(answer)
  /\ fence <= revision
  /\ touch <= IF Revoking THEN revision + 1 ELSE revision

\* What the agent waits for, and what it has when it acts.
Waits ==
  /\ waiting # NoArm \/ answer # NoArm => agent.at = "wait"
  /\ agent.at = "act" => lease # 0

\* A revoke takes armed away, and with it the keys of the lease.
Revokes ==
  /\ gui.at \in {"r2", "closing", "gone"} \/ (gui.at = "reply" /\ ~gui.ok) => ~armed
  /\ (Revoking /\ gui.then \notin {"get", "apply"}) \/ (gui.at = "reply" /\ ~gui.ok) => held = {}
  /\ armed /\ agent.at \in {"r2", "post", "gone"}
       => gui.at \in {"recheck", "reply"} \/ (gui.at = "r1" /\ held = {})

\* The Arm that the agent waits for has moved the revision last.
Grants ==
  Granting => /\ revision > gui.cmd.expected
              /\ waiting = gui.cmd.expected => revision = gui.cmd.expected + 1 /\ fence <= gui.cmd.expected

\* An armed session, when no Arm or revoke is under way, is the agent's.
Settled == armed /\ gui.at \notin {"store", "recheck", "reply", "r1"}
Leases ==
  Settled /\ agent.at \in {"loop", "wait", "act"}
    => /\ revision \in {lease, answer}
       /\ answer \notin {NoArm, Refusal} => revision = answer

\* At most one late input.
Lates ==
  /\ gui.at = "send" => /\ gui.cmd.epoch > touch /\ late = 0
                        /\ armed => revision = gui.cmd.epoch
  /\ late <= 1 /\ (late # 0 => ~armed)

\* Keys of a revoked lease are down, or may come down.
Clean == \A e \in held : e >= fence
Dirty == ~Clean \/ (gui.at = "send" /\ gui.cmd.epoch < fence)
Keys ==
  /\ armed /\ gui.at \notin {"recheck", "reply"} => Clean
  /\ gui.at = "cas" \/ Granting => Clean \/ fence > gui.cmd.expected
  /\ Dirty /\ gui.at \in {"batch", "send"}
       => /\ Guarded(queue, gui.left, fence)
          /\ agent.at \in {"loop", "wait", "act"} /\ ~closed => Cleaner(queue, gui.left)

IInv == TypeOK /\ Kind /\ Epochs /\ Waits /\ Revokes /\ Grants /\ Leases /\ Lates /\ Keys
-----------------------------------------------------------------------------
(* The operators on the queue. *)

\* The commands of a queue that grows.
LEMMA Appended ==
  ASSUME NEW q \in Seq(Command), NEW c \in Command
  PROVE  /\ Append(q, c) \in Seq(Command) /\ Len(q) \in Nat /\ Len(Append(q, c)) = Len(q) + 1
         /\ Append(q, c)[Len(q) + 1] = c
         /\ \A i \in 1 .. Len(q) : Append(q, c)[i] = q[i]
BY AppendProperties, LenProperties

\* A command joins the queue.
LEMMA KnownAppend ==
  ASSUME NEW q \in Seq(Command), NEW c \in Command, NEW rev, NEW t, Known(q, rev, t),
         c.op = "Arm" => c.expected <= rev,
         c.op = "Action" => c.epoch <= rev /\ c.epoch # t
  PROVE  Known(Append(q, c), rev, t)
<1> DEFINE a == Append(q, c)
<1>1. /\ Len(q) \in Nat /\ Len(a) = Len(q) + 1 /\ a[Len(q) + 1] = c
      /\ \A i \in 1 .. Len(q) : a[i] = q[i]
  BY Appended
<1> HIDE DEF a
<1>2. \A i \in 1 .. Len(a) : i \in 1 .. Len(q) \/ i = Len(q) + 1
  BY <1>1
<1>3. Known(a, rev, t)
  BY <1>1, <1>2 DEF Known
<1> QED
  BY <1>3 DEF a

\* An Arm that joins is outside the batch, or behind a Disarm.
LEMMA GuardedAppend ==
  ASSUME NEW q \in Seq(Command), NEW c \in Command, NEW n \in Nat, NEW f \in Nat, Guarded(q, n, f),
         c.op = "Arm" => Cleaner(q, n)
  PROVE  Guarded(Append(q, c), n, f)
<1> DEFINE a == Append(q, c)
<1>1. /\ Len(q) \in Nat /\ Len(a) = Len(q) + 1 /\ a[Len(q) + 1] = c
      /\ \A i \in 1 .. Len(q) : a[i] = q[i]
  BY Appended
<1> HIDE DEF a
<1>2. ASSUME NEW i \in 1 .. Len(a), a[i].op = "Arm", a[i].expected >= f
      PROVE  i > n \/ \E j \in 1 .. i - 1 : a[j].op = "Disarm"
  <2>1. CASE i \in 1 .. Len(q)
    <3>1. i > n \/ \E j \in 1 .. i - 1 : q[j].op = "Disarm"
      BY <1>1, <1>2, <2>1 DEF Guarded
    <3>2. \A j \in 1 .. i - 1 : a[j] = q[j]
      BY <1>1, <2>1
    <3> QED
      BY <3>1, <3>2
  <2>2. CASE i = Len(q) + 1
    <3>1. n <= Len(q) \/ \E j \in 1 .. Len(q) : q[j].op = "Disarm"
      BY <1>1, <1>2, <2>2 DEF Cleaner
    <3>2. \A j \in 1 .. Len(q) : a[j] = q[j] /\ j \in 1 .. i - 1
      BY <1>1, <2>2
    <3> QED
      BY <1>1, <2>2, <3>1, <3>2
  <2> QED
    BY <1>1, <2>1, <2>2
<1>3. Guarded(a, n, f)
  BY <1>2 DEF Guarded
<1> QED
  BY <1>3 DEF a

\* Appending keeps the queue a cleaner, and a Disarm makes it one.
LEMMA CleanerAppend ==
  ASSUME NEW q \in Seq(Command), NEW c \in Command, NEW n \in Nat, Cleaner(q, n) \/ c.op = "Disarm"
  PROVE  Cleaner(Append(q, c), n)
<1> DEFINE a == Append(q, c)
<1>1. /\ Len(q) \in Nat /\ Len(a) = Len(q) + 1 /\ a[Len(q) + 1] = c
      /\ \A i \in 1 .. Len(q) : a[i] = q[i]
  BY Appended
<1> HIDE DEF a
<1>2. Len(q) + 1 \in 1 .. Len(a) /\ \A i \in 1 .. Len(q) : i \in 1 .. Len(a)
  BY <1>1
<1>3. Cleaner(a, n)
  BY <1>1, <1>2 DEF Cleaner
<1> QED
  BY <1>3 DEF a

\* The first command of a queue and the ones behind it.
LEMMA Taken ==
  ASSUME NEW q \in Seq(Command), q # <<>>
  PROVE  /\ Len(q) \in Nat \ {0} /\ Head(q) = q[1] /\ Head(q) \in Command
         /\ Tail(q) \in Seq(Command) /\ Len(Tail(q)) = Len(q) - 1
         /\ \A i \in 1 .. Len(q) - 1 : Tail(q)[i] = q[i + 1]
BY HeadTailProperties, EmptySeq

\* The first command is taken.
LEMMA KnownTail ==
  ASSUME NEW q \in Seq(Command), q # <<>>, NEW rev, NEW t, Known(q, rev, t)
  PROVE  /\ Known(Tail(q), rev, t)
         /\ Head(q).op = "Arm" => Head(q).expected <= rev
         /\ Head(q).op = "Action" => Head(q).epoch <= rev /\ Head(q).epoch # t
<1> DEFINE a == Tail(q)
<1>1. /\ Len(q) \in Nat \ {0} /\ Head(q) = q[1] /\ Len(a) = Len(q) - 1
      /\ \A i \in 1 .. Len(q) - 1 : a[i] = q[i + 1]
  BY Taken
<1> HIDE DEF a
<1>2. 1 \in 1 .. Len(q) /\ \A i \in 1 .. Len(a) : i + 1 \in 1 .. Len(q) /\ a[i] = q[i + 1]
  BY <1>1
<1>3. Known(a, rev, t)
  BY <1>2 DEF Known
<1> QED
  BY <1>1, <1>2, <1>3 DEF Known, a

\* The batch is shorter by the command taken; an Arm at the head of a guarded queue is stale.
LEMMA GuardedTail ==
  ASSUME NEW q \in Seq(Command), q # <<>>, NEW n \in Nat \ {0}, NEW f \in Nat, Guarded(q, n, f)
  PROVE  /\ Head(q).op # "Disarm" => Guarded(Tail(q), n - 1, f)
         /\ Head(q).op = "Arm" => ~(Head(q).expected >= f)
<1> DEFINE a == Tail(q)
<1>1. /\ Len(q) \in Nat \ {0} /\ Head(q) = q[1] /\ Len(a) = Len(q) - 1
      /\ \A i \in 1 .. Len(q) - 1 : a[i] = q[i + 1]
  BY Taken
<1> HIDE DEF a
<1>2. 1 \in 1 .. Len(q) /\ \A i \in 1 .. Len(a) : i + 1 \in 1 .. Len(q) /\ a[i] = q[i + 1]
  BY <1>1
<1>3. Head(q).op = "Arm" => ~(Head(q).expected >= f)
  <2>1. \A j \in 1 .. 1 - 1 : FALSE
    OBVIOUS
  <2> QED
    BY <1>1, <1>2, <2>1 DEF Guarded
<1>4. ASSUME Head(q).op # "Disarm", NEW i \in 1 .. Len(a), a[i].op = "Arm", a[i].expected >= f
      PROVE  i > n - 1 \/ \E j \in 1 .. i - 1 : a[j].op = "Disarm"
  <2>1. i + 1 > n \/ \E j \in 1 .. (i + 1) - 1 : q[j].op = "Disarm"
    BY <1>2, <1>4 DEF Guarded
  <2>2. ASSUME NEW j \in 1 .. (i + 1) - 1, q[j].op = "Disarm"
        PROVE  \E k \in 1 .. i - 1 : a[k].op = "Disarm"
    <3>1. j # 1
      BY <1>1, <1>4, <2>2
    <3>2. j - 1 \in 1 .. i - 1 /\ a[j - 1] = q[j]
      BY <1>1, <3>1
    <3> QED
      BY <2>2, <3>2
  <2> QED
    BY <2>1, <2>2
<1>5. Head(q).op # "Disarm" => Guarded(a, n - 1, f)
  BY <1>4 DEF Guarded
<1> QED
  BY <1>3, <1>5 DEF a

\* Anything but a Disarm is taken.
LEMMA CleanerTail ==
  ASSUME NEW q \in Seq(Command), q # <<>>, NEW n \in Nat \ {0}, Cleaner(q, n), Head(q).op # "Disarm"
  PROVE  Cleaner(Tail(q), n - 1)
<1> DEFINE a == Tail(q)
<1>1. /\ Len(q) \in Nat \ {0} /\ Head(q) = q[1] /\ Len(a) = Len(q) - 1
      /\ \A i \in 1 .. Len(q) - 1 : a[i] = q[i + 1]
  BY Taken
<1> HIDE DEF a
<1>2. CASE n <= Len(q)
  BY <1>1, <1>2 DEF Cleaner, a
<1>3. ASSUME NEW j \in 1 .. Len(q), q[j].op = "Disarm"
      PROVE  Cleaner(a, n - 1)
  <2>1. j # 1
    BY <1>1, <1>3
  <2>2. j - 1 \in 1 .. Len(a) /\ a[j - 1] = q[j]
    BY <1>1, <2>1
  <2> QED
    BY <1>3, <2>2 DEF Cleaner
<1> QED
  BY <1>2, <1>3 DEF Cleaner, a

\* A revoke makes every Arm of the queue stale, and no epoch of it a new one.
LEMMA RevokedQueue ==
  ASSUME NEW q \in Seq(Command), NEW rev \in Nat, NEW t, Known(q, rev, t)
  PROVE  /\ Known(q, rev + 1, t) /\ Known(q, rev, rev + 1)
         /\ \A n \in Nat : Guarded(q, n, rev + 1)
<1>1. \A i \in 1 .. Len(q) : q[i] \in Command
  BY ElementOfSeq
<1>2. \A i \in 1 .. Len(q) : /\ q[i].op = "Arm" => q[i].expected \in Nat
                             /\ q[i].op = "Action" => q[i].epoch \in Nat
  BY <1>1 DEF Command, Simple, Rev
<1> QED
  BY <1>2 DEF Known, Guarded

\* An empty queue.
LEMMA EmptyQueue == \A rev, t, n, f : Known(<<>>, rev, t) /\ Guarded(<<>>, n, f)
BY DEF Known, Guarded
-----------------------------------------------------------------------------
(* The initial state and the steps of the agent. *)

\* The bounds, one by one.
LEMMA Bounds ==
  QueueCap \in Nat \ {0} /\ Batch \in Nat \ {0} /\ Batch <= QueueCap /\ MaxRev \in Nat /\ NoArm \notin Nat
BY BatchFitsQueue

\* The fields of the records.
LEMMA Fields ==
  ASSUME TypeOK
  PROVE  /\ revision \in Nat /\ lease \in Nat /\ touch \in Nat /\ fence \in Nat /\ late \in Nat
         /\ waiting \in Nat \cup {NoArm} /\ answer \in Nat \cup {NoArm} /\ held \subseteq Nat
         /\ queue \in Seq(Command) /\ Len(queue) \in Nat /\ Len(queue) <= QueueCap
         /\ gui.left \in Nat /\ gui.left <= Batch /\ gui.ok \in BOOLEAN /\ gui.cmd \in Command
         /\ gui.cmd.op = "Arm" => gui.cmd.expected \in Nat
         /\ gui.cmd.op = "Action" => gui.cmd.epoch \in Nat
<1>1. gui.cmd \in Command /\ gui.left \in 0 .. Batch /\ gui.ok \in BOOLEAN
  BY DEF TypeOK
<1>2. /\ gui.cmd.op = "Arm" => gui.cmd.expected \in Nat
      /\ gui.cmd.op = "Action" => gui.cmd.epoch \in Nat
  BY <1>1 DEF Command, Simple, Rev
<1>3. queue \in Seq(Command) /\ Len(queue) \in Nat
  BY LenProperties DEF TypeOK
<1> QED
  BY <1>1, <1>2, <1>3, Bounds DEF TypeOK, Rev

\* Nothing is armed, queued or held at first.
LEMMA InitIInv == Init => IInv
<1> SUFFICES ASSUME Init PROVE IInv
  OBVIOUS
<1>1. Nothing \in Command /\ Nothing.op = "none"
  BY DEF Nothing, Command, Simple
<1>2. TypeOK
  <2>1. /\ queue \in Seq(Command) /\ Len(queue) <= QueueCap /\ held \subseteq Rev
        /\ {revision, lease, touch, fence, late} \subseteq Nat
    BY Bounds DEF Init
  <2>2. gui.left \in 0 .. Batch
    BY Bounds DEF Init
  <2> QED
    BY <1>1, <2>1, <2>2 DEF Init, TypeOK, Rev
<1>3. Known(queue, revision, touch)
  BY EmptyQueue DEF Init
<1>4. Kind /\ Waits /\ Revokes /\ Grants /\ Leases
  BY <1>1, Bounds DEF Init, Kind, Waits, Revokes, Grants, Leases, Settled, ArmPlace, ActPlace, Revoking,
                      Granting
<1>5. Epochs /\ Lates /\ Keys
  BY <1>1, <1>3, Bounds DEF Init, Epochs, Lates, Keys, Epoch, Granting, Revoking, Clean, Dirty, Refusal
<1> QED
  BY <1>2, <1>4, <1>5 DEF IInv

AgentRecord == [at : {"loop", "wait", "act", "r1", "r2", "post", "gone"}, mode : {"disarm", "end", "drop"}]

\* The agent goes on in its loop, acts or begins a revoke, and posts nothing.
LEMMA AgentMoves ==
  ASSUME IInv, UNCHANGED <<safety, queue, gui, backend, lease, waiting, answer, history>>,
         ready' \in BOOLEAN, agent' \in AgentRecord,
         \/ agent' = agent
         \/ /\ agent.at \in {"loop", "act"} /\ agent'.at \in {"loop", "act", "r1"}
            /\ agent'.at = "act" => lease # 0
  PROVE  IInv'
<1> USE DEF safety, backend, history
<1>1. TypeOK'
  BY DEF IInv, TypeOK, AgentRecord
<1>2. Kind' /\ Epochs' /\ Grants' /\ Lates'
  BY DEF IInv, Kind, Epochs, Epoch, Grants, Granting, Revoking, Lates
<1>3. Waits' /\ Revokes' /\ Leases'
  BY DEF IInv, Waits, Revokes, Leases, Settled, Revoking
<1>4. Keys'
  BY DEF IInv, Keys, Dirty, Clean, Granting
<1> QED
  BY <1>1, <1>2, <1>3, <1>4 DEF IInv

\* The steps of the agent that touch neither the queue nor the atomics.
LEMMA LoopStep ==
  ASSUME IInv,
         \/ \E ok \in BOOLEAN : Status(ok) \/ Input(ok) \/ Tick(~ok)
         \/ Stale \/ Release \/ EndLoop
  PROVE  IInv'
<1> USE DEF loop
<1>0. agent \in AgentRecord /\ ready \in BOOLEAN
  BY DEF IInv, TypeOK, AgentRecord
<1>1. \A m \in {"disarm", "end"} : [at |-> "r1", mode |-> m] \in AgentRecord
  BY DEF AgentRecord
<1>2. ASSUME NEW ok \in BOOLEAN, Status(ok)
      PROVE  IInv'
  BY <1>0, <1>1, <1>2, AgentMoves DEF Status
<1>3. ASSUME NEW ok \in BOOLEAN, Input(ok)
      PROVE  IInv'
  <2>1. CASE lease # 0 /\ agent' = [agent EXCEPT !.at = "act"]
    <3>1. agent' \in AgentRecord /\ agent'.at = "act"
      BY <1>0, <2>1 DEF AgentRecord
    <3> QED
      BY <1>0, <1>3, <2>1, <3>1, AgentMoves DEF Input
  <2>2. CASE agent' = [at |-> "r1", mode |-> "disarm"]
    BY <1>0, <1>1, <1>3, <2>2, AgentMoves DEF Input
  <2> QED
    BY <1>3, <2>1, <2>2 DEF Input
<1>4. ASSUME NEW ok \in BOOLEAN, Tick(ok)
      PROVE  IInv'
  BY <1>0, <1>1, <1>4, AgentMoves DEF Tick
<1>5. CASE Stale
  BY <1>0, <1>5, AgentMoves DEF Stale
<1>6. CASE Release
  BY <1>0, <1>1, <1>6, AgentMoves DEF Release
<1>7. CASE EndLoop
  BY <1>0, <1>1, <1>7, AgentMoves DEF EndLoop
<1>8. \A ok \in BOOLEAN : (~ok) \in BOOLEAN
  OBVIOUS
<1> QED
  BY <1>2, <1>3, <1>4, <1>5, <1>6, <1>7, <1>8
Busy == {"loop", "wait", "act"}

\* A command is posted: an Arm only by an agent whose Disarm, if it sent one, is in the
\* queue or found the queue full.
LEMMA Posted ==
  ASSUME IInv, NEW c \in Command, queue' = Append(queue, c), Len(queue) < QueueCap,
         UNCHANGED <<safety, gui, backend, history>>,
         c.op = "Arm" => c.expected <= revision /\ agent.at \in Busy /\ ~closed,
         c.op = "Action" => Epoch(c.epoch),
         agent'.at \in Busy => agent.at \in Busy \/ c.op = "Disarm"
  PROVE  /\ queue' \in Seq(Command) /\ Len(queue') <= QueueCap /\ Known(queue', revision, touch)
         /\ Dirty /\ gui.at \in {"batch", "send"}
              => /\ Guarded(queue', gui.left, fence)
                 /\ agent'.at \in Busy /\ ~closed => Cleaner(queue', gui.left)
<1>0. TypeOK /\ Known(queue, revision, touch) /\ Keys
  BY DEF IInv, Epochs
<1>1. queue \in Seq(Command) /\ Len(queue) \in Nat /\ gui.left \in Nat /\ fence \in Nat
  BY <1>0, Fields
<1>2. queue' \in Seq(Command) /\ Len(queue') = Len(queue) + 1
  BY <1>1, Appended
<1>3. Len(queue') <= QueueCap
  BY <1>1, <1>2, Bounds
<1>4. Known(queue', revision, touch)
  BY <1>0, <1>1, KnownAppend DEF Epoch
<1>5. ASSUME Dirty, gui.at \in {"batch", "send"}
      PROVE  /\ Guarded(queue', gui.left, fence)
             /\ agent'.at \in Busy /\ ~closed => Cleaner(queue', gui.left)
  <2>1. /\ Guarded(queue, gui.left, fence)
        /\ agent.at \in Busy /\ ~closed => Cleaner(queue, gui.left)
    BY <1>0, <1>5 DEF Keys, Busy
  <2>2. Guarded(queue', gui.left, fence)
    BY <1>1, <2>1, GuardedAppend
  <2> QED
    BY <1>1, <2>1, <2>2, CleanerAppend
<1> QED
  BY <1>2, <1>3, <1>4, <1>5

\* What is left of the invariant when a command was posted.
LEMMA PostStep ==
  ASSUME IInv, NEW c \in Command, Posts(c), UNCHANGED <<safety, gui, backend, history>>,
         c.op = "Arm" => c.expected <= revision /\ agent.at \in Busy,
         c.op = "Action" => Epoch(c.epoch),
         agent'.at \in Busy => agent.at \in Busy \/ c.op = "Disarm",
         agent' \in AgentRecord, ready' \in BOOLEAN, lease' \in Nat,
         waiting' \in Nat \cup {NoArm}, answer' \in Nat \cup {NoArm},
         lease' # 0 => Epoch(lease'), answer' \notin {NoArm, Refusal} => Epoch(answer'),
         Waits', Revokes', Grants', Leases'
  PROVE  IInv'
<1> USE DEF safety, backend, history
<1>1. queue' = Append(queue, c) /\ Len(queue) < QueueCap /\ ~closed
  BY DEF Posts
<1>2. /\ queue' \in Seq(Command) /\ Len(queue') <= QueueCap /\ Known(queue', revision, touch)
      /\ Dirty /\ gui.at \in {"batch", "send"}
              => /\ Guarded(queue', gui.left, fence)
                 /\ agent'.at \in Busy /\ ~closed => Cleaner(queue', gui.left)
  BY <1>1, Posted
<1>3. TypeOK'
  BY <1>2 DEF IInv, TypeOK, AgentRecord, Rev
<1>4. Kind' /\ Lates'
  BY DEF IInv, Kind, Revoking, Lates
<1>5. Epochs'
  BY <1>2 DEF IInv, Epochs, Epoch, Granting, Revoking
<1>6. Keys'
  BY <1>2 DEF IInv, Keys, Dirty, Clean, Granting, Busy
<1> QED
  BY <1>3, <1>4, <1>5, <1>6 DEF IInv

\* The steps of the agent that post.
LEMMA PostingStep ==
  ASSUME IInv, Presented \/ Acquire \/ Act
  PROVE  IInv'
<1> USE DEF loop
<1>0. agent \in AgentRecord /\ ready \in BOOLEAN /\ TypeOK /\ Waits /\ Revokes /\ Grants /\ Leases
  BY DEF IInv, TypeOK, AgentRecord
<1>f. /\ revision \in Nat /\ lease \in Nat /\ waiting \in Nat \cup {NoArm} /\ answer \in Nat \cup {NoArm}
      /\ gui.cmd.op = "Arm" => gui.cmd.expected \in Nat
  BY <1>0, Fields
<1>e. /\ lease # 0 => Epoch(lease)
      /\ answer \notin {NoArm, Refusal} => Epoch(answer)
  BY DEF IInv, Epochs
<1>1. \A m \in {"disarm", "end"} : [at |-> "r1", mode |-> m] \in AgentRecord
  BY DEF AgentRecord
<1>2. CASE Presented
  <2>1. CASE Posts([op |-> "Frame"]) /\ UNCHANGED agent
    <3>1. [op |-> "Frame"] \in Command
      BY DEF Command, Simple
    <3>2. Waits' /\ Revokes' /\ Grants' /\ Leases'
      BY <1>0, <1>2, <2>1 DEF Presented, safety, backend, history, Waits, Revokes, Revoking, Grants, Granting,
                              Leases, Settled
    <3> QED
      BY <1>0, <1>2, <1>f, <1>e, <2>1, <3>1, <3>2, PostStep DEF Presented, Epoch
  <2>2. CASE Refused /\ agent' = [at |-> "r1", mode |-> "end"]
    BY <1>0, <1>1, <1>2, <2>2, AgentMoves DEF Presented, Refused
  <2> QED
    BY <1>2, <2>1, <2>2 DEF Presented
<1>3. CASE Acquire
  <2> DEFINE c == [op |-> "Arm", expected |-> revision]
  <2>1. ASSUME Posts(c), waiting' = revision, answer' = NoArm, agent' = [agent EXCEPT !.at = "wait"]
        PROVE  IInv'
    <3>1. c \in Command /\ c.op = "Arm" /\ c.expected = revision
      BY <1>f DEF Command, Rev
    <3>2. agent' \in AgentRecord /\ agent'.at = "wait" /\ agent.at = "loop"
      BY <1>0, <1>3, <2>1 DEF AgentRecord, Acquire
    <3>3. UNCHANGED <<armed, revision, closed, gui, enabled, held, ready, lease, touch, fence, late>>
      BY <1>3 DEF Acquire, safety, backend, history
    <3>4. Waits' /\ Revokes'
      BY <1>0, <2>1, <3>2, <3>3 DEF Waits, Revokes, Revoking
    <3>5. Grants'
      BY <1>0, <1>f, <2>1, <3>3, Bounds DEF Grants, Granting, IInv, Kind, ArmPlace
    <3>6. answer = NoArm
      BY <1>0, <3>2 DEF Waits
    <3>7. Leases'
      BY <1>0, <1>f, <2>1, <3>2, <3>3, <3>6, Bounds DEF Leases, Settled
    <3> HIDE DEF c
    <3> QED
      BY <1>0, <1>f, <1>e, <2>1, <3>1, <3>2, <3>3, <3>4, <3>5, <3>7, PostStep
         DEF Busy, safety, backend, history, Epoch
  <2>2. CASE Refused /\ agent' = [at |-> "r1", mode |-> "disarm"] /\ UNCHANGED <<waiting, answer>>
    BY <1>0, <1>1, <1>3, <2>2, AgentMoves DEF Acquire, Refused
  <2> QED
    BY <1>3, <2>1, <2>2 DEF Acquire
<1>4. CASE Act
  <2> DEFINE c == [op |-> "Action", epoch |-> lease]
  <2>1. CASE Posts(c) /\ agent' = [agent EXCEPT !.at = "loop"]
    <3>1. c \in Command /\ c.op = "Action" /\ c.epoch = lease
      BY <1>f DEF Command, Rev
    <3>2. agent' \in AgentRecord /\ agent'.at = "loop" /\ agent.at = "act" /\ lease # 0
      BY <1>0, <1>4, <2>1 DEF AgentRecord, Act, Waits
    <3>3. UNCHANGED <<armed, revision, closed, gui, enabled, held, ready, lease, waiting, answer, touch, fence,
                      late>>
      BY <1>4 DEF Act, safety, backend, history
    <3>4. Waits' /\ Revokes' /\ Grants' /\ Leases'
      BY <1>0, <3>2, <3>3 DEF Waits, Revokes, Revoking, Grants, Granting, Leases, Settled
    <3> HIDE DEF c
    <3> QED
      BY <1>0, <1>f, <1>e, <2>1, <3>1, <3>2, <3>3, <3>4, PostStep DEF Busy, safety, backend, history, Epoch
  <2>2. CASE UNCHANGED queue /\ agent' = [at |-> "r1", mode |-> "end"]
    BY <1>0, <1>1, <1>4, <2>2, AgentMoves DEF Act
  <2> QED
    BY <1>4, <2>1, <2>2 DEF Act
<1> QED
  BY <1>2, <1>3, <1>4
\* The wait of the agent ends, with the answer or without.
LEMMA WaitStep ==
  ASSUME IInv, ArmAnswered \/ ArmTimeout
  PROVE  IInv'
<1>0. agent \in AgentRecord /\ ready \in BOOLEAN /\ TypeOK /\ agent.at = "wait"
  BY DEF IInv, TypeOK, AgentRecord, ArmAnswered, ArmTimeout
<1>f. /\ revision \in Nat /\ lease \in Nat /\ answer \in Nat \cup {NoArm}
      /\ gui.cmd.op = "Arm" => gui.cmd.expected \in Nat
  BY <1>0, Fields
<1>1. /\ UNCHANGED <<armed, revision, closed, queue, gui, enabled, held, ready, touch, fence, late>>
      /\ waiting' = NoArm /\ answer' = NoArm
      /\ \/ agent' = [at |-> "r1", mode |-> "disarm"] /\ lease' = lease
         \/ /\ agent' = [agent EXCEPT !.at = "loop"]
            /\ lease' = answer /\ answer \notin {NoArm, Refusal}
  BY DEF ArmAnswered, ArmTimeout, safety, backend, history, loop
<1>2. /\ agent' \in AgentRecord /\ agent'.at \in {"r1", "loop"} /\ lease' \in Nat
      /\ agent'.at = "r1" => lease' = lease
      /\ agent'.at = "loop" => lease' = answer /\ answer \notin {NoArm, Refusal}
  BY <1>0, <1>1, <1>f DEF AgentRecord
<1>3. TypeOK'
  BY <1>0, <1>1, <1>2 DEF TypeOK, AgentRecord, Rev
<1>4. Kind' /\ Lates' /\ Waits' /\ Revokes'
  BY <1>0, <1>1, <1>2 DEF IInv, Kind, Revoking, Lates, Waits, Revokes
<1>5. Epochs'
  BY <1>1, <1>2 DEF IInv, Epochs, Epoch, Granting, Revoking
<1>6. Grants'
  BY <1>1, <1>f, Bounds DEF IInv, Grants, Granting, Kind, ArmPlace
<1>7. Leases'
  BY <1>0, <1>1, <1>2 DEF IInv, Leases, Settled
<1>8. Keys'
  BY <1>0, <1>1, <1>2 DEF IInv, Keys, Dirty, Clean, Granting
<1> QED
  BY <1>3, <1>4, <1>5, <1>6, <1>7, <1>8 DEF IInv

\* The two halves of a revoke by the agent.
LEMMA AgentRevokeStep ==
  ASSUME IInv, AgentRevoke
  PROVE  IInv'
<1>0. agent \in AgentRecord /\ TypeOK /\ UNCHANGED <<queue, gui, closed, enabled, held, ready, lease,
                                                     waiting, answer, touch, late>>
  BY DEF IInv, TypeOK, AgentRecord, AgentRevoke, backend, loop
<1>f. /\ revision \in Nat /\ lease \in Nat /\ touch \in Nat /\ fence \in Nat /\ late \in Nat
      /\ waiting \in Nat \cup {NoArm} /\ answer \in Nat \cup {NoArm} /\ held \subseteq Nat
      /\ queue \in Seq(Command) /\ gui.left \in Nat
      /\ gui.cmd.op = "Arm" => gui.cmd.expected \in Nat
      /\ gui.cmd.op = "Action" => gui.cmd.epoch \in Nat
  BY <1>0, Fields
<1>1. CASE agent.at = "r1" /\ armed' = FALSE /\ agent' = [agent EXCEPT !.at = "r2"]
           /\ UNCHANGED <<revision, fence>>
  <2>1. agent' \in AgentRecord /\ agent'.at = "r2"
    BY <1>0, <1>1 DEF AgentRecord
  <2>2. TypeOK'
    BY <1>0, <1>1, <2>1 DEF TypeOK, AgentRecord
  <2>3. Kind' /\ Epochs' /\ Waits' /\ Revokes'
    BY <1>0, <1>1, <2>1 DEF IInv, Kind, Revoking, Epochs, Epoch, Granting, Waits, Revokes
  <2>4. Grants' /\ Leases' /\ Lates'
    BY <1>0, <1>1, <2>1 DEF IInv, Grants, Granting, Leases, Settled, Lates
  <2>5. Keys'
    BY <1>0, <1>1, <2>1 DEF IInv, Keys, Dirty, Clean, Granting
  <2> QED
    BY <2>2, <2>3, <2>4, <2>5 DEF IInv
<1>2. CASE agent.at = "r2" /\ revision' = revision + 1 /\ fence' = revision'
           /\ agent' = [agent EXCEPT !.at = "post"] /\ UNCHANGED armed
  <2>1. agent' \in AgentRecord /\ agent'.at = "post" /\ waiting = NoArm /\ answer = NoArm
    BY <1>0, <1>2 DEF AgentRecord, IInv, Waits
  <2>2. TypeOK'
    BY <1>0, <1>f, <1>2, <2>1 DEF TypeOK, AgentRecord, Rev
  <2>3. /\ Known(queue', revision', touch') /\ Guarded(queue', gui'.left, fence')
    BY <1>0, <1>f, <1>2, RevokedQueue DEF IInv, Epochs
  <2>4. Kind' /\ Waits' /\ Revokes'
    BY <1>0, <1>2, <2>1 DEF IInv, Kind, Revoking, Waits, Revokes
  <2>5. Epochs'
    <3>1. \A e \in Nat : Epoch(e) => Epoch(e)'
      BY <1>0, <1>2, <1>f DEF Epoch
    <3>2. Granting => gui.cmd.expected + 1 \in Nat
      BY <1>f DEF IInv, Kind, ArmPlace, Granting
    <3>3. /\ Granting' => Epoch(gui.cmd.expected + 1)'
          /\ gui.cmd.op = "Action" => Epoch(gui.cmd.epoch)'
          /\ lease # 0 => Epoch(lease)'
      BY <1>0, <1>f, <3>1, <3>2 DEF IInv, Epochs, Granting
    <3> QED
      BY <1>0, <1>2, <1>f, <2>1, <2>3, <3>3 DEF IInv, Epochs, Revoking
  <2>6. Grants'
    BY <1>0, <1>2, <1>f, <2>1, Bounds DEF IInv, Grants, Granting, Kind, ArmPlace
  <2>7. Leases' /\ Lates'
    BY <1>0, <1>2, <2>1 DEF IInv, Leases, Lates, Revokes
  <2>8. Keys'
    <3>1. armed' /\ gui'.at \notin {"recheck", "reply"} => Clean'
      BY <1>0, <1>2 DEF IInv, Revokes, Clean
    <3>2. gui'.at = "cas" \/ Granting' => fence' > gui'.cmd.expected
      <4>1. gui.at = "cas" => gui.cmd.expected <= revision
        BY DEF IInv, Epochs, Kind, ArmPlace
      <4> QED
        BY <1>0, <1>2, <1>f, <4>1 DEF IInv, Grants, Granting, Kind, ArmPlace
    <3> QED
      BY <2>1, <2>3, <3>1, <3>2 DEF Keys
  <2> QED
    BY <2>2, <2>4, <2>5, <2>6, <2>7, <2>8 DEF IInv
<1> QED
  BY <1>1, <1>2 DEF AgentRevoke

\* The rest of disarm, and of the drop of the session.
LEMMA AgentDisarmStep ==
  ASSUME IInv, AgentDisarm \/ AgentDrop
  PROVE  IInv'
<1>0. agent \in AgentRecord /\ ready \in BOOLEAN /\ TypeOK /\ agent.at = "post"
  BY DEF IInv, TypeOK, AgentRecord, AgentDisarm, AgentDrop
<1>f. /\ revision \in Nat /\ lease \in Nat /\ waiting = NoArm /\ answer = NoArm
      /\ queue \in Seq(Command) /\ Len(queue) \in Nat /\ Len(queue) <= QueueCap
      /\ gui.left \in Nat /\ gui.left <= Batch
  BY <1>0, Fields DEF IInv, Waits
<1>1. /\ UNCHANGED <<armed, revision, closed, gui, enabled, held, ready, waiting, answer, touch, fence, late>>
      /\ lease' \in {0, lease} /\ agent' \in AgentRecord /\ agent'.at \in {"r1", "loop", "gone"}
  BY <1>0 DEF AgentDisarm, AgentDrop, AgentRecord, safety, backend, loop, history
<1>2. /\ queue' \in Seq(Command) /\ Len(queue') <= QueueCap /\ Known(queue', revision, touch)
      /\ Dirty /\ gui.at \in {"batch", "send"}
           => /\ Guarded(queue', gui.left, fence)
              /\ agent'.at \in Busy /\ ~closed => Cleaner(queue', gui.left)
  <2>1. CASE AgentDisarm /\ Posts([op |-> "Disarm"])
    <3> DEFINE c == [op |-> "Disarm"]
    <3>1. c \in Command /\ c.op = "Disarm"
      BY DEF Command, Simple
    <3> HIDE DEF c
    <3>2. queue' = Append(queue, c) /\ Len(queue) < QueueCap
      BY <2>1 DEF Posts, c
    <3> QED
      BY <1>1, <3>1, <3>2, Posted DEF safety, backend, history
  <2>2. CASE AgentDrop /\ queue' = Append(queue, [op |-> "Stop"]) /\ Len(queue) < QueueCap
    <3> DEFINE c == [op |-> "Stop"]
    <3>1. c \in Command /\ c.op = "Stop"
      BY DEF Command, Simple
    <3> HIDE DEF c
    <3>2. agent'.at \notin Busy
      BY <1>0, <2>2 DEF AgentDrop, AgentRecord, Busy
    <3>3. queue' = Append(queue, c) /\ Len(queue) < QueueCap
      BY <2>2 DEF c
    <3> QED
      BY <1>1, <3>1, <3>2, <3>3, Posted DEF safety, backend, history
  <2>3. CASE queue' = queue /\ (AgentDrop \/ Refused)
    <3>1. /\ Known(queue, revision, touch)
          /\ Dirty /\ gui.at \in {"batch", "send"} => Guarded(queue, gui.left, fence)
      BY DEF IInv, Epochs, Keys
    <3>2. Refused /\ ~closed /\ gui.at \in {"batch", "send"} => Cleaner(queue, gui.left)
      BY <1>f, Bounds DEF Refused, Cleaner
    <3>3. AgentDrop => agent'.at \notin Busy
      BY <1>0 DEF AgentDrop, AgentRecord, Busy
    <3> QED
      BY <1>f, <2>3, <3>1, <3>2, <3>3
  <2> QED
    BY <2>1, <2>2, <2>3 DEF AgentDisarm, AgentDrop, Refused
<1>3. TypeOK'
  BY <1>0, <1>f, <1>1, <1>2 DEF TypeOK, AgentRecord, Rev
<1>4. Kind' /\ Lates' /\ Waits' /\ Revokes' /\ Grants'
  BY <1>0, <1>f, <1>1 DEF IInv, Kind, Revoking, Lates, Waits, Revokes, Grants, Granting
<1>5. Epochs'
  BY <1>1, <1>2 DEF IInv, Epochs, Epoch, Granting, Revoking
<1>6. Leases'
  BY <1>0, <1>f, <1>1 DEF IInv, Leases, Settled, Revokes
<1>7. Keys'
  BY <1>1, <1>2 DEF IInv, Keys, Dirty, Clean, Granting, Busy
<1> QED
  BY <1>3, <1>4, <1>5, <1>6, <1>7 DEF IInv
-----------------------------------------------------------------------------
(* The steps of the safety thread. *)

GuiRecord == [at : {"get", "batch", "cas", "store", "recheck", "reply", "apply", "send", "r1", "r2",
                    "closing", "gone"},
              then : {"get", "batch", "reply", "apply", "closing"},
              cmd : Command, left : 0 .. Batch, ok : BOOLEAN]

\* The thread releases every key and begins a revoke of its own.
LEMMA Disarms ==
  ASSUME IInv, UNCHANGED <<revision, agent, loop, waiting, answer, touch, fence>>,
         enabled' = FALSE, held' = {}, armed' \in {armed, FALSE}, closed' \in BOOLEAN,
         queue' \in Seq(Command), Len(queue') <= QueueCap, Known(queue', revision, touch),
         ~Revoking, gui' \in GuiRecord, gui'.at = "r1", gui'.then \in {"get", "batch", "reply", "closing"},
         gui'.then = "reply" => gui'.cmd.op = "Arm" /\ ~gui'.ok,
         gui'.cmd.op = "Arm" => gui'.cmd.expected <= revision,
         gui'.cmd.op = "Action" => Epoch(gui'.cmd.epoch),
         late' \in Nat, late' <= 1, late' # 0 => ~armed'
  PROVE  IInv'
<1> USE DEF loop
<1>f. revision \in Nat /\ touch \in Nat
  BY Fields DEF IInv
<1>1. TypeOK'
  BY DEF IInv, TypeOK, GuiRecord, Rev
<1>2. Kind' /\ Waits' /\ Revokes' /\ Grants'
  BY DEF IInv, Kind, Revoking, ArmPlace, ActPlace, Waits, Revokes, Grants, Granting
<1>3. Epochs'
  BY <1>f DEF IInv, Epochs, Epoch, Granting, Revoking
<1>4. Leases' /\ Lates'
  BY DEF Leases, Settled, Lates
<1>5. Keys'
  BY DEF Keys, Dirty, Clean, Granting
<1> QED
  BY <1>1, <1>2, <1>3, <1>4, <1>5 DEF IInv

\* The facts of a state that the steps of the thread use.
LEMMA GuiFacts ==
  ASSUME IInv
  PROVE  /\ gui \in GuiRecord /\ armed \in BOOLEAN /\ closed \in BOOLEAN /\ enabled \in BOOLEAN
         /\ gui.cmd.op = "Arm" => gui.cmd.expected <= revision
         /\ gui.cmd.op = "Action" => Epoch(gui.cmd.epoch)
         /\ late <= 1 /\ (late # 0 => ~armed)
         /\ queue \in Seq(Command) /\ Len(queue) <= QueueCap /\ Known(queue, revision, touch)
         /\ late \in Nat /\ Nothing \in Command /\ Nothing.op = "none"
<1>1. Nothing \in Command /\ Nothing.op = "none"
  BY DEF Nothing, Command, Simple
<1> QED
  BY <1>1 DEF IInv, TypeOK, GuiRecord, Epochs, Lates

\* A local input.
LEMMA TouchStep ==
  ASSUME IInv, LocalTouch
  PROVE  IInv'
<1>0. /\ UNCHANGED <<armed, revision, closed, enabled, held, queue, agent, ready, lease, waiting, answer, fence,
                     late>>
      /\ touch' = revision + 1 /\ gui' = RevokeThen(gui.at) /\ gui.at \in {"get", "apply"}
  BY DEF LocalTouch, safety, backend, shared, loop
<1>1. /\ gui' \in GuiRecord /\ gui'.at = "r1" /\ gui'.then = gui.at /\ gui'.cmd = gui.cmd
      /\ gui'.left = gui.left /\ gui'.ok = gui.ok
  BY <1>0, GuiFacts DEF RevokeThen, GuiRecord
<1>f. /\ revision \in Nat /\ lease \in Nat /\ fence \in Nat
      /\ answer \in Nat \cup {NoArm} /\ queue \in Seq(Command)
      /\ gui.cmd.op = "Action" => gui.cmd.epoch \in Nat
  BY Fields DEF IInv
<1>2. TypeOK'
  BY <1>0, <1>1, <1>f DEF IInv, TypeOK, GuiRecord, Rev
<1>3. Known(queue', revision', touch')
  BY <1>0, <1>f, RevokedQueue DEF IInv, Epochs
<1>4. Epochs'
  BY <1>0, <1>1, <1>3, <1>f DEF IInv, Epochs, Epoch, Granting, Revoking, Refusal
<1>5. Kind' /\ Waits' /\ Grants' /\ Leases' /\ Lates'
  BY <1>0, <1>1 DEF IInv, Kind, Revoking, ArmPlace, ActPlace, Waits, Grants, Granting, Leases, Settled, Lates
<1>6. Revokes'
  BY <1>0, <1>1 DEF IInv, Revokes, Revoking
<1>7. Keys'
  BY <1>0, <1>1 DEF IInv, Keys, Dirty, Clean, Granting
<1> QED
  BY <1>2, <1>4, <1>5, <1>6, <1>7 DEF IInv

\* The two halves of a revoke by the thread.
LEMMA GuiRevokeStep ==
  ASSUME IInv, GuiRevoke
  PROVE  IInv'
<1>0. UNCHANGED <<closed, enabled, held, queue, agent, ready, lease, waiting, answer, touch, late>>
  BY DEF GuiRevoke, backend, shared, loop
<1>f. /\ revision \in Nat /\ lease \in Nat /\ touch \in Nat /\ fence \in Nat /\ late \in Nat
      /\ waiting \in Nat \cup {NoArm} /\ answer \in Nat \cup {NoArm} /\ held \subseteq Nat
      /\ queue \in Seq(Command) /\ gui.left \in Nat
      /\ gui.cmd.op = "Arm" => gui.cmd.expected \in Nat
      /\ gui.cmd.op = "Action" => gui.cmd.epoch \in Nat
  BY Fields DEF IInv
<1>1. CASE gui.at = "r1" /\ armed' = FALSE /\ gui' = [gui EXCEPT !.at = "r2"] /\ UNCHANGED <<revision, fence>>
  <2>1. /\ gui' \in GuiRecord /\ gui'.at = "r2" /\ gui'.then = gui.then /\ gui'.cmd = gui.cmd
        /\ gui'.left = gui.left /\ gui'.ok = gui.ok
    BY <1>1, GuiFacts DEF GuiRecord
  <2>2. TypeOK'
    BY <1>0, <1>1, <2>1 DEF IInv, TypeOK, GuiRecord
  <2>3. Kind' /\ Epochs' /\ Waits' /\ Revokes'
    BY <1>0, <1>1, <2>1 DEF IInv, Kind, Revoking, ArmPlace, ActPlace, Epochs, Epoch, Granting, Waits, Revokes
  <2>4. Grants' /\ Leases' /\ Lates' /\ Keys'
    BY <1>0, <1>1, <2>1 DEF IInv, Grants, Granting, Leases, Settled, Lates, Keys
  <2> QED
    BY <2>2, <2>3, <2>4 DEF IInv
<1>2. CASE /\ gui.at = "r2" /\ revision' = revision + 1 /\ fence' = revision'
           /\ gui' = [gui EXCEPT !.at = gui.then, !.then = "get"] /\ UNCHANGED armed
  <2>1. /\ gui' \in GuiRecord /\ gui'.at = gui.then /\ gui'.cmd = gui.cmd
        /\ gui'.left = gui.left /\ gui'.ok = gui.ok
        /\ gui'.at \in {"get", "batch", "reply", "apply", "closing"}
    BY <1>2, GuiFacts DEF GuiRecord
  <2>2. TypeOK'
    BY <1>0, <1>2, <1>f, <2>1 DEF IInv, TypeOK, GuiRecord, Rev
  <2>3. Known(queue', revision', touch')
    BY <1>0, <1>f, <1>2, RevokedQueue DEF IInv, Epochs
  <2>4. ~armed /\ ~armed' /\ (gui'.at \notin {"get", "apply"} => held' = {})
    BY <1>0, <1>2, <2>1 DEF IInv, Revokes, Revoking
  <2>5. gui'.at = "reply" => ~gui'.ok
    BY <1>2, <2>1 DEF IInv, Kind, Revoking
  <2>6. Epochs'
    <3>1. \A e \in Nat : Epoch(e) => Epoch(e)'
      BY <1>0, <1>2, <1>f DEF Epoch
    <3>2. /\ gui'.cmd.op = "Action" => Epoch(gui.cmd.epoch)'
          /\ lease' # 0 => Epoch(lease)'
          /\ answer' \notin {NoArm, Refusal} => Epoch(answer)'
      BY <1>0, <1>f, <2>1, <3>1 DEF IInv, Epochs
    <3>3. ~Granting'
      BY <2>1, <2>5 DEF Granting
    <3> QED
      BY <1>0, <1>2, <1>f, <2>1, <2>3, <3>2, <3>3 DEF IInv, Epochs, Revoking
  <2>7. Kind' /\ Waits' /\ Grants'
    BY <1>0, <1>2, <2>1, <2>5 DEF IInv, Kind, Revoking, ArmPlace, ActPlace, Waits, Grants, Granting
  <2>8. Revokes' /\ Leases'
    BY <2>1, <2>4, <2>5 DEF Revokes, Revoking, Leases, Settled
  <2>9. Lates'
    BY <1>0, <2>1, <2>4 DEF IInv, Lates
  <2>10. Keys'
    BY <2>1, <2>4, <2>5 DEF Keys, Dirty, Clean, Granting
  <2> QED
    BY <2>2, <2>6, <2>7, <2>8, <2>9, <2>10 DEF IInv
<1> QED
  BY <1>1, <1>2 DEF GuiRevoke
\* The thread waits, wakes and ends a batch.
LEMMA MessageStep ==
  ASSUME IInv, Timer \/ Leave \/ Wake \/ BatchDone
  PROVE  IInv'
<1>0. UNCHANGED <<armed, revision, queue, agent, ready, lease, waiting, answer, touch, fence, late>>
  BY DEF Timer, Leave, Wake, BatchDone, safety, shared, loop, history
<1>g. /\ gui \in GuiRecord /\ armed \in BOOLEAN /\ closed \in BOOLEAN /\ enabled \in BOOLEAN
      /\ gui.cmd.op = "Arm" => gui.cmd.expected <= revision
      /\ gui.cmd.op = "Action" => Epoch(gui.cmd.epoch)
      /\ late <= 1 /\ (late # 0 => ~armed)
      /\ queue \in Seq(Command) /\ Len(queue) <= QueueCap /\ Known(queue, revision, touch)
      /\ late \in Nat
  BY GuiFacts
<1>1. \A k \in {"get", "closing"} :
        /\ RevokeThen(k) \in GuiRecord /\ RevokeThen(k).at = "r1" /\ RevokeThen(k).then = k
        /\ RevokeThen(k).cmd = gui.cmd
  BY <1>g DEF RevokeThen, GuiRecord
<1>2. ASSUME NEW k \in {"get", "closing"}, gui' = RevokeThen(k), Disarmed, gui.at \in {"get", "batch"},
             closed' \in BOOLEAN
      PROVE  IInv'
  BY <1>0, <1>1, <1>2, <1>g, Disarms DEF Disarmed, Revoking, loop
<1>3. ASSUME gui.at \in {"get", "batch"}, closed' = closed, gui' \in GuiRecord, gui'.at \in {"get", "batch"},
             gui'.cmd = gui.cmd, enabled' \in BOOLEAN, held' \in {held, {}},
             gui'.at = "batch" => held' = {} \/ armed
      PROVE  IInv'
  <2>1. TypeOK'
    BY <1>0, <1>3 DEF IInv, TypeOK, GuiRecord
  <2>2. Kind' /\ Waits' /\ Grants' /\ Lates'
    BY <1>0, <1>3 DEF IInv, Kind, Revoking, ArmPlace, ActPlace, Waits, Grants, Granting, Lates
  <2>3. Epochs'
    BY <1>0, <1>3 DEF IInv, Epochs, Epoch, Granting, Revoking
  <2>4. Revokes' /\ Leases'
    BY <1>0, <1>3 DEF IInv, Revokes, Revoking, Leases, Settled
  <2>5. Keys'
    BY <1>0, <1>3 DEF IInv, Keys, Dirty, Clean, Granting
  <2> QED
    BY <2>1, <2>2, <2>3, <2>4, <2>5 DEF IInv
<1>4. CASE Timer
  <2>1. CASE TopOfLoop /\ UNCHANGED gui
    <3>1. enabled' \in BOOLEAN /\ held' \in {held, {}}
      BY <1>g, <2>1 DEF TopOfLoop, Disarmed
    <3> QED
      BY <1>3, <1>4, <1>g, <2>1, <3>1 DEF Timer, safety
  <2>2. CASE Disarmed /\ gui' = RevokeThen("get")
    BY <1>2, <1>4, <1>g, <2>2 DEF Timer, safety
  <2> QED
    BY <1>4, <2>1, <2>2 DEF Timer
<1>5. CASE Leave
  BY <1>2, <1>5, <1>g DEF Leave, safety
<1>6. CASE Wake
  <2>1. enabled' \in BOOLEAN /\ held' \in {held, {}} /\ (held' = {} \/ armed)
    BY <1>6, <1>g DEF Wake, TopOfLoop, Disarmed
  <2>2. Batch \in 0 .. Batch
    BY Bounds
  <2>3. gui' \in GuiRecord /\ gui'.at = "batch" /\ gui'.cmd = gui.cmd
    BY <1>6, <1>g, <2>2 DEF Wake, GuiRecord
  <2> QED
    BY <1>3, <1>6, <2>1, <2>3 DEF Wake, safety
<1>7. CASE BatchDone
  <2>1. CASE closed'
    BY <1>2, <1>7, <1>g, <2>1 DEF BatchDone
  <2>2. CASE ~closed'
    <3>1. 0 \in 0 .. Batch
      BY Bounds
    <3>2. gui' \in GuiRecord /\ gui'.at = "get" /\ gui'.cmd = gui.cmd
      BY <1>7, <1>g, <2>2, <3>1 DEF BatchDone, GuiRecord
    <3>3. closed' = closed /\ UNCHANGED <<enabled, held>>
      BY <1>7, <1>g, <2>2 DEF BatchDone
    <3> QED
      BY <1>3, <1>7, <1>g, <3>2, <3>3 DEF BatchDone
  <2> QED
    BY <2>1, <2>2
<1> QED
  BY <1>4, <1>5, <1>6, <1>7

\* The thread ends.
LEMMA ClosingStep ==
  ASSUME IInv, Closing
  PROVE  IInv'
<1>0. /\ UNCHANGED <<agent, ready, lease, waiting, answer, enabled, held, touch, late>>
      /\ armed' = FALSE /\ revision' = revision + 1 /\ fence' = revision' /\ closed' = TRUE
      /\ gui' = [gui EXCEPT !.at = "gone"] /\ queue' = <<>> /\ gui.at = "closing"
  BY DEF Closing, loop, backend
<1>1. /\ gui' \in GuiRecord /\ gui'.at = "gone" /\ gui'.cmd = gui.cmd
  BY <1>0, GuiFacts DEF GuiRecord
<1>f. /\ revision \in Nat /\ lease \in Nat /\ touch \in Nat /\ answer \in Nat \cup {NoArm}
      /\ gui.cmd.op = "Arm" => gui.cmd.expected \in Nat
      /\ gui.cmd.op = "Action" => gui.cmd.epoch \in Nat
  BY Fields DEF IInv
<1>2. TypeOK'
  <2>1. queue' \in Seq(Command) /\ Len(queue') <= QueueCap
    BY <1>0, Bounds
  <2>2. revision' \in Rev /\ fence' \in Rev
    BY <1>0, <1>f DEF Rev
  <2>3. UNCHANGED <<agent, ready, lease, waiting, answer, enabled, held, touch, late>>
        /\ armed' \in BOOLEAN /\ closed' \in BOOLEAN
    BY <1>0
  <2> QED
    BY <1>1, <2>1, <2>2, <2>3 DEF IInv, TypeOK, GuiRecord
<1>3. Kind' /\ Waits' /\ Revokes' /\ Grants' /\ Leases' /\ Lates'
  BY <1>0, <1>1 DEF IInv, Kind, Revoking, ArmPlace, ActPlace, Waits, Revokes, Grants, Granting, Leases, Settled,
                    Lates
<1>4. Epochs'
  <2>1. \A e \in Nat : Epoch(e) => Epoch(e)'
    BY <1>0, <1>f DEF Epoch
  <2>2. /\ gui'.cmd.op = "Action" => Epoch(gui.cmd.epoch)'
        /\ lease' # 0 => Epoch(lease)'
        /\ answer' \notin {NoArm, Refusal} => Epoch(answer)'
    BY <1>0, <1>1, <1>f, <2>1 DEF IInv, Epochs
  <2>3. ~Granting' /\ Known(queue', revision', touch')
    BY <1>0, <1>1, EmptyQueue DEF Granting
  <2> QED
    BY <1>0, <1>1, <1>f, <2>2, <2>3 DEF IInv, Epochs, Revoking
<1>5. Keys'
  BY <1>0, <1>1 DEF Keys, Granting
<1> QED
  BY <1>2, <1>3, <1>4, <1>5 DEF IInv
\* A command is taken from the queue.
LEMMA TakeStep ==
  ASSUME IInv, Take
  PROVE  IInv'
<1> DEFINE c == Head(queue)
           done == [gui EXCEPT !.left = @ - 1]
<1>0. /\ UNCHANGED <<armed, revision, agent, ready, lease, waiting, answer, touch, fence, late>>
      /\ queue' = Tail(queue) /\ queue # <<>> /\ gui.at = "batch" /\ ~closed /\ gui.left > 0
  BY DEF Take, loop, history
<1>g. /\ gui \in GuiRecord /\ armed \in BOOLEAN /\ closed \in BOOLEAN /\ enabled \in BOOLEAN
      /\ late <= 1 /\ (late # 0 => ~armed)
      /\ queue \in Seq(Command) /\ Len(queue) <= QueueCap /\ Known(queue, revision, touch)
      /\ late \in Nat
  BY GuiFacts
<1>f. /\ revision \in Nat /\ fence \in Nat /\ touch \in Nat /\ gui.left \in Nat \ {0} /\ Len(queue) \in Nat
      /\ fence <= revision /\ touch <= revision
  BY <1>0, Fields DEF IInv, Epochs, Revoking
<1>1. /\ c \in Command /\ queue' \in Seq(Command) /\ Len(queue') = Len(queue) - 1
      /\ Known(queue', revision, touch)
      /\ c.op = "Arm" => c.expected <= revision
      /\ c.op = "Action" => Epoch(c.epoch)
  BY <1>0, <1>g, Taken, KnownTail DEF Epoch
<1>2. Len(queue') <= QueueCap
  BY <1>1, <1>g, <1>f, Bounds
<1>3. c.op = "Arm" => c.expected \in Nat
  BY <1>1 DEF Command, Simple, Rev
<1>4. ~Clean => /\ c.op # "Disarm" => Guarded(queue', gui.left - 1, fence)
                /\ c.op = "Arm" => ~(c.expected >= fence)
                /\ agent.at \in Busy /\ c.op # "Disarm" => Cleaner(queue', gui.left - 1)
  BY <1>0, <1>g, <1>f, GuardedTail, CleanerTail DEF IInv, Keys, Dirty, Busy
<1>5. /\ done \in GuiRecord /\ done.at = "batch" /\ done.left = gui.left - 1 /\ done.cmd = gui.cmd
      /\ done.ok = gui.ok
  <2>1. gui.left - 1 \in 0 .. Batch
    BY <1>f, <1>g, Bounds DEF GuiRecord
  <2> QED
    BY <1>0, <1>g, <2>1 DEF GuiRecord
<1> HIDE DEF c, done
<1>6. ASSUME gui' = done, closed' \in BOOLEAN, enabled' \in BOOLEAN, held' \in {held, {}},
             c.op # "Disarm" \/ held' = {}
      PROVE  IInv'
  <2>1. TypeOK'
    BY <1>0, <1>1, <1>2, <1>5, <1>6 DEF IInv, TypeOK, GuiRecord
  <2>2. Kind' /\ Waits' /\ Grants' /\ Lates' /\ Revokes' /\ Leases'
    BY <1>0, <1>5, <1>6 DEF IInv, Kind, Revoking, ArmPlace, ActPlace, Waits, Grants, Granting, Lates, Revokes,
                            Leases, Settled
  <2>3. Epochs'
    BY <1>0, <1>1, <1>5, <1>6 DEF IInv, Epochs, Epoch, Granting, Revoking
  <2>4. Keys'
    <3>1. Dirty' => ~Clean /\ c.op # "Disarm"
      BY <1>0, <1>5, <1>6 DEF Dirty, Clean
    <3>2. armed' => Clean'
      BY <1>0, <1>6 DEF IInv, Keys, Clean
    <3> QED
      BY <1>0, <1>4, <1>5, <1>6, <3>1, <3>2 DEF Keys, Granting, Busy
  <2> QED
    BY <2>1, <2>2, <2>3, <2>4 DEF IInv
<1>7. ASSUME c.op = "Arm", revision = c.expected, enabled' = TRUE, UNCHANGED <<held, closed>>,
             gui' = [done EXCEPT !.cmd = c, !.at = "cas"]
      PROVE  IInv'
  <2>1. gui' \in GuiRecord /\ gui'.at = "cas" /\ gui'.cmd = c
    BY <1>1, <1>5, <1>7 DEF GuiRecord
  <2>2. TypeOK'
    BY <1>0, <1>1, <1>2, <1>7, <2>1 DEF IInv, TypeOK, GuiRecord
  <2>3. Kind' /\ Waits' /\ Grants' /\ Lates' /\ Revokes' /\ Leases'
    BY <1>0, <1>7, <2>1 DEF IInv, Kind, Revoking, ArmPlace, ActPlace, Waits, Grants, Granting, Lates, Revokes,
                            Leases, Settled
  <2>4. Epochs'
    BY <1>0, <1>1, <1>7, <2>1 DEF IInv, Epochs, Epoch, Granting, Revoking
  <2>5. Clean'
    BY <1>0, <1>3, <1>4, <1>7, <1>f DEF Clean
  <2>6. Keys'
    BY <2>1, <2>5 DEF Keys, Granting
  <2> QED
    BY <2>2, <2>3, <2>4, <2>6 DEF IInv
<1>8. ASSUME c.op = "Arm", Disarmed, UNCHANGED closed,
             gui' = [done EXCEPT !.cmd = c, !.at = "r1", !.then = "reply", !.ok = FALSE]
      PROVE  IInv'
  <2>1. gui' \in GuiRecord /\ gui'.at = "r1" /\ gui'.cmd = c /\ gui'.then = "reply" /\ ~gui'.ok
    BY <1>1, <1>5, <1>8 DEF GuiRecord
  <2> QED
    BY <1>0, <1>1, <1>2, <1>8, <1>g, <2>1, Disarms DEF Disarmed, Revoking, loop
<1>9. ASSUME c.op = "Action", UNCHANGED <<enabled, held, closed>>, armed, revision = c.epoch,
             gui' = [done EXCEPT !.cmd = c, !.at = "apply"]
      PROVE  IInv'
  <2>1. gui' \in GuiRecord /\ gui'.at = "apply" /\ gui'.cmd = c
    BY <1>1, <1>5, <1>9 DEF GuiRecord
  <2>2. TypeOK'
    BY <1>0, <1>1, <1>2, <1>9, <2>1 DEF IInv, TypeOK, GuiRecord
  <2>3. Kind' /\ Waits' /\ Grants' /\ Lates' /\ Revokes' /\ Leases'
    BY <1>0, <1>9, <2>1 DEF IInv, Kind, Revoking, ArmPlace, ActPlace, Waits, Grants, Granting, Lates, Revokes,
                            Leases, Settled
  <2>4. Epochs'
    BY <1>0, <1>1, <1>9, <2>1 DEF IInv, Epochs, Epoch, Granting, Revoking
  <2>5. Keys'
    BY <1>0, <1>9, <2>1 DEF IInv, Keys, Granting, Clean
  <2> QED
    BY <2>2, <2>3, <2>4, <2>5 DEF IInv
<1>10. /\ c.op = "Frame" => gui' = done /\ UNCHANGED <<enabled, held, closed>>
       /\ c.op = "Disarm" => gui' = done /\ Disarmed /\ UNCHANGED closed
       /\ c.op = "Stop" => gui' = done /\ UNCHANGED <<enabled, held>> /\ closed' = TRUE
       /\ c.op = "Arm" => \/ /\ revision = c.expected /\ enabled' = TRUE /\ UNCHANGED <<held, closed>>
                             /\ gui' = [done EXCEPT !.cmd = c, !.at = "cas"]
                          \/ /\ Disarmed /\ UNCHANGED closed
                             /\ gui' = [done EXCEPT !.cmd = c, !.at = "r1", !.then = "reply", !.ok = FALSE]
       /\ c.op = "Action" => /\ UNCHANGED <<enabled, held, closed>>
                             /\ gui' = IF armed /\ revision = c.epoch
                                       THEN [done EXCEPT !.cmd = c, !.at = "apply"] ELSE done
       /\ c.op \in {"Frame", "Disarm", "Stop", "Arm", "Action"}
  BY DEF Take, c, done, backend
<1>11. CASE c.op \in {"Frame", "Disarm", "Stop"} \/ (c.op = "Action" /\ gui' = done)
  <2>1. /\ gui' = done /\ closed' \in BOOLEAN /\ enabled' \in BOOLEAN /\ held' \in {held, {}}
        /\ c.op # "Disarm" \/ held' = {}
    BY <1>10, <1>11, <1>g DEF Disarmed
  <2> QED
    BY <1>6, <2>1
<1>12. CASE c.op = "Arm"
  BY <1>7, <1>8, <1>10, <1>12
<1>13. CASE c.op = "Action" /\ gui' # done
  BY <1>9, <1>10, <1>13
<1> QED
  BY <1>10, <1>11, <1>12, <1>13
\* The three steps of an Arm and its reply.
LEMMA ArmStep ==
  ASSUME IInv, ArmCas \/ ArmStore \/ ArmRecheck \/ ArmReply
  PROVE  IInv'
<1>0. /\ UNCHANGED <<closed, queue, agent, ready, lease, waiting, touch, fence>>
      /\ gui.at \in ArmPlace
  BY DEF ArmCas, ArmStore, ArmRecheck, ArmReply, shared, loop, safety, history, ArmPlace
<1>g. /\ gui \in GuiRecord /\ armed \in BOOLEAN /\ closed \in BOOLEAN /\ enabled \in BOOLEAN
      /\ gui.cmd.op = "Arm" /\ gui.cmd.expected <= revision
      /\ late <= 1 /\ (late # 0 => ~armed)
      /\ queue \in Seq(Command) /\ Len(queue) <= QueueCap /\ Known(queue, revision, touch)
      /\ late \in Nat /\ Nothing \in Command /\ Nothing.op = "none"
  BY <1>0, GuiFacts DEF IInv, Kind
<1>f. /\ revision \in Nat /\ lease \in Nat /\ touch \in Nat /\ fence \in Nat
      /\ waiting \in Nat \cup {NoArm} /\ answer \in Nat \cup {NoArm}
      /\ gui.cmd.expected \in Nat /\ fence <= revision /\ touch <= revision
  BY <1>0, <1>g, Fields DEF IInv, Epochs, Revoking, ArmPlace
<1>1. ASSUME Disarmed, UNCHANGED <<revision, answer, late>>, armed' \in {armed, FALSE}, gui' \in GuiRecord,
             gui'.at = "r1", gui'.then \in {"batch", "reply"}, ~gui'.ok,
             gui'.cmd = gui.cmd \/ (gui'.cmd = Nothing /\ gui'.then = "batch")
      PROVE  IInv'
  <2>1. /\ gui'.then = "reply" => gui'.cmd.op = "Arm" /\ ~gui'.ok
        /\ gui'.cmd.op = "Arm" => gui'.cmd.expected <= revision
        /\ gui'.cmd.op # "Action"
    BY <1>1, <1>g
  <2>2. late' \in Nat /\ late' <= 1 /\ (late' # 0 => ~armed') /\ closed' \in BOOLEAN
    <3>1. CASE armed' = FALSE
      BY <1>0, <1>1, <1>g, <3>1
    <3>2. CASE armed' = armed
      BY <1>0, <1>1, <1>g, <3>2
    <3> QED
      BY <1>1, <3>1, <3>2
  <2>3. ~Revoking /\ UNCHANGED loop /\ enabled' = FALSE /\ held' = {}
    BY <1>0, <1>1 DEF Revoking, loop, ArmPlace, Disarmed
  <2>4. queue' \in Seq(Command) /\ Len(queue') <= QueueCap /\ Known(queue', revision, touch)
    BY <1>0, <1>g
  <2> QED
    BY <1>0, <1>1, <2>1, <2>2, <2>3, <2>4, Disarms
<1>2. CASE ArmCas
  <2>1. CASE /\ revision = gui.cmd.expected /\ revision' = revision + 1 /\ gui' = [gui EXCEPT !.at = "store"]
             /\ UNCHANGED <<enabled, held>>
    <3>0. UNCHANGED <<armed, answer, late>> /\ gui.at = "cas"
      BY <1>2 DEF ArmCas, shared, history
    <3>1. gui' \in GuiRecord /\ gui'.at = "store" /\ gui'.cmd = gui.cmd
      BY <1>g, <2>1 DEF GuiRecord
    <3>2. TypeOK'
      BY <1>0, <1>f, <2>1, <3>0, <3>1 DEF IInv, TypeOK, GuiRecord, Rev
    <3>3. Known(queue', revision', touch')
      BY <1>0, <1>f, <1>g, <2>1, RevokedQueue
    <3>4. Epochs'
      <4>1. \A e \in Nat : Epoch(e) => Epoch(e)'
        BY <1>0, <1>f, <2>1 DEF Epoch
      <4>2. /\ lease' # 0 => Epoch(lease)'
            /\ answer' \notin {NoArm, Refusal} => Epoch(answer)'
        BY <1>0, <1>f, <3>0, <4>1 DEF IInv, Epochs
      <4>3. Epoch(gui.cmd.expected + 1)'
        BY <1>0, <1>f, <2>1, <3>1 DEF Epoch
      <4> QED
        BY <1>0, <1>f, <1>g, <2>1, <3>1, <3>3, <4>2, <4>3 DEF Epochs, Revoking
    <3>5. Kind' /\ Waits' /\ Grants' /\ Leases' /\ Lates'
      BY <1>0, <1>f, <1>g, <2>1, <3>0, <3>1 DEF IInv, Kind, Revoking, ArmPlace, ActPlace, Waits, Grants, Granting,
                                                Leases, Settled, Lates
    <3>6. Revokes'
      BY <1>0, <3>0, <3>1 DEF IInv, Revokes, Revoking
    <3>7. Keys'
      BY <1>0, <1>f, <2>1, <3>0, <3>1 DEF IInv, Keys, Granting, Clean
    <3> QED
      BY <3>2, <3>4, <3>5, <3>6, <3>7 DEF IInv
  <2>2. CASE Disarmed /\ gui' = [RevokeThen("reply") EXCEPT !.ok = FALSE] /\ UNCHANGED revision
    <3>1. gui' \in GuiRecord /\ gui'.at = "r1" /\ gui'.then = "reply" /\ ~gui'.ok /\ gui'.cmd = gui.cmd
      BY <1>g, <2>2 DEF GuiRecord, RevokeThen
    <3> QED
      BY <1>1, <1>2, <2>2, <3>1 DEF ArmCas, shared, history
  <2> QED
    BY <1>2, <2>1, <2>2 DEF ArmCas
<1>3. CASE ArmStore
  <2>0. /\ UNCHANGED <<revision, enabled, held, answer>> /\ gui.at = "store"
        /\ armed' = TRUE /\ late' = 0 /\ gui' = [gui EXCEPT !.at = "recheck"]
    BY <1>3 DEF ArmStore, shared, backend
  <2>1. gui' \in GuiRecord /\ gui'.at = "recheck" /\ gui'.cmd = gui.cmd
    BY <1>g, <2>0 DEF GuiRecord
  <2>2. TypeOK'
    BY <1>0, <2>0, <2>1 DEF IInv, TypeOK, GuiRecord
  <2>3. Kind' /\ Epochs' /\ Waits' /\ Grants'
    BY <1>0, <1>g, <2>0, <2>1 DEF IInv, Kind, Revoking, ArmPlace, ActPlace, Epochs, Epoch, Granting, Waits, Grants
  <2>4. Revokes' /\ Leases' /\ Lates' /\ Keys'
    BY <1>0, <2>0, <2>1 DEF IInv, Revokes, Revoking, Leases, Settled, Lates, Keys, Granting, Clean
  <2> QED
    BY <2>2, <2>3, <2>4 DEF IInv
<1>4. CASE ArmRecheck
  <2>1. CASE gui' = [gui EXCEPT !.at = "reply", !.ok = TRUE] /\ UNCHANGED <<armed, enabled, held>>
    <3>0. UNCHANGED <<revision, answer, late>> /\ gui.at = "recheck"
      BY <1>4 DEF ArmRecheck, shared, history
    <3>1. gui' \in GuiRecord /\ gui'.at = "reply" /\ gui'.cmd = gui.cmd /\ gui'.ok
      BY <1>g, <2>1 DEF GuiRecord
    <3>2. TypeOK'
      BY <1>0, <2>1, <3>0, <3>1 DEF IInv, TypeOK, GuiRecord
    <3>3. Kind' /\ Epochs' /\ Waits' /\ Grants'
      BY <1>0, <1>g, <2>1, <3>0, <3>1 DEF IInv, Kind, Revoking, ArmPlace, ActPlace, Epochs, Epoch, Granting,
                                          Waits, Grants
    <3>4. Revokes' /\ Leases' /\ Lates' /\ Keys'
      BY <1>0, <2>1, <3>0, <3>1 DEF IInv, Revokes, Revoking, Leases, Settled, Lates, Keys, Granting, Clean
    <3> QED
      BY <3>2, <3>3, <3>4 DEF IInv
  <2>2. CASE armed' = FALSE /\ Disarmed /\ gui' = [RevokeThen("reply") EXCEPT !.ok = FALSE]
    <3>1. gui' \in GuiRecord /\ gui'.at = "r1" /\ gui'.then = "reply" /\ ~gui'.ok /\ gui'.cmd = gui.cmd
      BY <1>g, <2>2 DEF GuiRecord, RevokeThen
    <3> QED
      BY <1>1, <1>4, <2>2, <3>1 DEF ArmRecheck, shared, history
  <2> QED
    BY <1>4, <2>1, <2>2 DEF ArmRecheck
<1>5. CASE ArmReply
  <2>0. UNCHANGED <<armed, revision, late>> /\ gui.at = "reply"
    BY <1>5 DEF ArmReply, safety, history
  <2>1. CASE /\ waiting = gui.cmd.expected
             /\ answer' = IF gui.ok THEN gui.cmd.expected + 1 ELSE Refusal
             /\ gui' = [gui EXCEPT !.at = "batch", !.cmd = Nothing, !.ok = FALSE] /\ UNCHANGED <<enabled, held>>
    <3>1. gui' \in GuiRecord /\ gui'.at = "batch" /\ gui'.cmd = Nothing
      BY <1>g, <2>1 DEF GuiRecord
    <3>2. /\ gui.ok => revision = gui.cmd.expected + 1 /\ fence <= gui.cmd.expected /\ Epoch(gui.cmd.expected + 1)
          /\ ~gui.ok => ~armed /\ held = {}
          /\ agent.at = "wait" /\ (gui.ok => Clean)
      BY <1>f, <2>0, <2>1, Bounds DEF IInv, Grants, Granting, Revokes, Waits, Epochs, Keys
    <3>3. TypeOK'
      BY <1>0, <1>f, <2>0, <2>1, <3>1 DEF IInv, TypeOK, GuiRecord, Rev, Refusal
    <3>4. Kind' /\ Waits' /\ Grants' /\ Lates'
      BY <1>0, <1>g, <2>0, <3>1, <3>2 DEF IInv, Kind, Revoking, ArmPlace, ActPlace, Waits, Grants, Granting, Lates
    <3>5. Epochs'
      <4>1. answer' \notin {NoArm, Refusal} => Epoch(answer)'
        BY <1>0, <1>f, <2>0, <2>1, <3>2 DEF Epoch, Refusal
      <4> QED
        BY <1>0, <1>g, <1>f, <2>0, <3>1, <4>1 DEF IInv, Epochs, Epoch, Granting, Revoking
    <3>6. Revokes'
      BY <1>0, <2>0, <3>1, <3>2 DEF Revokes, Revoking
    <3>7. Leases'
      BY <1>0, <1>f, <2>0, <2>1, <3>2 DEF Leases, Settled, Refusal
    <3>8. Clean' /\ Keys'
      BY <1>0, <2>0, <2>1, <3>1, <3>2 DEF Keys, Clean, Dirty, Granting
    <3> QED
      BY <3>3, <3>4, <3>5, <3>6, <3>7, <3>8 DEF IInv
  <2>2. CASE Disarmed /\ gui' = [RevokeThen("batch") EXCEPT !.cmd = Nothing, !.ok = FALSE] /\ UNCHANGED answer
    <3>1. gui' \in GuiRecord /\ gui'.at = "r1" /\ gui'.then = "batch" /\ ~gui'.ok /\ gui'.cmd = Nothing
      BY <1>g, <2>2 DEF GuiRecord, RevokeThen
    <3> QED
      BY <1>1, <2>0, <2>2, <3>1
  <2> QED
    BY <1>5, <2>1, <2>2 DEF ArmReply
<1> QED
  BY <1>2, <1>3, <1>4, <1>5

\* An action: the checks, and SendInput.
LEMMA ActionStep ==
  ASSUME IInv, ApplyCheck \/ SendInput
  PROVE  IInv'
<1>0. /\ UNCHANGED <<armed, revision, closed, queue, agent, ready, lease, waiting, answer, touch, fence>>
      /\ gui.at \in ActPlace
  BY DEF ApplyCheck, SendInput, shared, loop, safety, history, ActPlace
<1>g. /\ gui \in GuiRecord /\ armed \in BOOLEAN /\ closed \in BOOLEAN /\ enabled \in BOOLEAN
      /\ gui.cmd.op = "Action" /\ Epoch(gui.cmd.epoch)
      /\ late <= 1 /\ (late # 0 => ~armed)
      /\ queue \in Seq(Command) /\ Len(queue) <= QueueCap /\ Known(queue, revision, touch)
      /\ late \in Nat /\ Nothing \in Command /\ Nothing.op = "none"
  BY <1>0, GuiFacts DEF IInv, Kind
<1>f. /\ revision \in Nat /\ touch \in Nat /\ fence \in Nat /\ held \subseteq Nat
      /\ gui.cmd.epoch \in Nat /\ fence <= revision /\ touch <= revision
  BY <1>0, <1>g, Fields DEF IInv, Epochs, Revoking, ActPlace
<1>1. ASSUME Disarmed, gui' = [RevokeThen("batch") EXCEPT !.cmd = Nothing, !.ok = FALSE],
             late' \in Nat, late' <= 1, late' # 0 => ~armed
      PROVE  IInv'
  <2>1. gui' \in GuiRecord /\ gui'.at = "r1" /\ gui'.then = "batch" /\ ~gui'.ok /\ gui'.cmd = Nothing
    BY <1>1, <1>g DEF GuiRecord, RevokeThen
  <2> QED
    BY <1>0, <1>1, <1>g, <2>1, Disarms DEF Disarmed, Revoking, loop, ActPlace
<1>2. CASE ApplyCheck
  <2>0. late' = late /\ gui.at = "apply"
    BY <1>2 DEF ApplyCheck, history
  <2>1. CASE /\ armed /\ revision = gui.cmd.epoch /\ gui' = [gui EXCEPT !.at = "send"]
             /\ UNCHANGED <<enabled, held>>
    <3>1. gui' \in GuiRecord /\ gui'.at = "send" /\ gui'.cmd = gui.cmd
      BY <1>g, <2>1 DEF GuiRecord
    <3>2. TypeOK'
      BY <1>0, <2>0, <2>1, <3>1 DEF IInv, TypeOK, GuiRecord
    <3>3. Kind' /\ Epochs' /\ Waits' /\ Grants' /\ Revokes' /\ Leases'
      BY <1>0, <1>g, <2>0, <2>1, <3>1 DEF IInv, Kind, Revoking, ArmPlace, ActPlace, Epochs, Epoch, Granting,
                                          Waits, Grants, Revokes, Leases, Settled
    <3>4. Lates'
      BY <1>0, <1>f, <1>g, <2>0, <2>1, <3>1 DEF Lates, Epoch
    <3>5. Clean' /\ ~Dirty'
      BY <1>0, <1>f, <2>0, <2>1, <3>1 DEF IInv, Keys, Dirty, Clean
    <3>6. Keys'
      BY <3>1, <3>5 DEF Keys, Granting
    <3> QED
      BY <3>2, <3>3, <3>4, <3>6 DEF IInv
  <2>2. CASE Disarmed /\ gui' = [RevokeThen("batch") EXCEPT !.cmd = Nothing, !.ok = FALSE]
    BY <1>1, <1>g, <2>0, <2>2
  <2> QED
    BY <1>2, <2>1, <2>2 DEF ApplyCheck
<1>3. CASE SendInput
  <2> DEFINE e == gui.cmd.epoch
  <2>0. /\ gui.at = "send" /\ late = 0 /\ e > touch /\ (armed => revision = e)
        /\ late' = IF armed /\ revision = e THEN late ELSE late + 1
    BY <1>3 DEF SendInput, IInv, Lates
  <2>1. late' \in Nat /\ late' <= 1 /\ (late' # 0 => ~armed)
    BY <1>g, <2>0
  <2>2. ASSUME gui' \in GuiRecord, gui'.at \in {"apply", "batch"}, gui'.left = gui.left,
               \/ gui'.cmd = gui.cmd
               \/ gui'.at = "batch" /\ gui'.cmd = Nothing,
               enabled' = enabled, held' \in {held, held \cup {e}, held \ {e}}
        PROVE  IInv'
    <3>1. TypeOK'
      BY <1>0, <1>f, <2>1, <2>2 DEF IInv, TypeOK, GuiRecord, Rev
    <3>2. Kind' /\ Waits' /\ Grants'
      BY <1>0, <1>g, <2>2 DEF IInv, Kind, Revoking, ArmPlace, ActPlace, Waits, Grants, Granting
    <3>3. Epochs'
      BY <1>0, <1>g, <1>f, <2>2 DEF IInv, Epochs, Epoch, Granting, Revoking
    <3>4. Revokes' /\ Leases' /\ Lates'
      BY <1>0, <2>0, <2>1, <2>2 DEF IInv, Revokes, Revoking, Leases, Settled, Lates
    <3>5. Keys'
      <4>1. armed' => Clean'
        BY <1>0, <1>f, <2>0, <2>2 DEF IInv, Keys, Clean
      <4>2. Dirty' => Dirty
        BY <1>0, <1>f, <2>0, <2>2 DEF Dirty, Clean
      <4> QED
        BY <1>0, <2>0, <2>2, <4>1, <4>2 DEF IInv, Keys, Granting
    <3> QED
      BY <3>1, <3>2, <3>3, <3>4, <3>5 DEF IInv
  <2>3. CASE gui' = [gui EXCEPT !.at = "apply"] /\ UNCHANGED <<enabled, held>>
    <3>1. gui' \in GuiRecord /\ gui'.at = "apply" /\ gui'.cmd = gui.cmd /\ gui'.left = gui.left
      BY <1>g, <2>3 DEF GuiRecord
    <3> QED
      BY <2>2, <2>3, <3>1
  <2>4. CASE /\ gui' = [gui EXCEPT !.at = "batch", !.cmd = Nothing, !.ok = FALSE] /\ UNCHANGED enabled
             /\ held' \in {held, held \cup {e}, held \ {e}}
    <3>1. gui' \in GuiRecord /\ gui'.at = "batch" /\ gui'.cmd = Nothing /\ gui'.left = gui.left
      BY <1>g, <2>4 DEF GuiRecord
    <3> QED
      BY <2>2, <2>4, <3>1
  <2>5. CASE Disarmed /\ gui' = [RevokeThen("batch") EXCEPT !.cmd = Nothing, !.ok = FALSE]
    BY <1>1, <2>1, <2>5
  <2> QED
    BY <1>3, <2>3, <2>4, <2>5 DEF SendInput
<1> QED
  BY <1>2, <1>3

-----------------------------------------------------------------------------
(* The theorems. *)

\* Every step of the loop and of the safety thread preserves the inductive invariant
\* (media.rs, gui_session.rs, gui_input.rs).
THEOREM Invariance == Spec => []IInv
<1>1. IInv /\ [Next]_vars => IInv'
  <2> SUFFICES ASSUME IInv, [Next]_vars PROVE IInv'
    OBVIOUS
  <2>1. CASE AgentNext
    BY <2>1, LoopStep, PostingStep, WaitStep, AgentRevokeStep, AgentDisarmStep DEF AgentNext
  <2>2. CASE GuiNext
    BY <2>2, TouchStep, GuiRevokeStep, MessageStep, TakeStep, ArmStep, ActionStep, ClosingStep DEF GuiNext
  <2>3. CASE UNCHANGED vars
    <3>1. TypeOK' /\ Kind' /\ Epochs' /\ Waits'
      BY <2>3 DEF IInv, vars, TypeOK, Kind, Revoking, Epochs, Epoch, Granting, Waits
    <3>2. Revokes' /\ Grants' /\ Leases' /\ Lates' /\ Keys'
      BY <2>3 DEF IInv, vars, Revokes, Revoking, Grants, Granting, Leases, Settled, Lates, Keys, Dirty, Clean
    <3> QED
      BY <3>1, <3>2 DEF IInv
  <2> QED
    BY <2>1, <2>2, <2>3 DEF Next
<1> QED
  BY <1>1, InitIInv, PTL DEF Spec

\* Every variable keeps its type, and the queue its limit.
THEOREM TypeCorrect == Spec => []TypeOK
<1>1. IInv => TypeOK
  BY DEF IInv
<1> QED
  BY <1>1, Invariance, PTL

\* No SendInput is of an epoch before the last local input, and at most one follows a revoke
\* (gui_session.rs: revoke, arm, allowed; gui_input.rs: apply).
THEOREM InputStops == Spec => []RevokeStopsInput
<1>1. IInv => RevokeStopsInput
  BY DEF IInv, Lates, RevokeStopsInput
<1> QED
  BY <1>1, Invariance, PTL

\* A lease starts with the keys of every earlier one released, although a full queue may have
\* dropped the Disarm (gui_session.rs: run, post).
THEOREM KeysClean == Spec => []ArmStartsClean
<1>1. IInv => ArmStartsClean
  BY DEF IInv, Keys, Clean, ArmStartsClean
<1> QED
  BY <1>1, Invariance, PTL

\* An armed session is the one the agent leases (gui_session.rs: arm; media.rs: Acquire).
THEOREM LeaseHolds == Spec => []ArmedIsLeased
<1>1. IInv => ArmedIsLeased
  BY DEF IInv, Leases, Settled, ArmedIsLeased
<1> QED
  BY <1>1, Invariance, PTL
=============================================================================
