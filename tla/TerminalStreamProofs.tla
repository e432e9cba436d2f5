-------------------------- MODULE TerminalStreamProofs -------------------------
(***************************************************************************)
(* Proofs about TerminalStream for every number of events, every cost of   *)
(* an event and every limit: the safety of the stream, and that it         *)
(* implements TerminalFeed.                                                *)
(***************************************************************************)
EXTENDS TerminalStream, SequenceTheorems, TLAPS

Kinds == {"meta", "chunk", "end", "output"}

\* The task is sending its snapshot; it has sent it.
Opening == {"meta", "chunk", "end"}
Streaming == {"loop", "send", "select", "recover"}

\* The viewer has not seen the end of the snapshot.
Restoring == {"awaiting", "snapshot"}

\* The end of the snapshot and what comes after it.
Final == {"end", "output"}

\* Offset(n) of the output o.
Pos(o, n) == IF n = 0 THEN 0 ELSE o[n]

(* The inductive invariant. *)

\* Later events end later.
Growing == \A m, n \in 0..last : m <= n => Pos(output, m) <= Pos(output, n)

\* Frame g may come after frame f.
Follows(f, g) ==
  \/ f.kind = "meta" /\ g.kind = "chunk" /\ g.sequence = f.sequence
  \/ f.kind = "chunk" /\ g.kind = "end" /\ g.sequence = f.sequence
  \/ f.kind \in Final /\ g.kind = "output" /\ g.sequence = f.sequence + 1

\* What is on the socket is what the viewer's guard expects, frame after frame.
Chain ==
  /\ \A i \in 1..Len(toViewer) - 1 : Follows(toViewer[i], toViewer[i + 1])
  /\ \A i, j \in 1..Len(toViewer) : i <= j => toViewer[i].sequence <= toViewer[j].sequence
  /\ toViewer # << >> => Acceptable(toViewer[1])

\* What the task sends next follows the last frame, or is what the viewer waits for.
Tip ==
  /\ task.pc \in {"subscribe", "meta"} => toViewer = << >> /\ viewer.phase = "awaiting"
  /\ task.pc \in Opening => task.sent = task.applied /\ viewer.phase \in Restoring
  /\ task.pc \in Opening => \A i \in 1..Len(toViewer) : toViewer[i].kind \notin Final
  /\ task.pc \in {"chunk", "end"} /\ toViewer = << >> =>
       viewer.phase = "snapshot" /\ viewer.sequence = task.sent
  /\ task.pc \in Streaming /\ toViewer = << >> =>
       viewer.phase = "live" /\ viewer.sequence = task.sent
  /\ toViewer # << >> =>
       /\ task.pc = "chunk" => toViewer[Len(toViewer)].kind = "meta"
       /\ task.pc = "end" => toViewer[Len(toViewer)].kind = "chunk"
       /\ task.pc \in Streaming => toViewer[Len(toViewer)].kind \in Final
       /\ task.pc # "off" => toViewer[Len(toViewer)].sequence = task.sent

\* The viewer's states.
Phases ==
  /\ viewer.phase # "failed"
  /\ viewer.phase = "closed" => task.pc = "off" /\ toViewer = << >>
  /\ viewer.phase # "live" => ~ready
  /\ viewer.phase = "live" => shown = viewer.sequence

\* A snapshot is not older than the screen, and nothing after it was applied.
Ahead ==
  viewer.phase \in Restoring =>
    /\ task.pc \notin {"off", "subscribe"} \/ toViewer # << >> \/ viewer.phase = "snapshot"
         => shown <= task.applied
    /\ viewer.phase = "snapshot" => viewer.sequence = task.applied

\* The task's counters, the socket and the viewer are in order.
Between ==
  viewer.phase # "closed" =>
    /\ task.applied <= task.sent
    /\ \A i \in 1..Len(toViewer) :
         toViewer[i].sequence \in task.applied..task.sent
    /\ viewer.phase # "awaiting" =>
         /\ viewer.sequence \in task.applied..task.sent
         /\ \A i \in 1..Len(toViewer) : viewer.sequence <= toViewer[i].sequence

\* What the agent is told is what the viewer has applied, in order.
Reports ==
  task.pc # "off" =>
    /\ toAgent # << >> => viewer.phase = "live"
    /\ \A i \in 1..Len(toAgent) : toAgent[i] \in task.applied..viewer.sequence
    /\ \A i, j \in 1..Len(toAgent) : i <= j => toAgent[i] <= toAgent[j]

\* Where a frame of the stream ends, against where the last one does.
Level(o, t, n, end) == end + Pos(o, t.sent) = t.bytes + Pos(o, n)

Budget ==
  viewer.phase # "closed" =>
    /\ \A i \in 1..Len(toViewer) :
         /\ toViewer[i].kind \in Final => Level(output, task, toViewer[i].sequence, toViewer[i].end)
         /\ toViewer[i].kind \notin Final =>
              /\ toViewer[i].end <= SnapshotCost
              /\ viewer.phase \in Restoring => toViewer[i].sequence = task.applied
    /\ viewer.phase = "live" => Level(output, task, viewer.sequence, viewer.bytes)
    /\ viewer.phase \in Restoring =>
         task.bytes <= SnapshotCost + Pos(output, task.sent) - Pos(output, task.applied)
    /\ task.pc \in {"subscribe", "meta", "chunk"} => task.bytes = 0

Credit ==
  task.sent > task.applied => Pos(output, task.sent - 1) - Pos(output, task.applied) < Window

Joined == Chain /\ Tip /\ Phases /\ Ahead /\ Between /\ Reports /\ Budget /\ Credit

IInv == TypeOK /\ Growing /\ Joined
-----------------------------------------------------------------------------
(* Sequences and positions. *)

\* A sequence gets one more element.
LEMMA Appended ==
  ASSUME NEW S, NEW s \in Seq(S), NEW x \in S
  PROVE  /\ Append(s, x) \in Seq(S) /\ Append(s, x) # << >> /\ Len(s) \in Nat
         /\ Len(Append(s, x)) = Len(s) + 1 /\ Append(s, x)[Len(s) + 1] = x
         /\ \A i \in 1..Len(s) : Append(s, x)[i] = s[i]
BY AppendProperties, LenProperties

\* A sequence loses its first element.
LEMMA Taken ==
  ASSUME NEW S, NEW s \in Seq(S), s # << >>
  PROVE  /\ Head(s) = s[1] /\ s[1] \in S /\ Len(s) \in Nat \ {0}
         /\ Tail(s) \in Seq(S) /\ Len(Tail(s)) = Len(s) - 1
         /\ \A i \in 1..Len(s) - 1 : Tail(s)[i] = s[i + 1]
<1>1. Len(s) \in Nat /\ Len(s) # 0
  BY LenProperties, EmptySeq
<1>2. Head(s) = s[1] /\ Tail(s) \in Seq(S) /\ Len(Tail(s)) = Len(s) - 1
      /\ \A i \in 1..Len(s) - 1 : Tail(s)[i] = s[i + 1]
  BY HeadTailProperties
<1>3. 1 \in 1..Len(s)
  BY <1>1
<1>4. s[1] \in S
  BY <1>3, ElementOfSeq
<1> QED
  BY <1>1, <1>2, <1>4

\* A sequence over a set is one over a larger set.
LEMMA Widened ==
  ASSUME NEW S, NEW T, S \subseteq T, NEW s \in Seq(S)
  PROVE  s \in Seq(T)
<1>1. Len(s) \in Nat /\ s \in [1..Len(s) -> S]
  BY LenProperties
<1>2. s \in [1..Len(s) -> T]
  BY <1>1
<1> QED
  BY <1>1, <1>2, SeqDef

\* The beginning of a sequence.
LEMMA Cut ==
  ASSUME NEW S, NEW s \in Seq(S), NEW n \in 0..Len(s)
  PROVE  /\ SubSeq(s, 1, n) \in Seq(S) /\ Len(SubSeq(s, 1, n)) = n /\ Len(s) \in Nat
         /\ \A i \in 1..n : SubSeq(s, 1, n)[i] = s[i]
<1>1. Len(s) \in Nat /\ n \in Nat /\ n <= Len(s)
  BY LenProperties
<1>2. \A i \in 1..n : s[i] \in S
  BY <1>1, ElementOfSeq
<1> QED
  BY <1>1, <1>2, SubSeqProperties

\* The elements of a sequence, and when there are none.
LEMMA Elements ==
  ASSUME NEW S, NEW s \in Seq(S)
  PROVE  Len(s) \in Nat /\ (\A i \in 1..Len(s) : s[i] \in S) /\ (s = << >> <=> Len(s) = 0)
BY LenProperties, ElementOfSeq, EmptySeq

\* The limits, one by one.
LEMMA Limits ==
  /\ Costs \subseteq Nat \ {0} /\ ResizeCost \in Costs
  /\ MaxEvents \in Nat /\ RingLimits \subseteq Nat /\ PendingLimit \in Nat /\ SnapshotCost \in Nat
  /\ RenderLimit \in Nat /\ MaxDrops \in Nat /\ RingEvents \in Nat \ {0}
  /\ BroadcastCap \in Nat \ {0} /\ Window \in Nat \ {0}
  /\ \A n \in Costs : SnapshotCost + (Window - 1) + n <= RenderLimit
BY StreamAssumption

\* Positions are those of the model.
LEMMA Positions ==
  /\ \A n : Offset(n) = Pos(output, n)
  /\ \A n : Cost(n) = Pos(output, n) - Pos(output, n - 1)
  /\ Unacked = Pos(output, task.sent) - Pos(output, task.applied)
BY DEF Offset, Cost, Unacked, Pos

Frames(n) == [kind : Kinds, sequence : 0..n, end : Nat]
Task(n) == [pc : TaskPc, sent : 0..n, applied : 0..n, cursor : 1..n + 1, pending : Seq(1..n), bytes : Nat]
Viewer(n) == [phase : Phase, sequence : 0..n, bytes : Nat]

\* TypeOK without the counters of the session's output.
Typed(n) ==
  /\ task \in Task(n) /\ toViewer \in Seq(Frames(n)) /\ toAgent \in Seq(0..n) /\ viewer \in Viewer(n)
  /\ {ready, retry} \subseteq BOOLEAN /\ shown \in 0..n /\ drops \in 0..MaxDrops

Stored ==
  /\ output \in Seq(Nat) /\ \A n \in 1..last : Cost(n) \in Costs
  /\ front \in 1..last + 1 /\ Fits(front) /\ ringLimit \in RingLimits
  /\ oversized \in BOOLEAN /\ resizing \in BOOLEAN

LEMMA Types == TypeOK <=> Stored /\ Typed(last)
BY DEF TypeOK, Stored, Typed, Task, Frames, Viewer, Kinds

\* What the types say of the parts.
LEMMA Facts ==
  ASSUME TypeOK
  PROVE  /\ last \in Nat /\ output \in Seq(Nat) /\ last = Len(output) /\ front \in 1..last + 1
         /\ task.pc \in TaskPc /\ task.sent \in 0..last /\ task.applied \in 0..last
         /\ task.cursor \in 1..last + 1 /\ task.pending \in Seq(1..last) /\ task.bytes \in Nat
         /\ toViewer \in Seq(Frames(last)) /\ toAgent \in Seq(0..last)
         /\ viewer.phase \in Phase /\ viewer.sequence \in 0..last /\ viewer.bytes \in Nat
         /\ ready \in BOOLEAN /\ shown \in 0..last /\ drops \in 0..MaxDrops
         /\ Len(toViewer) \in Nat /\ Len(toAgent) \in Nat
         /\ \A i \in 1..Len(toViewer) : /\ toViewer[i].kind \in Kinds /\ toViewer[i].sequence \in 0..last
                                        /\ toViewer[i].end \in Nat
         /\ \A i \in 1..Len(toAgent) : toAgent[i] \in 0..last
         /\ toViewer = << >> <=> Len(toViewer) = 0
         /\ toAgent = << >> <=> Len(toAgent) = 0
<1>1. Stored /\ Typed(last)
  BY Types
<1>2. last = Len(output) /\ output \in Seq(Nat) /\ last \in Nat /\ front \in 1..last + 1
  BY <1>1, LenProperties DEF Stored, last
<1> HIDE DEF last
<1>3. /\ task.pc \in TaskPc /\ task.sent \in 0..last /\ task.applied \in 0..last
      /\ task.cursor \in 1..last + 1 /\ task.pending \in Seq(1..last) /\ task.bytes \in Nat
  BY <1>1 DEF Typed, Task
<1>4. viewer.phase \in Phase /\ viewer.sequence \in 0..last /\ viewer.bytes \in Nat
  BY <1>1 DEF Typed, Viewer
<1>5. toViewer \in Seq(Frames(last)) /\ toAgent \in Seq(0..last)
  BY <1>1 DEF Typed
<1>6. /\ Len(toViewer) \in Nat /\ (toViewer = << >> <=> Len(toViewer) = 0)
      /\ \A i \in 1..Len(toViewer) : toViewer[i] \in Frames(last)
  BY <1>5, Elements
<1>7. /\ Len(toAgent) \in Nat /\ (toAgent = << >> <=> Len(toAgent) = 0)
      /\ \A i \in 1..Len(toAgent) : toAgent[i] \in 0..last
  BY <1>5, Elements
<1>8. \A i \in 1..Len(toViewer) : /\ toViewer[i].kind \in Kinds /\ toViewer[i].sequence \in 0..last
                                  /\ toViewer[i].end \in Nat
  BY <1>6 DEF Frames
<1>9. ready \in BOOLEAN /\ shown \in 0..last /\ drops \in 0..MaxDrops
  BY <1>1 DEF Typed
<1> QED
  BY <1>2, <1>3, <1>4, <1>5, <1>6, <1>7, <1>8, <1>9

\* Positions are naturals.
LEMMA PosNat == ASSUME NEW o \in Seq(Nat), NEW n \in 0..Len(o) PROVE Pos(o, n) \in Nat
<1>1. Len(o) \in Nat /\ \A i \in 1..Len(o) : o[i] \in Nat
  BY Elements
<1> QED
  BY <1>1 DEF Pos

-----------------------------------------------------------------------------
(* The initial state, and the session's output. *)

LEMMA InitIInv == Init => IInv
<1> SUFFICES ASSUME Init PROVE IInv
  OBVIOUS
<1>1. /\ output = << >> /\ last = 0 /\ front = 1 /\ ringLimit \in RingLimits /\ oversized = FALSE /\ resizing = FALSE
      /\ task = NoTask /\ toViewer = << >> /\ toAgent = << >>
      /\ viewer = [phase |-> "closed", sequence |-> 0, bytes |-> 0]
      /\ ready = FALSE /\ retry = TRUE /\ shown = 0 /\ drops = 0
  BY DEF Init, last
<1>2. /\ task.pc = "off" /\ task.sent = 0 /\ task.applied = 0 /\ task.cursor = 1 /\ task.pending = << >>
      /\ task.bytes = 0 /\ viewer.phase = "closed" /\ viewer.sequence = 0
  BY <1>1 DEF NoTask
<1>3. << >> \in Seq(Nat) /\ << >> \in Seq(1..0) /\ << >> \in Seq(0..0) /\ << >> \in Seq(Frames(0))
  OBVIOUS
<1>4. task \in Task(0)
  BY <1>1, <1>3 DEF Task, TaskPc, NoTask
<1>5. viewer \in Viewer(0)
  BY <1>1 DEF Viewer, Phase
<1>6. Typed(last)
  <2>1. 0 \in 0..0 /\ 0 \in 0..MaxDrops
    BY Limits
  <2>2. Typed(0)
    BY <1>1, <1>3, <1>4, <1>5, <2>1 DEF Typed
  <2> QED
    BY <1>1, <2>2
<1>7. Stored
  <2>1. Offset(last) = 0 /\ Offset(front - 1) = 0
    BY <1>1 DEF Offset
  <2>2. Fits(front)
    BY <1>1, <2>1, Limits DEF Fits
  <2>3. front \in 1..last + 1 /\ \A n \in 1..last : Cost(n) \in Costs
    BY <1>1
  <2> QED
    BY <1>1, <1>3, <2>2, <2>3 DEF Stored
<1>8. Growing
  BY <1>1 DEF Growing, Pos
<1>9. Len(toViewer) = 0 /\ Len(toAgent) = 0
  BY <1>1
<1>10. Chain /\ Tip
  BY <1>1, <1>2, <1>9 DEF Chain, Tip, Opening, Streaming
<1>11. Phases /\ Ahead /\ Between /\ Reports /\ Budget /\ Credit
  BY <1>1, <1>2 DEF Phases, Ahead, Between, Reports, Budget, Credit, Restoring
<1> QED
  BY <1>6, <1>7, <1>8, <1>10, <1>11, Types DEF IInv, Joined

\* What other steps do not touch.
LEMMA Kept ==
  ASSUME IInv, UNCHANGED <<output, front, ringLimit, oversized, resizing>>
  PROVE  Stored' /\ Growing' /\ last' = last /\ (Typed(last)' => TypeOK')
<1>1. Stored /\ Growing /\ last' = last
  BY Types DEF IInv, last
<1>2. \A n : Offset(n)' = Offset(n) /\ Cost(n)' = Cost(n)
  BY DEF Offset, Cost
<1>3. Fits(front)' <=> Fits(front)
  BY <1>1 DEF Fits, Offset
<1>4. Stored'
  BY <1>1, <1>2, <1>3 DEF Stored
<1>5. Growing'
  BY <1>1 DEF Growing
<1>6. Stored' /\ Typed(last)' => TypeOK'
  BY Types, PTL
<1> QED
  BY <1>1, <1>4, <1>5, <1>6

\* A new event leaves the positions of the others.
LEMMA NewEvent ==
  ASSUME NEW o \in Seq(Nat), NEW c \in Nat, NEW p, p = Append(o, Pos(o, Len(o)) + c)
  PROVE  /\ p \in Seq(Nat) /\ Len(p) = Len(o) + 1 /\ Len(o) \in Nat
         /\ \A n \in 0..Len(o) : Pos(p, n) = Pos(o, n)
         /\ Pos(p, Len(o) + 1) = Pos(o, Len(o)) + c
<1>1. Len(o) \in Nat
  BY LenProperties
<1>2. Pos(o, Len(o)) \in Nat
  BY <1>1, PosNat
<1>3. Pos(o, Len(o)) + c \in Nat
  BY <1>2
<1>4. /\ p \in Seq(Nat) /\ Len(p) = Len(o) + 1 /\ p[Len(o) + 1] = Pos(o, Len(o)) + c
      /\ \A i \in 1..Len(o) : p[i] = o[i]
  BY <1>3, Appended
<1> QED
  BY <1>1, <1>4 DEF Pos

LEMMA PushedIInv ==
  ASSUME IInv, NEW c \in Costs, Pushed(c), resizing' \in BOOLEAN,
         UNCHANGED <<task, toViewer, toAgent, viewerVars, drops>>
  PROVE  IInv'
<1>1. /\ TypeOK /\ Growing /\ Joined /\ Stored /\ Typed(last)
      /\ UNCHANGED <<viewer, ready, retry, shown>>
  BY Types DEF IInv, viewerVars
<1>2. c \in Nat /\ c >= 0 /\ c \in Costs
  BY Limits
<1>3. output \in Seq(Nat) /\ last = Len(output) /\ last \in Nat /\ last' = Len(output')
  BY <1>1, Facts DEF last
<1>4. output' = Append(output, Pos(output, last) + c)
  BY Positions DEF Pushed
<1>5. /\ output' \in Seq(Nat) /\ last' = last + 1
      /\ \A n \in 0..last : Pos(output', n) = Pos(output, n)
      /\ Pos(output', last + 1) = Pos(output, last) + c
  BY <1>2, <1>3, <1>4, NewEvent
<1>6. \A n \in 0..last : Pos(output, n) \in Nat
  BY <1>3, PosNat
<1>7. /\ \A n : Cost(n) = Pos(output, n) - Pos(output, n - 1)
      /\ \A n : Cost(n)' = Pos(output', n) - Pos(output', n - 1)
  <2>1. \A n : Cost(n) = Pos(output, n) - Pos(output, n - 1)
    BY Positions
  <2>2. \A n : Cost(n)' = Pos(output', n) - Pos(output', n - 1)
    BY DEF Cost, Offset, Pos
  <2> QED
    BY <2>1, <2>2
<1>8. Stored'
  <2>1. ASSUME NEW n \in 1..last + 1 PROVE Cost(n)' \in Costs
    <3>1. CASE n = last + 1
      <4>0. n - 1 = last /\ last \in 0..last
        BY <1>3, <3>1
      <4>1. Pos(output', n) = Pos(output, last) + c /\ Pos(output', n - 1) = Pos(output, last)
        BY <1>5, <3>1, <4>0
      <4>2. Pos(output, last) \in Nat
        BY <1>6, <4>0
      <4>3. Pos(output', n) - Pos(output', n - 1) = c
        BY <1>2, <4>1, <4>2
      <4> QED
        BY <1>2, <1>7, <4>3
    <3>2. CASE n # last + 1
      <4>1. n \in 1..last /\ n - 1 \in 0..last /\ n \in 0..last
        BY <1>3, <3>2
      <4>2. Cost(n)' = Cost(n)
        BY <1>5, <1>7, <4>1
      <4> QED
        BY <1>1, <4>1, <4>2 DEF Stored
    <3> QED
      BY <3>1, <3>2
  <2>2. front' \in front..last' + 1 /\ Fits(front)'
    BY DEF Pushed, Evict
  <2>3. front' \in 1..last' + 1
    BY <1>1, <1>3, <1>5, <2>2 DEF Stored
  <2>4. ringLimit' \in RingLimits
    BY <1>1 DEF Stored, Pushed
  <2> QED
    BY <1>5, <2>1, <2>2, <2>3, <2>4 DEF Stored, Pushed
<1>9. Typed(last)'
  <2>1. 0..last \subseteq 0..last' /\ 1..last \subseteq 1..last' /\ 1..last + 1 \subseteq 1..last' + 1
    BY <1>3, <1>5
  <2>2. Frames(last) \subseteq Frames(last')
    BY <2>1 DEF Frames
  <2>3. toViewer \in Seq(Frames(last')) /\ toAgent \in Seq(0..last')
    BY <1>1, <2>1, <2>2, Widened DEF Typed
  <2>4. task.pending \in Seq(1..last')
    BY <1>1, <2>1, Widened, Facts
  <2>5. task \in Task(last')
    BY <1>1, <2>1, <2>4 DEF Typed, Task
  <2>6. viewer \in Viewer(last')
    BY <1>1, <2>1 DEF Typed, Viewer
  <2>7. shown \in 0..last'
    BY <1>1, <2>1 DEF Typed
  <2> QED
    BY <1>1, <2>3, <2>5, <2>6, <2>7 DEF Typed
<1>10. Growing'
  <2>1. ASSUME NEW m \in 0..last', NEW n \in 0..last', m <= n PROVE Pos(output', m) <= Pos(output', n)
    <3>1. CASE n \in 0..last
      <4>1. m \in 0..last
        BY <1>3, <2>1, <3>1
      <4> QED
        BY <1>1, <1>5, <2>1, <3>1, <4>1 DEF Growing
    <3>2. CASE n = last + 1 /\ m \in 0..last
      <4>1. last \in 0..last /\ m <= last
        BY <1>3, <3>2
      <4>2. Pos(output, m) <= Pos(output, last) /\ Pos(output, m) \in Nat /\ Pos(output, last) \in Nat
        BY <1>1, <1>6, <3>2, <4>1 DEF Growing
      <4>3. Pos(output', m) = Pos(output, m) /\ Pos(output', n) = Pos(output, last) + c
        BY <1>5, <3>2
      <4> QED
        BY <1>2, <4>2, <4>3
    <3>3. CASE n = last + 1 /\ m = last + 1
      <4>1. Pos(output', n) \in Int
        BY <1>2, <1>3, <1>5, <1>6, <3>3
      <4> QED
        BY <3>3, <4>1
    <3> QED
      BY <1>3, <1>5, <2>1, <3>1, <3>2, <3>3
  <2> QED
    BY <2>1 DEF Growing
<1>11. /\ task.sent \in 0..last /\ task.applied \in 0..last /\ viewer.sequence \in 0..last
       /\ \A i \in 1..Len(toViewer) : toViewer[i].sequence \in 0..last
  BY <1>1, Facts
<1>12. Joined'
  <2>1. Chain' /\ Tip'
    BY <1>1 DEF Joined, Chain, Tip, Acceptable
  <2>2. Phases' /\ Ahead' /\ Between' /\ Reports'
    BY <1>1 DEF Joined, Phases, Ahead, Between, Reports
  <2>3. Budget'
    BY <1>1, <1>5, <1>11 DEF Joined, Budget, Level
  <2>4. Credit'
    <3>1. task.sent > task.applied => task.sent - 1 \in 0..last
      BY <1>3, <1>11
    <3> QED
      BY <1>1, <1>5, <1>11, <3>1 DEF Joined, Credit
  <2> QED
    BY <2>1, <2>2, <2>3, <2>4 DEF Joined
<1>13. TypeOK'
  <2>1. Stored' /\ Typed(last)' => TypeOK'
    BY Types, PTL
  <2> QED
    BY <1>8, <1>9, <2>1
<1> QED
  BY <1>10, <1>12, <1>13 DEF IInv

-----------------------------------------------------------------------------
(* The stream task. *)

\* A task that streams goes on, or ends, without sending or being told anything.
LEMMA Quietly ==
  ASSUME IInv, task.pc \in Streaming, task'.pc \in Streaming \cup {"off"},
         task'.sent = task.sent, task'.applied = task.applied, task'.bytes = task.bytes,
         UNCHANGED <<output, toViewer, toAgent, viewer, ready, retry, shown>>
  PROVE  Joined'
<1>1. Chain /\ Tip /\ Phases /\ Ahead /\ Between /\ Reports /\ Budget /\ Credit
  BY DEF IInv, Joined
<1>2. Chain'
  BY <1>1 DEF Chain, Acceptable
<1>3. Tip'
  BY <1>1 DEF Tip, Streaming, Opening
<1>4. Phases' /\ Ahead' /\ Between' /\ Reports'
  BY <1>1 DEF Phases, Ahead, Between, Reports, Streaming
<1>5. Budget' /\ Credit'
  BY <1>1 DEF Budget, Credit, Level, Streaming
<1> QED
  BY <1>2, <1>3, <1>4, <1>5 DEF Joined

\* The same with the types.
LEMMA QuietlyIInv ==
  ASSUME IInv, task.pc \in Streaming, task'.pc \in Streaming \cup {"off"},
         task' \in Task(last),
         task'.sent = task.sent, task'.applied = task.applied, task'.bytes = task.bytes,
         UNCHANGED <<agentVars, toViewer, toAgent, viewerVars, drops>>
  PROVE  IInv'
<1>1. UNCHANGED <<output, front, ringLimit, oversized, resizing, toViewer, toAgent, viewer, ready, retry, shown, drops>>
  BY DEF agentVars, viewerVars
<1>2. Joined'
  BY <1>1, Quietly
<1>3. Typed(last)
  BY Types DEF IInv
<1>4. last' = last
  BY <1>1, Kept
<1>5. Typed(last)'
  BY <1>1, <1>3, <1>4 DEF Typed
<1> QED
  BY <1>1, <1>2, <1>5, Kept DEF IInv

\* The task that ends.
LEMMA EndFacts ==
  ASSUME TypeOK
  PROVE  /\ End \in Task(last) /\ End.pc = "off" /\ End.sent = task.sent /\ End.applied = task.applied
         /\ End.bytes = task.bytes
<1>1. task \in Task(last)
  BY Types DEF Typed
<1>2. << >> \in Seq(1..last)
  OBVIOUS
<1> QED
  BY <1>1, <1>2 DEF End, Task, TaskPc

\* The bottom of the loop.
LEMMA CheckedFacts ==
  ASSUME TypeOK, NEW t \in Task(last), t.sent = task.sent, t.bytes = task.bytes
  PROVE  /\ Checked(t) \in Task(last) /\ Checked(t).pc \in {"loop", "off"}
         /\ Checked(t).sent = task.sent /\ Checked(t).bytes = task.bytes
         /\ \/ Checked(t).applied = task.applied /\ Checked(t).pc = "off"
            \/ Checked(t).applied = t.applied
<1>1. CASE Queued(t) > PendingLimit
  <2>1. Checked(t) = End
    BY <1>1 DEF Checked
  <2> QED
    BY <2>1, EndFacts
<1>2. CASE ~(Queued(t) > PendingLimit)
  <2>1. Checked(t) = [t EXCEPT !.pc = "loop"]
    BY <1>2 DEF Checked
  <2> QED
    BY <2>1 DEF Task, TaskPc
<1> QED
  BY <1>1, <1>2

\* What the ring has is of the output.
LEMMA AfterType == ASSUME TypeOK PROVE After(task.sent) \in Seq(1..last)
<1>1. last \in Nat /\ task.sent \in 0..last /\ front \in 1..last + 1
  BY Facts
<1> DEFINE low == IF task.sent + 1 > front THEN task.sent + 1 ELSE front
           n == last - low + 1
<1>2. low \in 1..last + 1
  BY <1>1
<1>3. n \in Nat /\ After(task.sent) = [i \in 1..n |-> low + i - 1]
  BY <1>1, <1>2 DEF After
<1>4. \A i \in 1..n : low + i - 1 \in 1..last
  BY <1>1, <1>2
<1>5. After(task.sent) \in [1..n -> 1..last]
  BY <1>3, <1>4
<1> HIDE DEF n
<1> QED
  BY <1>3, <1>5, SeqDef

LEMMA FillIInv == ASSUME IInv, Fill PROVE IInv'
<1>1. TypeOK /\ task \in Task(last)
  BY Types DEF IInv, Typed
<1>2. task.pc = "loop" /\ UNCHANGED <<agentVars, toViewer, toAgent, viewerVars, drops>>
  BY DEF Fill
<1>3. CASE task' = End
  BY <1>1, <1>2, <1>3, EndFacts, QuietlyIInv DEF Streaming
<1>4. CASE task' = [task EXCEPT !.pc = "send"]
  <2>1. /\ task' \in Task(last) /\ task'.pc = "send" /\ task'.sent = task.sent
        /\ task'.applied = task.applied /\ task'.bytes = task.bytes
    BY <1>1, <1>4 DEF Task, TaskPc
  <2> QED
    BY <1>2, <2>1, QuietlyIInv DEF Streaming
<1>5. CASE task' = [task EXCEPT !.pc = "send", !.pending = After(task.sent)]
  <2>1. After(task.sent) \in Seq(1..last)
    BY <1>1, AfterType
  <2>2. /\ task' \in Task(last) /\ task'.pc = "send" /\ task'.sent = task.sent
        /\ task'.applied = task.applied /\ task'.bytes = task.bytes
    BY <1>1, <1>5, <2>1 DEF Task, TaskPc
  <2> QED
    BY <1>2, <2>2, QuietlyIInv DEF Streaming
<1> QED
  BY <1>3, <1>4, <1>5 DEF Fill

LEMMA WaitIInv == ASSUME IInv, Wait PROVE IInv'
<1>1. TypeOK /\ task \in Task(last)
  BY Types DEF IInv, Typed
<1>2. task.pc = "send" /\ UNCHANGED <<agentVars, toViewer, toAgent, viewerVars, drops>>
      /\ task' = [task EXCEPT !.pc = "select"]
  BY DEF Wait
<1>3. /\ task' \in Task(last) /\ task'.pc = "select" /\ task'.sent = task.sent
      /\ task'.applied = task.applied /\ task'.bytes = task.bytes
  BY <1>1, <1>2 DEF Task, TaskPc
<1> QED
  BY <1>2, <1>3, QuietlyIInv DEF Streaming

LEMMA RecoverIInv == ASSUME IInv, Recover PROVE IInv'
<1>1. TypeOK /\ task \in Task(last)
  BY Types DEF IInv, Typed
<1>2. task.pc = "recover" /\ UNCHANGED <<agentVars, toViewer, toAgent, viewerVars, drops>>
  BY DEF Recover
<1>3. CASE task' = End
  BY <1>1, <1>2, <1>3, EndFacts, QuietlyIInv DEF Streaming
<1> DEFINE t == [task EXCEPT !.pending = @ \o After(task.sent)]
<1>4. CASE task' = Checked(t)
  <2>1. After(task.sent) \in Seq(1..last) /\ task.pending \in Seq(1..last)
    BY <1>1, AfterType, Facts
  <2>2. task.pending \o After(task.sent) \in Seq(1..last)
    BY <2>1, ConcatProperties
  <2>3. t \in Task(last) /\ t.sent = task.sent /\ t.applied = task.applied /\ t.bytes = task.bytes
    BY <1>1, <2>2 DEF Task
  <2> HIDE DEF t
  <2>4. /\ task' \in Task(last) /\ task'.pc \in {"loop", "off"} /\ task'.sent = task.sent
        /\ task'.applied = task.applied /\ task'.bytes = task.bytes
    BY <1>1, <1>4, <2>3, CheckedFacts
  <2> QED
    BY <1>2, <2>4, QuietlyIInv DEF Streaming
<1> QED
  BY <1>3, <1>4 DEF Recover

LEMMA RecvEventIInv == ASSUME IInv, RecvEvent PROVE IInv'
<1>1. TypeOK /\ task \in Task(last)
  BY Types DEF IInv, Typed
<1>2. /\ task.pc = "select" /\ task.cursor <= last
      /\ UNCHANGED <<agentVars, toViewer, toAgent, viewerVars, drops>>
  BY DEF RecvEvent
<1>3. /\ last \in Nat /\ task.cursor \in 1..last + 1 /\ task.cursor \in 1..last /\ task.sent \in 0..last
      /\ task.pending \in Seq(1..last)
  BY <1>1, <1>2, Facts
<1>4. task.cursor + 1 \in 1..last + 1
  BY <1>3
<1> DEFINE t == [task EXCEPT !.cursor = task.cursor + 1]
           u == [t EXCEPT !.pending = Append(@, task.cursor)]
           v == [t EXCEPT !.pc = "recover"]
<1>5. CASE Lagged
  <2>1. task' = [task EXCEPT !.pc = "recover", !.cursor = last - BroadcastCap + 1]
    BY <1>5 DEF RecvEvent
  <2>2. last - BroadcastCap + 1 \in 1..last + 1
    BY <1>3, <1>5, Limits DEF Lagged
  <2>3. /\ task' \in Task(last) /\ task'.pc = "recover" /\ task'.sent = task.sent
        /\ task'.applied = task.applied /\ task'.bytes = task.bytes
    BY <1>1, <2>1, <2>2 DEF Task, TaskPc
  <2> QED
    BY <1>2, <2>3, QuietlyIInv DEF Streaming
<1>6. t \in Task(last) /\ t.sent = task.sent /\ t.applied = task.applied /\ t.bytes = task.bytes
  BY <1>1, <1>4 DEF Task
<1>7. u \in Task(last) /\ u.sent = task.sent /\ u.applied = task.applied /\ u.bytes = task.bytes
  <2>1. Append(task.pending, task.cursor) \in Seq(1..last)
    BY <1>3, Appended
  <2>2. t.pending = task.pending
    BY <1>1 DEF Task
  <2> QED
    BY <1>6, <2>1, <2>2 DEF Task
<1>8. /\ v \in Task(last) /\ v.pc = "recover" /\ v.sent = task.sent /\ v.applied = task.applied
      /\ v.bytes = task.bytes
  BY <1>6 DEF Task, TaskPc
<1>9. CASE ~Lagged
  <2>1. \/ task.cursor <= task.sent
        \/ task.cursor = task.sent + 1
        \/ task.cursor > task.sent + 1
    BY <1>3
  <2>2. task' = CASE task.cursor <= task.sent     -> Checked(t)
                  [] task.cursor = task.sent + 1  -> Checked(u)
                  [] task.cursor > task.sent + 1  -> v
    BY <1>9 DEF RecvEvent
  <2>3. task' \in {Checked(t), Checked(u), v}
    <3>1. CASE task.cursor <= task.sent
      <4>1. ~(task.cursor = task.sent + 1) /\ ~(task.cursor > task.sent + 1)
        BY <1>3, <3>1
      <4> HIDE DEF t, u, v
      <4> QED
        BY <2>2, <3>1, <4>1
    <3>2. CASE task.cursor = task.sent + 1
      <4>1. ~(task.cursor <= task.sent) /\ ~(task.cursor > task.sent + 1)
        BY <1>3, <3>2
      <4> HIDE DEF t, u, v
      <4> QED
        BY <2>2, <3>2, <4>1
    <3>3. CASE task.cursor > task.sent + 1
      <4>1. ~(task.cursor <= task.sent) /\ ~(task.cursor = task.sent + 1)
        BY <1>3, <3>3
      <4> HIDE DEF t, u, v
      <4> QED
        BY <2>2, <3>3, <4>1
    <3> QED
      BY <2>1, <3>1, <3>2, <3>3
  <2> HIDE DEF t, u, v
  <2>4. /\ task' \in Task(last) /\ task'.pc \in Streaming \cup {"off"} /\ task'.sent = task.sent
        /\ task'.applied = task.applied /\ task'.bytes = task.bytes
    <3>1. CASE task' = Checked(t)
      BY <1>1, <1>6, <3>1, CheckedFacts DEF Streaming
    <3>2. CASE task' = Checked(u)
      BY <1>1, <1>7, <3>2, CheckedFacts DEF Streaming
    <3>3. CASE task' = v
      BY <1>8, <3>3 DEF Streaming
    <3> QED
      BY <2>3, <3>1, <3>2, <3>3
  <2>5. task.pc \in Streaming
    BY <1>2 DEF Streaming
  <2> QED
    BY <1>2, <2>4, <2>5, QuietlyIInv
<1> QED
  BY <1>5, <1>9

LEMMA RecvAppliedIInv == ASSUME IInv, RecvApplied PROVE IInv'
<1> DEFINE s == Head(toAgent)
           t == [task EXCEPT !.applied = s]
<1>1. TypeOK /\ Typed(last) /\ task \in Task(last)
  BY Types DEF IInv, Typed
<1>2. /\ task.pc = "select" /\ toAgent # << >> /\ toAgent' = Tail(toAgent)
      /\ UNCHANGED <<output, front, ringLimit, oversized, resizing, toViewer, viewer, ready, retry, shown, drops>>
      /\ task' = IF s < task.applied \/ s > task.sent THEN End ELSE Checked(t)
  BY DEF RecvApplied, agentVars, viewerVars
<1>3. /\ s = toAgent[1] /\ s \in 0..last /\ Len(toAgent) \in Nat \ {0} /\ Tail(toAgent) \in Seq(0..last)
      /\ Len(Tail(toAgent)) = Len(toAgent) - 1
      /\ \A i \in 1..Len(toAgent) - 1 : Tail(toAgent)[i] = toAgent[i + 1]
  BY <1>1, <1>2, Taken DEF Typed
<1>4. /\ t \in Task(last) /\ t.sent = task.sent /\ t.applied = s /\ t.bytes = task.bytes
  BY <1>1, <1>3 DEF Task
<1> HIDE DEF s, t
<1>5. /\ task' \in Task(last) /\ task'.pc \in {"loop", "off"} /\ task'.sent = task.sent
      /\ task'.bytes = task.bytes /\ task'.applied \in {s, task.applied}
      /\ task'.pc # "off" => task'.applied = s
  <2>1. CASE task' = End
    BY <1>1, <2>1, EndFacts
  <2>2. CASE task' = Checked(t)
    BY <1>1, <1>4, <2>2, CheckedFacts
  <2> QED
    BY <1>2, <2>1, <2>2
<1>6. Chain /\ Tip /\ Phases /\ Ahead /\ Between /\ Reports /\ Budget /\ Credit /\ Growing
  BY DEF IInv, Joined
<1>7. /\ last \in Nat /\ task.sent \in 0..last /\ task.applied \in 0..last /\ viewer.sequence \in 0..last
      /\ Len(toViewer) \in Nat /\ \A i \in 1..Len(toViewer) : toViewer[i].sequence \in 0..last
      /\ \A i \in 1..Len(toAgent) : toAgent[i] \in 0..last
  BY <1>1, Facts
<1>8. viewer.phase = "live" /\ s \in task.applied..viewer.sequence /\ viewer.sequence \in task.applied..task.sent
  <2>1. 1 \in 1..Len(toAgent)
    BY <1>3
  <2> QED
    BY <1>2, <1>3, <1>6, <2>1 DEF Reports, Between
<1>9. /\ task'.applied \in task.applied..viewer.sequence /\ task'.applied \in 0..last
      /\ task'.applied <= task.sent /\ task.applied <= task'.applied
  BY <1>5, <1>7, <1>8
<1>10. last' = last /\ Growing' /\ (Typed(last)' => TypeOK')
  BY <1>2, Kept
<1>11. Typed(last)'
  BY <1>1, <1>2, <1>3, <1>5, <1>10 DEF Typed
<1>12. Chain'
  BY <1>2, <1>6 DEF Chain, Acceptable
<1>13. Tip'
  BY <1>2, <1>5, <1>6 DEF Tip, Streaming, Opening
<1>14. Phases' /\ Ahead'
  BY <1>2, <1>6, <1>8 DEF Phases, Ahead, Restoring
<1>15. Between'
  <2>1. \A i \in 1..Len(toViewer) : viewer.sequence <= toViewer[i].sequence /\ toViewer[i].sequence \in task.applied..task.sent
    BY <1>6, <1>8 DEF Between
  <2>2. \A i \in 1..Len(toViewer) : toViewer[i].sequence \in task'.applied..task.sent
    BY <1>7, <1>9, <2>1
  <2>3. viewer.sequence \in task'.applied..task.sent
    BY <1>7, <1>8, <1>9
  <2> QED
    BY <1>2, <1>5, <1>9, <2>1, <2>2, <2>3 DEF Between
<1>16. Reports'
  <2>1. SUFFICES ASSUME task'.pc # "off" PROVE Reports'
    BY DEF Reports
  <2>2. task'.applied = s
    BY <1>5, <2>1
  <2>3. ASSUME NEW i \in 1..Len(toAgent') PROVE toAgent'[i] = toAgent[i + 1] /\ i + 1 \in 1..Len(toAgent)
    BY <1>2, <1>3, <2>3
  <2>4. ASSUME NEW i \in 1..Len(toAgent') PROVE toAgent'[i] \in s..viewer.sequence
    <3>1. 1 \in 1..Len(toAgent) /\ 1 <= i + 1 /\ i + 1 \in 1..Len(toAgent)
      BY <1>3, <2>3, <2>4
    <3>2. toAgent[1] <= toAgent[i + 1] /\ toAgent[i + 1] \in task.applied..viewer.sequence
      BY <1>2, <1>6, <3>1 DEF Reports
    <3> QED
      BY <1>3, <1>7, <2>3, <3>1, <3>2
  <2>5. ASSUME NEW i \in 1..Len(toAgent'), NEW j \in 1..Len(toAgent'), i <= j PROVE toAgent'[i] <= toAgent'[j]
    <3>1. i + 1 <= j + 1 /\ i + 1 \in 1..Len(toAgent) /\ j + 1 \in 1..Len(toAgent)
      BY <1>3, <2>3, <2>5
    <3>2. toAgent[i + 1] <= toAgent[j + 1]
      BY <1>2, <1>6, <3>1 DEF Reports
    <3> QED
      BY <2>3, <3>2
  <2> QED
    BY <1>2, <1>8, <2>2, <2>4, <2>5 DEF Reports
<1>17. Budget'
  BY <1>2, <1>5, <1>6, <1>8 DEF Budget, Level, Restoring
<1>18. Credit'
  <2>1. CASE task.sent > task.applied
    <3>1. task.sent - 1 \in 0..last /\ task.applied \in 0..last
      BY <1>7, <2>1
    <3>2. Pos(output, task.sent - 1) \in Nat /\ Pos(output, task.applied) \in Nat /\ Pos(output, task'.applied) \in Nat
      BY <1>1, <1>9, <3>1, Facts, PosNat
    <3>3. Pos(output, task.applied) <= Pos(output, task'.applied)
      BY <1>6, <1>7, <1>9 DEF Growing
    <3>4. Pos(output, task.sent - 1) - Pos(output, task.applied) < Window
      BY <1>6, <2>1 DEF Credit
    <3>5. Pos(output, task.sent - 1) - Pos(output, task'.applied) < Window
      BY <3>2, <3>3, <3>4, Limits
    <3> QED
      BY <1>2, <1>5, <3>5 DEF Credit
  <2>2. CASE ~(task.sent > task.applied)
    <3>1. ~(task.sent > task'.applied)
      BY <1>7, <1>9, <2>2
    <3> QED
      BY <1>5, <3>1 DEF Credit
  <2> QED
    BY <2>1, <2>2
<1> QED
  BY <1>10, <1>11, <1>12, <1>13, <1>14, <1>15, <1>16, <1>17, <1>18 DEF IInv, Joined

LEMMA SnapshotIInv == ASSUME IInv, Subscribe, ~oversized PROVE IInv'
<1>1. TypeOK /\ Typed(last) /\ Chain /\ Tip /\ Phases /\ Between /\ Reports
  BY Types DEF IInv, Joined
<1>2. /\ task.pc = "subscribe" /\ UNCHANGED <<output, front, ringLimit, oversized, resizing, toViewer, toAgent, viewer, ready, retry, shown, drops>>
      /\ task' = [NoTask EXCEPT !.pc = "meta", !.sent = last, !.applied = last, !.cursor = last + 1]
  BY DEF Subscribe, agentVars, viewerVars
<1>3. last \in Nat /\ shown \in 0..last /\ output \in Seq(Nat) /\ last = Len(output)
  BY <1>1, Facts
<1>4. toViewer = << >> /\ viewer.phase = "awaiting"
  BY <1>1, <1>2 DEF Tip
<1>5. /\ task'.pc = "meta" /\ task'.sent = last /\ task'.applied = last /\ task'.cursor = last + 1
      /\ task'.pending = << >> /\ task'.bytes = 0
  BY <1>2 DEF NoTask
<1>6. task' \in Task(last)
  <2>1. << >> \in Seq(1..last) /\ last \in 0..last /\ last + 1 \in 1..last + 1
    BY <1>3
  <2> QED
    BY <1>2, <2>1 DEF NoTask, Task, TaskPc
<1>7. last' = last /\ Growing' /\ (Typed(last)' => TypeOK')
  BY <1>2, Kept
<1>8. Typed(last)'
  BY <1>1, <1>2, <1>6, <1>7 DEF Typed
<1>9. Pos(output, last) \in Nat
  BY <1>3, PosNat
<1>10. Chain' /\ Tip' /\ Phases'
  BY <1>1, <1>2, <1>4, <1>5 DEF Chain, Tip, Phases, Acceptable, Opening, Streaming, Restoring
<1>11. Ahead' /\ Between' /\ Credit'
  BY <1>1, <1>2, <1>3, <1>4, <1>5 DEF Ahead, Between, Credit, Restoring
<1>12. Reports'
  <2>1. toAgent = << >>
    BY <1>1, <1>2, <1>4 DEF Reports
  <2> QED
    BY <1>2, <2>1 DEF Reports
<1>13. Budget'
  <2>1. 0 <= SnapshotCost + Pos(output, last) - Pos(output, last)
    BY <1>9, Limits
  <2> QED
    BY <1>2, <1>4, <1>5, <2>1 DEF Budget, Restoring
<1> QED
  BY <1>7, <1>8, <1>10, <1>11, <1>12, <1>13 DEF IInv, Joined

\* A task whose snapshot is too large ends; it had sent nothing.
LEMMA RefusedIInv == ASSUME IInv, Subscribe, oversized PROVE IInv'
<1>1. TypeOK /\ Typed(last) /\ Chain /\ Tip /\ Phases /\ Ahead /\ Between /\ Reports /\ Budget /\ Credit
  BY Types DEF IInv, Joined
<1>2. /\ task.pc = "subscribe" /\ task' = End
      /\ UNCHANGED <<output, front, ringLimit, oversized, resizing, toViewer, toAgent, viewer, ready, retry, shown, drops>>
  BY DEF Subscribe, agentVars, viewerVars
<1>3. toViewer = << >> /\ viewer.phase = "awaiting"
  BY <1>1, <1>2 DEF Tip
<1>4. /\ task' \in Task(last) /\ task'.pc = "off" /\ task'.sent = task.sent
      /\ task'.applied = task.applied /\ task'.bytes = task.bytes
  BY <1>1, <1>2, EndFacts
<1>5. last' = last /\ Growing' /\ (Typed(last)' => TypeOK')
  BY <1>2, Kept
<1>6. Typed(last)'
  BY <1>1, <1>2, <1>4, <1>5 DEF Typed
<1>7. Chain' /\ Tip' /\ Phases'
  BY <1>1, <1>2, <1>3, <1>4 DEF Chain, Tip, Phases, Opening, Streaming
<1>8. Ahead' /\ Between' /\ Reports'
  BY <1>1, <1>2, <1>3, <1>4 DEF Ahead, Between, Reports
<1>9. Budget' /\ Credit'
  BY <1>1, <1>2, <1>3, <1>4 DEF Budget, Credit, Restoring
<1> QED
  BY <1>5, <1>6, <1>7, <1>8, <1>9 DEF IInv, Joined

LEMMA SubscribeIInv == ASSUME IInv, Subscribe PROVE IInv'
BY SnapshotIInv, RefusedIInv

\* What a frame that joins the socket does to the sequence of frames.
LEMMA FrameSent ==
  ASSUME TypeOK, Chain, NEW f \in Frames(last), toViewer' = Append(toViewer, f),
         UNCHANGED viewer,
         toViewer = << >> => Acceptable(f),
         toViewer # << >> => Follows(toViewer[Len(toViewer)], f),
         \A i \in 1..Len(toViewer) : toViewer[i].sequence <= f.sequence
  PROVE  /\ Chain' /\ toViewer' \in Seq(Frames(last)) /\ toViewer' # << >>
         /\ Len(toViewer') = Len(toViewer) + 1 /\ Len(toViewer) \in Nat
         /\ toViewer'[Len(toViewer')] = f
         /\ \A i \in 1..Len(toViewer') : \/ i \in 1..Len(toViewer) /\ toViewer'[i] = toViewer[i]
                                         \/ i = Len(toViewer) + 1 /\ toViewer'[i] = f
<1> DEFINE n == Len(toViewer)
<1>1. /\ toViewer \in Seq(Frames(last)) /\ (toViewer = << >> <=> n = 0) /\ n \in Nat
      /\ \A i \in 1..n : toViewer[i].sequence \in 0..last
  BY Facts
<1>2. /\ toViewer' \in Seq(Frames(last)) /\ toViewer' # << >> /\ Len(toViewer') = n + 1
      /\ toViewer'[n + 1] = f /\ \A i \in 1..n : toViewer'[i] = toViewer[i]
  BY <1>1, Appended
<1>3. f.sequence \in 0..last /\ last \in Nat
  BY Facts DEF Frames
<1> HIDE DEF n
<1>4. \A i \in 1..Len(toViewer') : \/ i \in 1..n /\ toViewer'[i] = toViewer[i]
                                   \/ i = n + 1 /\ toViewer'[i] = f
  BY <1>1, <1>2
<1>5. ASSUME NEW i \in 1..Len(toViewer') - 1 PROVE Follows(toViewer'[i], toViewer'[i + 1])
  <2>1. CASE i = n
    <3>1. n \in 1..n /\ toViewer # << >> /\ toViewer'[i] = toViewer[n] /\ toViewer'[i + 1] = f
      BY <1>1, <1>2, <1>5, <2>1
    <3> QED
      BY <3>1 DEF n
  <2>2. CASE i # n
    <3>1. i \in 1..n - 1 /\ i \in 1..n /\ i + 1 \in 1..n
      BY <1>1, <1>2, <1>5, <2>2
    <3>2. toViewer'[i] = toViewer[i] /\ toViewer'[i + 1] = toViewer[i + 1]
      BY <1>2, <3>1
    <3> QED
      BY <3>1, <3>2 DEF Chain, n
  <2> QED
    BY <2>1, <2>2
<1>6. ASSUME NEW i \in 1..Len(toViewer'), NEW j \in 1..Len(toViewer'), i <= j
      PROVE  toViewer'[i].sequence <= toViewer'[j].sequence
  <2>1. CASE j = n + 1
    <3>1. CASE i = n + 1
      BY <1>2, <1>3, <2>1, <3>1
    <3>2. CASE i \in 1..n
      BY <1>2, <2>1, <3>2 DEF n
    <3> QED
      BY <1>4, <3>1, <3>2
  <2>2. CASE j \in 1..n
    <3>1. i \in 1..n
      BY <1>1, <1>6, <2>2
    <3> QED
      BY <1>2, <1>6, <2>2, <3>1 DEF Chain, n
  <2> QED
    BY <1>4, <2>1, <2>2
<1>7. Acceptable(toViewer'[1])
  <2>1. CASE toViewer = << >>
    BY <1>1, <1>2, <2>1
  <2>2. CASE toViewer # << >>
    <3>1. 1 \in 1..n
      BY <1>1, <2>2
    <3> QED
      BY <1>2, <2>2, <3>1 DEF Chain
  <2> QED
    BY <2>1, <2>2
<1>8. Acceptable(toViewer[1])'
  BY <1>7 DEF Acceptable
<1>9. Chain'
  BY <1>5, <1>6, <1>8 DEF Chain
<1> QED
  BY <1>1, <1>2, <1>4, <1>9 DEF n

LEMMA SendSnapshotIInv == ASSUME IInv, SendSnapshot PROVE IInv'
<1>1. /\ TypeOK /\ Typed(last) /\ task \in Task(last)
      /\ Chain /\ Tip /\ Phases /\ Ahead /\ Between /\ Reports /\ Budget /\ Credit
  BY Types DEF IInv, Joined, Typed
<1>2. /\ task.pc \in Opening
      /\ UNCHANGED <<output, front, ringLimit, oversized, resizing, toAgent, viewer, ready, retry, shown, drops>>
      /\ toViewer' = Append(toViewer, [kind |-> task.pc, sequence |-> task.sent, end |-> task'.bytes])
  BY DEF SendSnapshot, agentVars, viewerVars, Opening, Frame
<1>3. /\ task' \in Task(last) /\ task'.sent = task.sent /\ task'.applied = task.applied
      /\ task'.bytes = IF task.pc = "chunk" THEN task.bytes + SnapshotCost ELSE task.bytes
      /\ task.pc = "meta" => task'.pc = "chunk"
      /\ task.pc = "chunk" => task'.pc = "end"
      /\ task.pc = "end" => task'.pc = "loop"
  <2>1. CASE task.pc = "meta" /\ task' = [task EXCEPT !.pc = "chunk"]
    BY <1>1, <2>1 DEF Task, TaskPc
  <2>2. CASE task.pc = "chunk" /\ task' = [task EXCEPT !.pc = "end", !.bytes = @ + SnapshotCost]
    <3>0. task.bytes \in Nat /\ SnapshotCost \in Nat
      BY <1>1, Facts, Limits
    <3>1. task.bytes + SnapshotCost \in Nat
      BY <3>0
    <3> QED
      BY <1>1, <2>2, <3>1 DEF Task, TaskPc
  <2>3. CASE task.pc = "end" /\ task' = [task EXCEPT !.pc = "loop"]
    BY <1>1, <2>3 DEF Task, TaskPc
  <2> QED
    BY <2>1, <2>2, <2>3 DEF SendSnapshot
<1>4. /\ last \in Nat /\ task.sent \in 0..last /\ task.bytes \in Nat /\ viewer.sequence \in 0..last
      /\ Len(toViewer) \in Nat /\ \A i \in 1..Len(toViewer) : toViewer[i].sequence \in 0..last
      /\ output \in Seq(Nat) /\ last = Len(output) /\ shown \in 0..last
  BY <1>1, Facts
<1> DEFINE f == [kind |-> task.pc, sequence |-> task.sent, end |-> task'.bytes]
<1>5. /\ f.kind = task.pc /\ f.sequence = task.sent /\ f.end = task'.bytes
      /\ toViewer' = Append(toViewer, f)
  BY <1>2
<1>6. f \in Frames(last)
  <2>1. task'.bytes \in Nat
    BY <1>3, <1>4, Limits
  <2> QED
    BY <1>2, <1>4, <2>1 DEF Frames, Kinds, Opening
<1> HIDE DEF f
<1>7. viewer.phase \in Restoring /\ viewer.phase # "closed" /\ task.sent = task.applied
  BY <1>1, <1>2 DEF Tip, Restoring
<1>8. toViewer = << >> => Acceptable(f)
  BY <1>1, <1>2, <1>5 DEF Tip, Acceptable, Opening
<1>9. toViewer # << >> => Follows(toViewer[Len(toViewer)], f)
  BY <1>1, <1>2, <1>5 DEF Tip, Follows, Opening
<1>10. \A i \in 1..Len(toViewer) : toViewer[i].sequence <= f.sequence
  BY <1>1, <1>4, <1>5, <1>7 DEF Between
<1>11. /\ Chain' /\ toViewer' \in Seq(Frames(last)) /\ toViewer' # << >>
       /\ toViewer'[Len(toViewer')] = f
       /\ \A i \in 1..Len(toViewer') : \/ i \in 1..Len(toViewer) /\ toViewer'[i] = toViewer[i]
                                       \/ i = Len(toViewer) + 1 /\ toViewer'[i] = f
  BY <1>1, <1>2, <1>5, <1>6, <1>8, <1>9, <1>10, FrameSent
<1>12. last' = last /\ Growing' /\ (Typed(last)' => TypeOK')
  BY <1>2, Kept
<1>13. Typed(last)'
  BY <1>1, <1>2, <1>3, <1>11, <1>12 DEF Typed
<1>14. Tip'
  <2>1. task'.pc \in Opening => \A i \in 1..Len(toViewer') : toViewer'[i].kind \notin Final
    BY <1>1, <1>2, <1>3, <1>5, <1>11 DEF Tip, Opening, Final
  <2>2. task'.pc \in Opening => task'.sent = task'.applied /\ viewer'.phase \in Restoring
    BY <1>2, <1>3, <1>7
  <2>3. task'.pc \in {"chunk", "end", "loop"}
    BY <1>2, <1>3 DEF Opening
  <2>4. toViewer'[Len(toViewer')].sequence = task'.sent
    BY <1>3, <1>5, <1>11
  <2>5. /\ task'.pc = "chunk" => toViewer'[Len(toViewer')].kind = "meta"
        /\ task'.pc = "end" => toViewer'[Len(toViewer')].kind = "chunk"
        /\ task'.pc \in Streaming => toViewer'[Len(toViewer')].kind \in Final
    BY <1>2, <1>3, <1>5, <1>11 DEF Opening, Final, Streaming
  <2> QED
    BY <1>11, <2>1, <2>2, <2>3, <2>4, <2>5 DEF Tip
<1>15. Phases'
  BY <1>1, <1>2, <1>7 DEF Phases
<1>16. Ahead'
  <2>1. shown <= task.applied
    BY <1>1, <1>2, <1>7 DEF Ahead, Opening
  <2> QED
    BY <1>1, <1>2, <1>3, <2>1 DEF Ahead
<1>17. Between'
  <2>1. viewer.sequence \in task.applied..task.sent \/ viewer.phase = "awaiting"
    BY <1>1, <1>7 DEF Between
  <2>2. /\ f.sequence \in task.applied..task.sent
        /\ viewer.phase # "awaiting" => viewer.sequence <= f.sequence
    BY <1>4, <1>5, <1>7, <2>1
  <2> QED
    BY <1>1, <1>2, <1>3, <1>7, <1>11, <2>1, <2>2 DEF Between
<1>18. Reports'
  <2>1. task.pc # "off" /\ task'.pc # "off"
    BY <1>2, <1>3 DEF Opening
  <2> QED
    BY <1>1, <1>2, <1>3, <2>1 DEF Reports
<1>19. Budget'
  <2>1. Pos(output, task.sent) \in Nat
    BY <1>4, PosNat
  <2>2. task'.bytes <= SnapshotCost + Pos(output, task.sent) - Pos(output, task.applied)
    <3>1. CASE task.pc = "chunk"
      <4>1. task.bytes = 0
        BY <1>1, <1>7, <3>1 DEF Budget
      <4> QED
        BY <1>3, <1>7, <2>1, <3>1, <4>1, Limits
    <3>2. CASE task.pc # "chunk"
      BY <1>1, <1>3, <1>7, <3>2 DEF Budget
    <3> QED
      BY <3>1, <3>2
  <2>3. task'.pc = "chunk" => task'.bytes = 0
    BY <1>1, <1>2, <1>3, <1>7 DEF Budget, Opening
  <2>4. f.kind \in Final => Level(output, task', f.sequence, f.end)
    BY <1>3, <1>4, <1>5, <2>1, Limits DEF Level
  <2>5. f.kind \notin Final => f.end <= SnapshotCost /\ f.sequence = task'.applied
    <3>1. CASE task.pc = "end"
      BY <1>5, <3>1 DEF Final
    <3>2. CASE task.pc \in {"meta", "chunk"}
      <4>1. task.bytes = 0
        BY <1>1, <1>7, <3>2 DEF Budget
      <4> QED
        BY <1>3, <1>5, <1>7, <3>2, <4>1, Limits
    <3> QED
      BY <1>2, <3>1, <3>2 DEF Opening
  <2>6. \A i \in 1..Len(toViewer) : toViewer[i].kind \notin Final
    BY <1>1, <1>2 DEF Tip
  <2>7. ASSUME NEW i \in 1..Len(toViewer')
        PROVE  /\ toViewer'[i].kind \in Final => Level(output, task', toViewer'[i].sequence, toViewer'[i].end)
               /\ toViewer'[i].kind \notin Final =>
                    toViewer'[i].end <= SnapshotCost /\ toViewer'[i].sequence = task'.applied
    <3>1. CASE i \in 1..Len(toViewer) /\ toViewer'[i] = toViewer[i]
      BY <1>1, <1>3, <1>7, <2>6, <3>1 DEF Budget
    <3>2. CASE toViewer'[i] = f
      BY <2>4, <2>5, <3>2
    <3> QED
      BY <1>11, <2>7, <3>1, <3>2
  <2>8. viewer'.phase # "live" /\ task'.pc \notin {"subscribe", "meta"}
    BY <1>2, <1>3, <1>7 DEF Restoring, Opening
  <2> QED
    BY <1>2, <1>3, <2>2, <2>3, <2>7, <2>8 DEF Budget
<1>20. Credit'
  BY <1>1, <1>2, <1>3 DEF Credit
<1> QED
  BY <1>11, <1>12, <1>13, <1>14, <1>15, <1>16, <1>17, <1>18, <1>19, <1>20 DEF IInv, Joined

\* Arithmetic of a frame that is sent, and of what the viewer holds.
LEMMA Successor == ASSUME NEW l \in Nat, NEW a \in 0..l, NEW b \in 1..l, b = a + 1
                   PROVE  b \in 0..l /\ a <= b /\ b - 1 = a
OBVIOUS

LEMMA Shifted ==
  ASSUME NEW e \in Nat, NEW p \in Nat, NEW q \in Nat, NEW b \in Nat, NEW m \in Nat
  PROVE  /\ e + p = b + m => e + q = b + (q - p) + m
         /\ p <= q => q - p \in Nat /\ b + (q - p) \in Nat
         /\ b + (q - p) + p = b + q
OBVIOUS

LEMMA Bounded ==
  ASSUME NEW a \in Nat, NEW b \in Nat, NEW c \in Nat, NEW d \in Nat, NEW e \in Nat, NEW r \in Nat,
         NEW s \in Nat, NEW t \in Nat, NEW v \in Nat, NEW w \in Nat, NEW x \in Nat,
         b - a <= w - 1 + c, s + (w - 1) + c <= r, d <= b, x + b = t + d
  PROVE  /\ v + b = t + e /\ a <= e => x - v <= r
         /\ t <= s + b - a => x - v <= r
OBVIOUS

LEMMA SendIInv == ASSUME IInv, Send PROVE IInv'
<1> DEFINE n == Head(task.pending)
<1>1. /\ TypeOK /\ Typed(last) /\ task \in Task(last) /\ Stored /\ Growing
      /\ Chain /\ Tip /\ Phases /\ Ahead /\ Between /\ Reports /\ Budget /\ Credit
  BY Types DEF IInv, Joined, Typed
<1>2. /\ task.pc = "send" /\ task.pending # << >> /\ Unacked < Window
      /\ UNCHANGED <<output, front, ringLimit, oversized, resizing, toAgent, viewer, ready, retry, shown, drops>>
  BY DEF Send, HasCredit, agentVars, viewerVars
<1>3. CASE n # task.sent + 1
  <2>1. task' = End /\ UNCHANGED <<agentVars, toViewer, toAgent, viewerVars, drops>>
    BY <1>3 DEF Send
  <2> QED
    BY <1>1, <1>2, <2>1, EndFacts, QuietlyIInv DEF Streaming
<1>4. CASE n = task.sent + 1
  <2>1. /\ task' = [task EXCEPT !.pc = "loop", !.sent = n, !.pending = Tail(@), !.bytes = @ + Cost(n)]
        /\ toViewer' = Append(toViewer, [kind |-> "output", sequence |-> n, end |-> task'.bytes])
    BY <1>4 DEF Send, Sent, Frame
  <2>2. /\ last \in Nat /\ task.sent \in 0..last /\ task.applied \in 0..last /\ task.bytes \in Nat
        /\ viewer.sequence \in 0..last /\ task.pending \in Seq(1..last) /\ viewer.bytes \in Nat
        /\ Len(toViewer) \in Nat /\ \A i \in 1..Len(toViewer) : toViewer[i].sequence \in 0..last
        /\ output \in Seq(Nat) /\ last = Len(output) /\ shown \in 0..last
        /\ \A i \in 1..Len(toViewer) : toViewer[i].end \in Nat
    BY <1>1, Facts
  <2>3. n \in 1..last /\ Tail(task.pending) \in Seq(1..last)
    BY <1>2, <2>2, Taken
  <2> HIDE DEF n
  <2>4. \A m \in 0..last : Pos(output, m) \in Nat
    BY <2>2, PosNat
  <2>5. /\ Pos(output, n) \in Nat /\ Pos(output, task.sent) \in Nat /\ Pos(output, task.applied) \in Nat
        /\ Pos(output, task.sent) <= Pos(output, n) /\ n - 1 = task.sent
        /\ Cost(n) = Pos(output, n) - Pos(output, task.sent) /\ Cost(n) \in Nat
        /\ Unacked = Pos(output, task.sent) - Pos(output, task.applied)
    <3>0. last \in Nat /\ task.sent \in 0..last /\ n \in 1..last
      BY <2>2, <2>3
    <3>1. n \in 0..last /\ task.sent <= n /\ n - 1 = task.sent
      BY <1>4, <3>0, Successor
    <3>2. Pos(output, task.sent) <= Pos(output, n)
      BY <1>1, <2>2, <3>1 DEF Growing
    <3>3. Cost(n) = Pos(output, n) - Pos(output, task.sent)
      BY <3>1, Positions
    <3>4. Pos(output, n) \in Nat /\ Pos(output, task.sent) \in Nat /\ Pos(output, task.applied) \in Nat
      BY <2>2, <2>4, <3>1
    <3>5. Cost(n) \in Nat
      BY <3>2, <3>3, <3>4
    <3> QED
      BY <3>1, <3>2, <3>3, <3>4, <3>5, Positions
  <2>6. /\ task' \in Task(last) /\ task'.pc = "loop" /\ task'.sent = n /\ task'.applied = task.applied
        /\ task'.bytes = task.bytes + Cost(n) /\ task'.bytes \in Nat
    <3>0. task.bytes \in Nat /\ Cost(n) \in Nat /\ last \in Nat /\ n \in 1..last
      BY <2>2, <2>3, <2>5
    <3>1. task.bytes + Cost(n) \in Nat /\ n \in 0..last
      BY <3>0
    <3> QED
      BY <1>1, <2>1, <2>3, <3>1 DEF Task, TaskPc
  <2> DEFINE f == [kind |-> "output", sequence |-> n, end |-> task'.bytes]
  <2>7. /\ f.kind = "output" /\ f.sequence = n /\ f.end = task'.bytes /\ toViewer' = Append(toViewer, f)
        /\ f \in Frames(last)
    <3>1. n \in 0..last
      BY <2>2, <2>3
    <3> QED
      BY <2>1, <2>6, <3>1 DEF Frames, Kinds
  <2> HIDE DEF f
  <2>8. viewer.phase # "closed"
    BY <1>1, <1>2 DEF Phases
  <2>9. toViewer = << >> => Acceptable(f)
    BY <1>1, <1>2, <1>4, <2>7 DEF Tip, Acceptable, Streaming
  <2>10. toViewer # << >> => Follows(toViewer[Len(toViewer)], f)
    BY <1>1, <1>2, <1>4, <2>7 DEF Tip, Follows, Streaming
  <2>11. \A i \in 1..Len(toViewer) : toViewer[i].sequence <= f.sequence
    BY <1>1, <1>4, <2>2, <2>7, <2>8 DEF Between
  <2>12. /\ Chain' /\ toViewer' \in Seq(Frames(last)) /\ toViewer' # << >>
         /\ toViewer'[Len(toViewer')] = f
         /\ \A i \in 1..Len(toViewer') : \/ i \in 1..Len(toViewer) /\ toViewer'[i] = toViewer[i]
                                         \/ i = Len(toViewer) + 1 /\ toViewer'[i] = f
    BY <1>1, <1>2, <2>7, <2>9, <2>10, <2>11, FrameSent
  <2>13. last' = last /\ Growing' /\ (Typed(last)' => TypeOK')
    BY <1>2, Kept
  <2>14. Typed(last)'
    BY <1>1, <1>2, <2>6, <2>12, <2>13 DEF Typed
  <2>15. Tip'
    BY <2>6, <2>7, <2>12 DEF Tip, Opening, Streaming, Final
  <2>16. Phases'
    BY <1>1, <1>2, <2>8 DEF Phases
  <2>17. Ahead'
    BY <1>1, <1>2, <2>6 DEF Ahead
  <2>18. Between'
    <3>1. task.applied <= task.sent /\ task.applied <= n /\ task.sent <= n
      BY <1>1, <1>4, <2>2, <2>8 DEF Between
    <3>2. ASSUME NEW i \in 1..Len(toViewer')
          PROVE  /\ toViewer'[i].sequence \in task.applied..n
                 /\ viewer.phase # "awaiting" => viewer.sequence <= toViewer'[i].sequence
      <4>1. CASE i \in 1..Len(toViewer) /\ toViewer'[i] = toViewer[i]
        <5>1. /\ toViewer[i].sequence \in task.applied..task.sent
              /\ viewer.phase # "awaiting" => viewer.sequence <= toViewer[i].sequence
          BY <1>1, <2>8, <4>1 DEF Between
        <5> QED
          BY <2>2, <2>3, <3>1, <4>1, <5>1
      <4>2. CASE toViewer'[i] = f
        <5>1. viewer.phase # "awaiting" => viewer.sequence <= task.sent
          BY <1>1, <2>2, <2>8 DEF Between
        <5>2. /\ last \in Nat /\ n \in 1..last /\ task.applied \in 0..last /\ task.sent \in 0..last
              /\ viewer.sequence \in 0..last
          BY <2>2, <2>3
        <5>3. n \in task.applied..n /\ (viewer.phase # "awaiting" => viewer.sequence <= n)
          BY <3>1, <5>1, <5>2
        <5> QED
          BY <2>7, <4>2, <5>3
      <4> QED
        BY <2>12, <3>2, <4>1, <4>2
    <3>3. viewer.phase # "awaiting" => viewer.sequence \in task.applied..n
      <4>1. viewer.phase # "awaiting" => viewer.sequence \in task.applied..task.sent
        BY <1>1, <2>8 DEF Between
      <4> QED
        BY <2>2, <2>3, <3>1, <4>1
    <3> QED
      BY <1>2, <2>6, <3>1, <3>2, <3>3 DEF Between
  <2>19. Reports'
    BY <1>1, <1>2, <2>6 DEF Reports
  <2>20. Budget'
    <3>1. ASSUME NEW m \in 0..last, NEW e \in Nat, Level(output, task, m, e) PROVE Level(output, task', m, e)
      <4>1. e + Pos(output, task.sent) = task.bytes + Pos(output, m) /\ Pos(output, m) \in Nat
        BY <2>4, <3>1 DEF Level
      <4>2. e + Pos(output, n) = task.bytes + Cost(n) + Pos(output, m)
        <5>1. task.bytes \in Nat /\ Pos(output, n) \in Nat /\ Pos(output, task.sent) \in Nat
          BY <2>2, <2>5
        <5>2. e + Pos(output, n) = task.bytes + (Pos(output, n) - Pos(output, task.sent)) + Pos(output, m)
          BY <4>1, <5>1, Shifted
        <5> QED
          BY <2>5, <5>2
      <4> QED
        BY <2>6, <4>2 DEF Level
    <3>2. Level(output, task', f.sequence, f.end)
      BY <2>5, <2>6, <2>7 DEF Level
    <3>3. ASSUME NEW i \in 1..Len(toViewer')
          PROVE  /\ toViewer'[i].kind \in Final => Level(output, task', toViewer'[i].sequence, toViewer'[i].end)
                 /\ toViewer'[i].kind \notin Final =>
                      /\ toViewer'[i].end <= SnapshotCost
                      /\ viewer.phase \in Restoring => toViewer'[i].sequence = task.applied
      <4>1. CASE i \in 1..Len(toViewer) /\ toViewer'[i] = toViewer[i]
        BY <1>1, <2>2, <2>8, <3>1, <4>1 DEF Budget
      <4>2. CASE toViewer'[i] = f
        BY <2>7, <3>2, <4>2 DEF Final
      <4> QED
        BY <2>12, <3>3, <4>1, <4>2
    <3>4. viewer.phase = "live" => Level(output, task', viewer.sequence, viewer.bytes)
      BY <1>1, <2>2, <2>8, <3>1 DEF Budget
    <3>5. viewer.phase \in Restoring =>
            task'.bytes <= SnapshotCost + Pos(output, n) - Pos(output, task.applied)
      <4>1. viewer.phase \in Restoring =>
              task.bytes <= SnapshotCost + Pos(output, task.sent) - Pos(output, task.applied)
        BY <1>1, <2>8 DEF Budget
      <4>2. PICK b \in Nat, p \in Nat, q \in Nat, a \in Nat, s \in Nat :
              /\ b = task.bytes /\ p = Pos(output, task.sent) /\ q = Pos(output, n)
              /\ a = Pos(output, task.applied) /\ s = SnapshotCost
        BY <2>2, <2>5, Limits
      <4>3. task'.bytes = b + (q - p)
        BY <2>5, <2>6, <4>2
      <4>4. b <= s + p - a => b + (q - p) <= s + q - a
        OBVIOUS
      <4> QED
        BY <4>1, <4>2, <4>3, <4>4
    <3> QED
      BY <1>2, <2>6, <3>3, <3>4, <3>5 DEF Budget
  <2>21. Credit'
    <3>1. Pos(output, n - 1) - Pos(output, task.applied) < Window
      BY <1>2, <2>5
    <3> QED
      BY <1>2, <2>6, <3>1 DEF Credit
  <2> QED
    BY <2>12, <2>13, <2>14, <2>15, <2>16, <2>17, <2>18, <2>19, <2>20, <2>21 DEF IInv, Joined
<1> QED
  BY <1>3, <1>4

-----------------------------------------------------------------------------
(* The viewer and the network. *)

\* What the viewer may have to hold is below its budget.
LEMMA Holds == IInv => Backlog <= RenderLimit
<1> SUFFICES ASSUME IInv PROVE Backlog <= RenderLimit
  OBVIOUS
<1>1. TypeOK /\ Growing /\ Stored /\ Phases /\ Between /\ Budget /\ Credit
  BY Types DEF IInv, Joined
<1>2. /\ last \in Nat /\ task.sent \in 0..last /\ task.applied \in 0..last /\ task.bytes \in Nat
      /\ viewer.sequence \in 0..last /\ viewer.bytes \in Nat /\ viewer.phase \in Phase
      /\ Len(toViewer) \in Nat /\ (toViewer = << >> <=> Len(toViewer) = 0)
      /\ \A i \in 1..Len(toViewer) : toViewer[i].sequence \in 0..last /\ toViewer[i].end \in Nat
      /\ output \in Seq(Nat) /\ last = Len(output)
  BY <1>1, Facts
<1>3. \A m \in 0..last : Pos(output, m) \in Nat
  BY <1>2, PosNat
<1>4. CASE toViewer = << >>
  BY <1>4, Limits DEF Backlog
<1>5. CASE toViewer # << >>
  <2> DEFINE k == Len(toViewer)
             f == toViewer[k]
  <2>1. k \in 1..Len(toViewer) /\ viewer.phase # "closed" /\ viewer.phase # "failed"
    BY <1>1, <1>2, <1>5 DEF Phases
  <2>2. /\ f.sequence \in task.applied..task.sent /\ f.sequence \in 0..last /\ f.end \in Nat
        /\ task.applied <= task.sent
        /\ viewer.phase # "awaiting" => viewer.sequence \in task.applied..task.sent
    BY <1>1, <1>2, <2>1 DEF Between
  <2>3. Backlog = f.end - viewer.bytes
    BY <1>5 DEF Backlog
  <2>4. /\ f.kind \in Final => Level(output, task, f.sequence, f.end)
        /\ f.kind \notin Final => f.end <= SnapshotCost
    BY <1>1, <2>1 DEF Budget
  <2> HIDE DEF f, k
  <2>5. /\ Pos(output, f.sequence) <= Pos(output, task.sent)
        /\ Pos(output, task.applied) <= Pos(output, task.sent)
        /\ viewer.phase # "awaiting" => Pos(output, task.applied) <= Pos(output, viewer.sequence)
    BY <1>1, <1>2, <2>2 DEF Growing
  <2>6. PICK a \in Nat, b \in Nat, d \in Nat, e \in Nat :
          /\ a = Pos(output, task.applied) /\ b = Pos(output, task.sent)
          /\ d = Pos(output, f.sequence) /\ e = Pos(output, viewer.sequence)
    BY <1>2, <1>3, <2>2
  <2>7. PICK c \in Costs : b - a <= Window - 1 + c
    <3>1. CASE task.sent = task.applied
      <4>1. ResizeCost \in Costs /\ ResizeCost \in Nat /\ b = a /\ Window \in Nat \ {0}
        BY <2>6, <3>1, Limits
      <4>2. b - a <= Window - 1 + ResizeCost
        BY <2>6, <4>1
      <4> QED
        BY <4>1, <4>2
    <3>2. CASE task.sent > task.applied
      <4>1. task.sent \in 1..last /\ task.sent - 1 \in 0..last
        BY <1>2, <3>2
      <4>2. Cost(task.sent) \in Costs /\ Cost(task.sent) = Pos(output, task.sent) - Pos(output, task.sent - 1)
        BY <1>1, <4>1, Positions DEF Stored
      <4>3. Pos(output, task.sent - 1) - a < Window /\ Pos(output, task.sent - 1) \in Nat
        BY <1>1, <1>3, <2>6, <3>2, <4>1 DEF Credit
      <4>4. Cost(task.sent) \in Nat /\ Window \in Nat
        BY <4>2, Limits
      <4>5. b - a <= Window - 1 + Cost(task.sent)
        BY <2>6, <4>2, <4>3, <4>4
      <4> QED
        BY <4>2, <4>5
    <3> QED
      BY <1>2, <2>2, <3>1, <3>2
  <2>8. SnapshotCost + (Window - 1) + c <= RenderLimit /\ c \in Nat /\ Window \in Nat \ {0} /\ SnapshotCost \in Nat
        /\ RenderLimit \in Nat
    BY <2>7, Limits
  <2>9. CASE f.kind \notin Final
    BY <1>2, <2>2, <2>3, <2>4, <2>8, <2>9
  <2>10. CASE f.kind \in Final /\ viewer.phase = "live"
    <3>1. f.end + b = task.bytes + d /\ viewer.bytes + b = task.bytes + e
      BY <1>1, <2>4, <2>6, <2>10 DEF Budget, Level
    <3>2. d <= b /\ a <= e
      BY <2>5, <2>6, <2>10
    <3>3. task.bytes \in Nat /\ viewer.bytes \in Nat /\ f.end \in Nat
      BY <1>2, <2>2
    <3>4. f.end - viewer.bytes <= RenderLimit
      BY <2>7, <2>8, <3>1, <3>2, <3>3, Bounded
    <3> QED
      BY <2>3, <3>4
  <2>11. CASE f.kind \in Final /\ viewer.phase \in Restoring
    <3>1. f.end + b = task.bytes + d
      BY <2>4, <2>6, <2>11 DEF Level
    <3>2. task.bytes <= SnapshotCost + b - a
      BY <1>1, <2>1, <2>6, <2>11 DEF Budget
    <3>3. d <= b
      BY <2>5, <2>6
    <3>4. task.bytes \in Nat /\ viewer.bytes \in Nat /\ f.end \in Nat
      BY <1>2, <2>2
    <3>5. f.end - viewer.bytes <= RenderLimit
      BY <2>7, <2>8, <3>1, <3>2, <3>3, <3>4, Bounded
    <3> QED
      BY <2>3, <3>5
  <2>12. viewer.phase = "live" \/ viewer.phase \in Restoring
    BY <1>2, <2>1 DEF Phase, Restoring
  <2> QED
    BY <2>9, <2>10, <2>11, <2>12
<1> QED
  BY <1>4, <1>5

\* A viewer that has frames to apply accepts the first.
LEMMA Accepts ==
  ASSUME IInv, ApplyFrame
  PROVE  /\ toViewer # << >> /\ Acceptable(toViewer[1]) /\ Head(toViewer) = toViewer[1]
         /\ viewer' = [phase    |-> IF toViewer[1].kind \in Final THEN "live" ELSE "snapshot",
                       sequence |-> toViewer[1].sequence, bytes |-> toViewer[1].end]
         /\ toAgent' = IF toViewer[1].kind \in Final /\ task.pc # "off"
                       THEN Append(toAgent, toViewer[1].sequence) ELSE toAgent
         /\ ready' = (ready \/ toViewer[1].kind = "end")
         /\ shown' = IF toViewer[1].kind \in Final THEN toViewer[1].sequence ELSE shown
         /\ toViewer' = Tail(toViewer)
         /\ UNCHANGED <<task, output, front, ringLimit, oversized, resizing, retry, drops>>
<1>1. toViewer # << >> /\ toViewer \in Seq(Frames(last)) /\ Chain
  BY Facts DEF IInv, Joined, ApplyFrame
<1>2. Head(toViewer) = toViewer[1] /\ Acceptable(toViewer[1])
  BY <1>1, Taken DEF Chain
<1>3. Backlog <= RenderLimit
  BY Holds
<1> QED
  BY <1>1, <1>2, <1>3 DEF ApplyFrame, Final, agentVars

LEMMA ApplyFrameIInv == ASSUME IInv, ApplyFrame PROVE IInv'
<1> DEFINE f == toViewer[1]
           n == Len(toViewer)
<1>1. /\ TypeOK /\ Typed(last)
      /\ Chain /\ Tip /\ Phases /\ Ahead /\ Between /\ Reports /\ Budget /\ Credit
  BY Types DEF IInv, Joined
<1>2. /\ toViewer # << >> /\ Acceptable(f) /\ toViewer' = Tail(toViewer)
      /\ viewer' = [phase |-> IF f.kind \in Final THEN "live" ELSE "snapshot",
                    sequence |-> f.sequence, bytes |-> f.end]
      /\ toAgent' = IF f.kind \in Final /\ task.pc # "off" THEN Append(toAgent, f.sequence) ELSE toAgent
      /\ ready' = (ready \/ f.kind = "end")
      /\ shown' = IF f.kind \in Final THEN f.sequence ELSE shown
      /\ UNCHANGED <<task, output, front, ringLimit, oversized, resizing, retry, drops>>
  BY Accepts
<1>3. /\ n \in Nat \ {0} /\ Tail(toViewer) \in Seq(Frames(last)) /\ Len(Tail(toViewer)) = n - 1
      /\ \A i \in 1..n - 1 : Tail(toViewer)[i] = toViewer[i + 1]
      /\ f \in Frames(last)
  BY <1>1, <1>2, Taken DEF Typed
<1>4. /\ last \in Nat /\ task.sent \in 0..last /\ task.applied \in 0..last /\ viewer.sequence \in 0..last
      /\ shown \in 0..last /\ ready \in BOOLEAN /\ toAgent \in Seq(0..last) /\ Len(toAgent) \in Nat
      /\ \A i \in 1..Len(toAgent) : toAgent[i] \in 0..last
  BY <1>1, Facts
<1>5. f.kind \in Kinds /\ f.sequence \in 0..last /\ f.end \in Nat
  BY <1>3 DEF Frames
<1>6. /\ viewer'.phase = (IF f.kind \in Final THEN "live" ELSE "snapshot")
      /\ viewer'.sequence = f.sequence /\ viewer'.bytes = f.end
  BY <1>2
<1>7. /\ f.kind = "meta" => viewer.phase = "awaiting"
      /\ f.kind \in {"chunk", "end"} => viewer.phase = "snapshot" /\ f.sequence = viewer.sequence
      /\ f.kind = "output" => viewer.phase = "live" /\ f.sequence = viewer.sequence + 1
      /\ f.kind \in {"meta", "chunk", "end", "output"} /\ viewer.phase # "closed"
  <2> HIDE DEF f
  <2> QED
    BY <1>2, <1>5 DEF Acceptable, Kinds
<1>8. /\ Len(toViewer') = n - 1 /\ toViewer' \in Seq(Frames(last))
      /\ (toViewer' = << >> <=> n = 1)
      /\ \A i \in 1..Len(toViewer') : i \in 1..n /\ i + 1 \in 1..n /\ toViewer'[i] = toViewer[i + 1]
  <2>1. toViewer' = << >> <=> Len(toViewer') = 0
    BY <1>2, <1>3, Elements
  <2> HIDE DEF n
  <2> QED
    BY <1>2, <1>3, <2>1
<1>9. last' = last /\ Growing' /\ (Typed(last)' => TypeOK')
  BY <1>2, Kept
<1>10. 1 \in 1..n
  BY <1>3
<1>11. Typed(last)'
  <2>1. viewer' \in Viewer(last)
    BY <1>2, <1>5 DEF Viewer, Phase
  <2>2. toAgent' \in Seq(0..last)
    BY <1>2, <1>4, <1>5, Appended
  <2>3. ready' \in BOOLEAN /\ shown' \in 0..last
    BY <1>2, <1>4, <1>5
  <2> HIDE DEF f, n
  <2> QED
    BY <1>1, <1>2, <1>8, <1>9, <2>1, <2>2, <2>3 DEF Typed
<1>12. Chain'
  <2>1. ASSUME NEW i \in 1..Len(toViewer') - 1 PROVE Follows(toViewer'[i], toViewer'[i + 1])
    <3>1. /\ i \in 1..Len(toViewer') /\ i + 1 \in 1..Len(toViewer') /\ i + 1 \in 1..n - 1
      BY <1>3, <1>8, <2>1
    <3>2. toViewer'[i] = toViewer[i + 1] /\ toViewer'[i + 1] = toViewer[(i + 1) + 1]
      BY <1>8, <3>1
    <3> QED
      BY <1>1, <3>1, <3>2 DEF Chain
  <2>2. ASSUME NEW i \in 1..Len(toViewer'), NEW j \in 1..Len(toViewer'), i <= j
        PROVE  toViewer'[i].sequence <= toViewer'[j].sequence
    <3>1. /\ toViewer'[i] = toViewer[i + 1] /\ toViewer'[j] = toViewer[j + 1]
          /\ i + 1 \in 1..n /\ j + 1 \in 1..n
      BY <1>8
    <3>2. i + 1 <= j + 1
      BY <1>3, <1>8, <2>2
    <3> QED
      BY <1>1, <3>1, <3>2 DEF Chain
  <2>3. toViewer' # << >> => Acceptable(toViewer[1])'
    <3>1. SUFFICES ASSUME toViewer' # << >> PROVE Acceptable(toViewer[1])'
      OBVIOUS
    <3>2. 1 \in 1..Len(toViewer') /\ 1 \in 1..n - 1
      BY <1>3, <1>8, <3>1
    <3>3. toViewer'[1] = toViewer[1 + 1] /\ Follows(f, toViewer[1 + 1])
      BY <1>1, <1>8, <3>2 DEF Chain
    <3>4. PICK g : g = toViewer[1 + 1]
      OBVIOUS
    <3>5. toViewer'[1] = g /\ Follows(f, g)
      BY <3>3, <3>4
    <3> HIDE DEF f
    <3> QED
      BY <1>6, <3>5 DEF Follows, Acceptable, Final
  <2> QED
    BY <2>1, <2>2, <2>3 DEF Chain
<1>13. /\ f.sequence \in task.applied..task.sent
       /\ viewer.phase # "awaiting" => viewer.sequence <= f.sequence
  BY <1>1, <1>7, <1>10 DEF Between
<1>14. Between'
  <2>1. ASSUME NEW i \in 1..Len(toViewer')
        PROVE  toViewer'[i].sequence \in task.applied..task.sent /\ f.sequence <= toViewer'[i].sequence
    <3>1. toViewer'[i] = toViewer[i + 1] /\ i + 1 \in 1..n /\ 1 <= i + 1
      BY <1>3, <1>8, <2>1
    <3> QED
      BY <1>1, <1>7, <1>10, <3>1 DEF Between, Chain
  <2>2. task.applied <= task.sent
    BY <1>1, <1>7 DEF Between
  <2> HIDE DEF f, n
  <2> QED
    BY <1>2, <1>6, <1>13, <2>1, <2>2 DEF Between
<1>15. Tip'
  <2>1. task.pc \notin {"subscribe", "meta"}
    BY <1>1, <1>2 DEF Tip
  <2>2. task.pc \in Opening => f.kind \notin Final
    BY <1>1, <1>10 DEF Tip
  <2>3. task.pc \in Opening => \A i \in 1..Len(toViewer') : toViewer'[i].kind \notin Final
    BY <1>1, <1>8 DEF Tip
  <2>4. task.pc \in Opening => task.sent = task.applied /\ viewer'.phase \in Restoring
    BY <1>1, <1>6, <2>2 DEF Tip, Restoring
  <2>5. CASE toViewer' = << >>
    <3>1. toViewer[n] = f
      BY <1>8, <2>5
    <3>2. task.pc # "off" => f.sequence = task.sent
      BY <1>1, <1>2, <3>1 DEF Tip
    <3>3. task.pc \in Streaming => f.kind \in Final
      BY <1>1, <1>2, <3>1 DEF Tip
    <3> HIDE DEF f, n
    <3> QED
      BY <1>2, <1>6, <2>1, <2>2, <2>3, <2>4, <2>5, <3>2, <3>3 DEF Tip, Opening, Streaming
  <2>6. CASE toViewer' # << >>
    <3>1. Len(toViewer') \in 1..Len(toViewer') /\ Len(toViewer') + 1 = n
      BY <1>3, <1>8, <2>6
    <3>2. toViewer'[Len(toViewer')] = toViewer[n]
      BY <1>8, <3>1
    <3>3. /\ task.pc = "chunk" => toViewer[n].kind = "meta"
          /\ task.pc = "end" => toViewer[n].kind = "chunk"
          /\ task.pc \in Streaming => toViewer[n].kind \in Final
          /\ task.pc # "off" => toViewer[n].sequence = task.sent
      BY <1>1, <1>2 DEF Tip
    <3> HIDE DEF f, n
    <3> QED
      BY <1>2, <2>1, <2>3, <2>4, <2>6, <3>2, <3>3 DEF Tip
  <2> QED
    BY <2>5, <2>6
<1>16. Phases'
  <2>1. f.kind \notin Final => ~ready /\ f.kind # "end"
    BY <1>1, <1>7 DEF Phases, Final
  <2> HIDE DEF f, n
  <2> QED
    BY <1>2, <1>6, <2>1 DEF Phases
<1>17. Ahead'
  <2>1. SUFFICES ASSUME f.kind \notin Final PROVE Ahead'
    BY <1>6 DEF Ahead, Restoring
  <2>2. viewer.phase \in Restoring /\ f.sequence = task.applied /\ shown <= task.applied
    BY <1>1, <1>2, <1>7, <1>10, <2>1 DEF Budget, Ahead, Restoring, Final
  <2> HIDE DEF f, n
  <2> QED
    BY <1>2, <1>6, <2>1, <2>2 DEF Ahead
<1>18. Reports'
  <2>1. SUFFICES ASSUME task.pc # "off" PROVE Reports'
    BY <1>2 DEF Reports
  <2>2. CASE f.kind \notin Final
    <3>1. toAgent = << >> /\ toAgent' = << >>
      BY <1>1, <1>2, <1>7, <2>1, <2>2 DEF Reports, Final
    <3> QED
      BY <3>1 DEF Reports
  <2>3. CASE f.kind \in Final
    <3>1. toAgent' = Append(toAgent, f.sequence) /\ viewer'.phase = "live"
      BY <1>2, <1>6, <2>1, <2>3
    <3>2. /\ Len(toAgent') = Len(toAgent) + 1 /\ toAgent'[Len(toAgent) + 1] = f.sequence
          /\ \A i \in 1..Len(toAgent) : toAgent'[i] = toAgent[i]
      BY <1>4, <1>5, <3>1, Appended
    <3>3. ASSUME NEW i \in 1..Len(toAgent) PROVE toAgent[i] \in task.applied..f.sequence
      <4>1. toAgent[i] \in task.applied..viewer.sequence /\ toAgent # << >>
        BY <1>1, <2>1, <3>3 DEF Reports
      <4>2. viewer.phase = "live"
        BY <1>1, <2>1, <4>1 DEF Reports
      <4>3. viewer.sequence <= f.sequence
        BY <1>13, <4>2
      <4> HIDE DEF f, n
      <4> QED
        BY <1>4, <1>5, <4>1, <4>3
    <3> HIDE DEF f, n
    <3>4. \A i \in 1..Len(toAgent') : i \in 1..Len(toAgent) \/ i = Len(toAgent) + 1
      BY <1>4, <3>2
    <3>5. f.sequence \in task.applied..f.sequence
      BY <1>4, <1>5, <1>13
    <3>6. \A i \in 1..Len(toAgent') : toAgent'[i] \in task.applied..f.sequence
      BY <3>2, <3>3, <3>4, <3>5
    <3>7. ASSUME NEW i \in 1..Len(toAgent'), NEW j \in 1..Len(toAgent'), i <= j
          PROVE  toAgent'[i] <= toAgent'[j]
      <4>1. CASE j = Len(toAgent) + 1
        <5>1. toAgent'[j] = f.sequence /\ toAgent'[i] \in task.applied..f.sequence
          BY <3>2, <3>6, <4>1
        <5> QED
          BY <1>4, <1>5, <5>1
      <4>2. CASE j \in 1..Len(toAgent)
        <5>1. i \in 1..Len(toAgent)
          BY <1>4, <3>7, <4>2
        <5> QED
          BY <1>1, <2>1, <3>2, <3>7, <4>2, <5>1 DEF Reports
      <4> QED
        BY <3>4, <4>1, <4>2
    <3> QED
      BY <1>2, <1>6, <3>1, <3>6, <3>7 DEF Reports
  <2> QED
    BY <2>2, <2>3
<1>19. Budget'
  <2>1. \A i \in 1..n :
          /\ toViewer[i].kind \in Final => Level(output, task, toViewer[i].sequence, toViewer[i].end)
          /\ toViewer[i].kind \notin Final =>
               /\ toViewer[i].end <= SnapshotCost
               /\ viewer.phase \in Restoring => toViewer[i].sequence = task.applied
    BY <1>1, <1>7 DEF Budget
  <2>2. f.kind \in Final => Level(output, task, f.sequence, f.end)
    BY <1>10, <2>1
  <2>3. viewer'.phase \in Restoring => viewer.phase \in Restoring
    BY <1>6, <1>7 DEF Restoring, Final
  <2>4. ASSUME NEW i \in 1..Len(toViewer')
        PROVE  /\ toViewer'[i].kind \in Final => Level(output, task, toViewer'[i].sequence, toViewer'[i].end)
               /\ toViewer'[i].kind \notin Final =>
                    /\ toViewer'[i].end <= SnapshotCost
                    /\ viewer'.phase \in Restoring => toViewer'[i].sequence = task.applied
    <3>1. toViewer'[i] = toViewer[i + 1] /\ i + 1 \in 1..n
      BY <1>8
    <3> QED
      BY <2>1, <2>3, <3>1
  <2>5. viewer'.phase = "live" => Level(output, task, viewer'.sequence, viewer'.bytes)
    BY <1>6, <2>2
  <2>6. /\ viewer.phase \in Restoring =>
             task.bytes <= SnapshotCost + Pos(output, task.sent) - Pos(output, task.applied)
        /\ task.pc \in {"subscribe", "meta", "chunk"} => task.bytes = 0
    BY <1>1, <1>7 DEF Budget
  <2> HIDE DEF f, n
  <2> QED
    BY <1>2, <2>3, <2>4, <2>5, <2>6 DEF Budget
<1>20. Credit'
  BY <1>1, <1>2 DEF Credit
<1> QED
  BY <1>9, <1>11, <1>12, <1>14, <1>15, <1>16, <1>17, <1>18, <1>19, <1>20 DEF IInv, Joined

LEMMA ReconnectIInv == ASSUME IInv, Reconnect PROVE IInv'
<1>1. TypeOK /\ Typed(last) /\ Phases
  BY Types DEF IInv, Joined
<1>2. /\ UNCHANGED <<output, front, ringLimit, oversized, resizing, shown, drops>> /\ toViewer' = << >> /\ toAgent' = << >>
      /\ viewer' = [phase |-> "awaiting", sequence |-> 0, bytes |-> 0] /\ ready' = FALSE /\ retry' = FALSE
      /\ task' = [NoTask EXCEPT !.pc = "subscribe"]
  BY DEF Reconnect, agentVars
<1>3. /\ task'.pc = "subscribe" /\ task'.sent = 0 /\ task'.applied = 0 /\ task'.bytes = 0
      /\ viewer'.phase = "awaiting"
  BY <1>2 DEF NoTask
<1>4. last' = last /\ Growing' /\ (Typed(last)' => TypeOK') /\ last \in Nat
  BY <1>1, <1>2, Kept, Facts
<1>5. Typed(last)'
  <2>1. << >> \in Seq(Frames(last)) /\ << >> \in Seq(0..last) /\ << >> \in Seq(1..last)
        /\ 0 \in 0..last /\ 1 \in 1..last + 1
    BY <1>4
  <2>2. task' \in Task(last)
    BY <1>2, <2>1 DEF Task, TaskPc, NoTask
  <2>3. viewer' \in Viewer(last)
    BY <1>2, <2>1 DEF Viewer, Phase
  <2> QED
    BY <1>1, <1>2, <1>4, <2>1, <2>2, <2>3 DEF Typed
<1>6. Chain' /\ Tip' /\ Phases'
  BY <1>2, <1>3 DEF Chain, Tip, Phases, Opening, Streaming
<1>7. Ahead' /\ Between' /\ Reports' /\ Credit'
  BY <1>2, <1>3 DEF Ahead, Between, Reports, Credit
<1>8. Budget'
  <2>1. Pos(output, 0) = 0
    BY DEF Pos
  <2>2. 0 <= SnapshotCost + Pos(output, 0) - Pos(output, 0)
    BY <2>1, Limits
  <2> QED
    BY <1>2, <1>3, <2>2 DEF Budget
<1> QED
  BY <1>4, <1>5, <1>6, <1>7, <1>8 DEF IInv, Joined

LEMMA OnCloseIInv == ASSUME IInv, OnClose PROVE IInv'
<1>1. /\ TypeOK /\ Typed(last)
      /\ Chain /\ Tip /\ Phases /\ Ahead /\ Between /\ Reports /\ Budget /\ Credit
  BY Types DEF IInv, Joined
<1>2. /\ ready' = FALSE /\ retry' = TRUE
      /\ UNCHANGED <<output, front, ringLimit, oversized, resizing, task, toViewer, toAgent, viewer, shown, drops>>
  BY DEF OnClose, agentVars
<1>3. last' = last /\ Growing' /\ (Typed(last)' => TypeOK')
  BY <1>2, Kept
<1>4. Typed(last)'
  BY <1>1, <1>2, <1>3 DEF Typed
<1>5. Chain' /\ Tip' /\ Phases'
  BY <1>1, <1>2 DEF Chain, Tip, Phases, Acceptable
<1>6. Ahead' /\ Between' /\ Reports' /\ Budget' /\ Credit'
  BY <1>1, <1>2 DEF Ahead, Between, Reports, Budget, Credit
<1> QED
  BY <1>3, <1>4, <1>5, <1>6 DEF IInv, Joined

LEMMA DropIInv == ASSUME IInv, Drop PROVE IInv'
<1>1. /\ TypeOK /\ Typed(last)
      /\ Chain /\ Tip /\ Phases /\ Ahead /\ Between /\ Reports /\ Budget /\ Credit
  BY Types DEF IInv, Joined
<1>2. /\ task.pc # "off" /\ drops < MaxDrops /\ drops' = drops + 1 /\ task' = End /\ toAgent' = << >>
      /\ UNCHANGED <<output, front, ringLimit, oversized, resizing, viewer, ready, retry, shown>>
  BY DEF Drop, agentVars, viewerVars
<1>3. PICK n \in 0..Len(toViewer) : toViewer' = SubSeq(toViewer, 1, n)
  BY DEF Drop
<1>4. /\ toViewer' \in Seq(Frames(last)) /\ Len(toViewer') = n /\ Len(toViewer) \in Nat
      /\ \A i \in 1..n : toViewer'[i] = toViewer[i]
      /\ (toViewer' = << >> <=> n = 0)
  <2>1. toViewer \in Seq(Frames(last))
    BY <1>1 DEF Typed
  <2>2. /\ toViewer' \in Seq(Frames(last)) /\ Len(toViewer') = n /\ Len(toViewer) \in Nat
        /\ \A i \in 1..n : toViewer'[i] = toViewer[i]
    BY <1>3, <2>1, Cut
  <2>3. toViewer' = << >> <=> Len(toViewer') = 0
    BY <2>2, Elements
  <2> QED
    BY <2>2, <2>3
<1>5. \A i \in 1..Len(toViewer') : i \in 1..Len(toViewer) /\ toViewer'[i] = toViewer[i]
  BY <1>4
<1>6. /\ task' \in Task(last) /\ task'.pc = "off" /\ task'.sent = task.sent
      /\ task'.applied = task.applied /\ task'.bytes = task.bytes
  BY <1>1, <1>2, EndFacts
<1>7. last' = last /\ Growing' /\ (Typed(last)' => TypeOK')
  BY <1>2, Kept
<1>8. Typed(last)'
  <2>1. drops' \in 0..MaxDrops /\ << >> \in Seq(0..last)
    BY <1>1, <1>2, Facts, Limits
  <2> QED
    BY <1>1, <1>2, <1>4, <1>6, <1>7, <2>1 DEF Typed
<1>9. toViewer' # << >> => toViewer # << >> /\ toViewer'[1] = toViewer[1]
  <2>1. toViewer = << >> => n = 0
    OBVIOUS
  <2>2. toViewer' # << >> => 1 \in 1..n
    BY <1>4
  <2> QED
    BY <1>4, <2>1, <2>2
<1>10. Chain'
  <2>1. \A i \in 1..Len(toViewer') - 1 :
          i \in 1..Len(toViewer) - 1 /\ toViewer'[i] = toViewer[i] /\ toViewer'[i + 1] = toViewer[i + 1]
    BY <1>4
  <2>2. toViewer' # << >> => Acceptable(toViewer[1])'
    BY <1>1, <1>2, <1>9 DEF Chain, Acceptable
  <2> QED
    BY <1>1, <1>5, <2>1, <2>2 DEF Chain
<1>11. Tip'
  BY <1>6 DEF Tip, Opening, Streaming
<1>12. Phases' /\ Ahead'
  BY <1>1, <1>2, <1>6, <1>9 DEF Phases, Ahead
<1>13. Between' /\ Reports'
  BY <1>1, <1>2, <1>5, <1>6 DEF Between, Reports
<1>14. Budget'
  BY <1>1, <1>2, <1>5, <1>6 DEF Budget, Level
<1>15. Credit'
  BY <1>1, <1>2, <1>6 DEF Credit
<1> QED
  BY <1>7, <1>8, <1>10, <1>11, <1>12, <1>13, <1>14, <1>15 DEF IInv, Joined

-----------------------------------------------------------------------------
(* The theorems. *)

LEMMA NextIInv == IInv /\ [Next]_vars => IInv'
<1> SUFFICES ASSUME IInv, [Next]_vars PROVE IInv'
  OBVIOUS
<1>1. ASSUME NEW n \in Costs, Emit(n) PROVE IInv'
  <2>1. resizing' \in BOOLEAN
    BY <1>1 DEF Emit, IInv, TypeOK
  <2> QED
    BY <1>1, <2>1, PushedIInv DEF Emit
<1>2. CASE Resize
  BY <1>2, Limits, PushedIInv DEF Resize
<1>3. CASE ResizeEnds
  <2>1. CASE Pushed(ResizeCost)
    BY <1>3, <2>1, Limits, PushedIInv DEF ResizeEnds
  <2>2. CASE UNCHANGED <<output, front, ringLimit, oversized>>
    <3>1. /\ UNCHANGED <<output, front, ringLimit, oversized, task, toViewer, toAgent, viewer, ready, retry, shown, drops>>
          /\ resizing' = FALSE /\ last' = last
      BY <1>3, <2>2 DEF ResizeEnds, viewerVars, last
    <3>2. TypeOK /\ Growing /\ Stored /\ Typed(last)
          /\ Chain /\ Tip /\ Phases /\ Ahead /\ Between /\ Reports /\ Budget /\ Credit
      BY Types DEF IInv, Joined
    <3>3. Stored'
      BY <3>1, <3>2 DEF Stored, Cost, Offset, Fits
    <3>4. Typed(last)' /\ Growing'
      BY <3>1, <3>2 DEF Typed, Growing
    <3>5. Stored' /\ Typed(last)' => TypeOK'
      BY Types, PTL
    <3>6. Chain' /\ Tip'
      BY <3>1, <3>2 DEF Chain, Tip, Acceptable
    <3>7. Phases' /\ Ahead' /\ Between' /\ Reports' /\ Budget' /\ Credit'
      BY <3>1, <3>2 DEF Phases, Ahead, Between, Reports, Budget, Credit
    <3> QED
      BY <3>3, <3>4, <3>5, <3>6, <3>7 DEF IInv, Joined
  <2> QED
    BY <1>3, <2>1, <2>2 DEF ResizeEnds
<1>4. CASE TaskStep
  BY <1>4, SubscribeIInv, SendSnapshotIInv, FillIInv, SendIInv, WaitIInv, RecvAppliedIInv, RecvEventIInv,
     RecoverIInv DEF TaskStep
<1>5. CASE ViewerStep
  BY <1>5, ReconnectIInv, ApplyFrameIInv, OnCloseIInv DEF ViewerStep
<1>6. CASE UNCHANGED vars
  <2>1. UNCHANGED <<output, front, ringLimit, oversized, resizing, task, toViewer, toAgent, viewer, ready, retry, shown, drops>>
    BY <1>6 DEF vars
  <2>2. /\ Typed(last) /\ Chain /\ Tip /\ Phases /\ Ahead /\ Between /\ Reports /\ Budget /\ Credit
    BY Types DEF IInv, Joined
  <2>3. Growing' /\ last' = last /\ (Typed(last)' => TypeOK')
    BY <2>1, Kept
  <2>4. Typed(last)'
    BY <2>1, <2>2, <2>3 DEF Typed
  <2>5. Chain' /\ Tip'
    BY <2>1, <2>2 DEF Chain, Tip, Acceptable
  <2>6. Phases' /\ Ahead' /\ Between' /\ Reports' /\ Budget' /\ Credit'
    BY <2>1, <2>2 DEF Phases, Ahead, Between, Reports, Budget, Credit
  <2> QED
    BY <2>3, <2>4, <2>5, <2>6 DEF IInv, Joined
<1> QED
  BY <1>1, <1>2, <1>3, <1>4, <1>5, <1>6, DropIInv DEF Next

\* The inductive invariant of the stream holds in every reachable state.
THEOREM Invariance == Spec => []IInv
BY InitIInv, NextIInv, PTL DEF Spec

\* Ring, task, sockets and viewer stay well-typed, and the ring within its limits
\* (EventRing::push, terminal, StreamGuard).
THEOREM TypeCorrect == Spec => []TypeOK
<1>1. IInv => TypeOK
  BY DEF IInv
<1> QED
  BY <1>1, Invariance, PTL

\* The viewer's guard meets no gap, repetition or stale frame, and the agent no report
\* out of range (StreamGuard.validate, terminal).
THEOREM NothingRefused == Spec => []NeverRefused
<1>1. ASSUME IInv PROVE NeverRefused
  <2>1. TypeOK /\ Phases /\ Reports /\ Between
    BY <1>1 DEF IInv, Joined
  <2>2. ASSUME toAgent # << >>, task.pc # "off"
        PROVE  Head(toAgent) >= task.applied /\ Head(toAgent) <= task.sent
    <3>1. /\ toAgent \in Seq(0..last) /\ task.sent \in 0..last /\ task.applied \in 0..last
          /\ viewer.sequence \in 0..last /\ last \in Nat
      BY <2>1, Facts
    <3>2. Head(toAgent) = toAgent[1] /\ Len(toAgent) \in Nat \ {0} /\ toAgent[1] \in 0..last
      BY <2>2, <3>1, Taken
    <3>3. 1 \in 1..Len(toAgent)
      BY <3>2
    <3>4. viewer.phase = "live" /\ toAgent[1] \in task.applied..viewer.sequence
      BY <2>1, <2>2, <3>3 DEF Reports
    <3>5. viewer.sequence \in task.applied..task.sent
      BY <2>1, <3>4 DEF Between
    <3> QED
      BY <3>1, <3>2, <3>4, <3>5
  <2> QED
    BY <2>1, <2>2 DEF NeverRefused, Phases
<1> QED
  BY <1>1, Invariance, PTL

\* The bytes in flight stay below the window plus one frame, and what the viewer may have
\* to hold within its budget (terminal, RenderBudget).
THEOREM WithinCredit == Spec => []CreditBound
<1>1. ASSUME IInv PROVE CreditBound
  <2>1. Credit /\ Backlog <= RenderLimit
    BY <1>1, Holds DEF IInv, Joined
  <2>2. Offset(task.sent - 1) = Pos(output, task.sent - 1) /\ Offset(task.applied) = Pos(output, task.applied)
    BY Positions
  <2> QED
    BY <2>1, <2>2 DEF CreditBound, Credit
<1> QED
  BY <1>1, Invariance, PTL

\* Every step of the stream is one of TerminalFeed, or changes nothing the user sees.
LEMMA NextImplements == IInv /\ [Next]_vars => [Feed!Next]_Feed!feed
<1> SUFFICES ASSUME IInv, [Next]_vars PROVE Feed!Next \/ UNCHANGED <<last, ready, shown>>
  BY DEF Feed!feed
<1>1. TypeOK /\ Phases /\ Ahead /\ Between
  BY DEF IInv, Joined
<1>2. /\ last \in Nat /\ shown \in 0..last /\ viewer.sequence \in 0..last /\ ready \in BOOLEAN
      /\ output \in Seq(Nat) /\ last = Len(output) /\ last' = Len(output')
  BY <1>1, Facts DEF last
<1>3. ASSUME NEW c, Pushed(c), UNCHANGED <<ready, retry, shown>> PROVE Feed!Next
  <2>1. last < MaxEvents /\ last' = last + 1
    BY <1>2, <1>3 DEF Pushed
  <2> QED
    BY <1>3, <2>1 DEF Feed!Next, Feed!Emit
<1>4. ASSUME NEW n \in Costs, Emit(n) PROVE Feed!Next
  BY <1>3, <1>4 DEF Emit, viewerVars
<1>5. CASE Resize
  BY <1>3, <1>5 DEF Resize, viewerVars
<1>6. CASE ResizeEnds
  <2>1. CASE UNCHANGED <<output, front, ringLimit, oversized>>
    BY <1>2, <1>6, <2>1 DEF ResizeEnds, viewerVars
  <2> QED
    BY <1>3, <1>6, <2>1 DEF ResizeEnds, viewerVars
<1>7. CASE TaskStep \/ Drop \/ UNCHANGED vars
  <2>1. UNCHANGED <<output, ready, retry, shown>>
    BY <1>7 DEF TaskStep, Subscribe, SendSnapshot, Fill, Send, Wait, RecvApplied, RecvEvent, Recover, Drop,
                agentVars, viewerVars, vars
  <2> QED
    BY <1>2, <2>1
<1>8. CASE Reconnect \/ OnClose
  <2>1. UNCHANGED <<output, shown>> /\ ready' = FALSE
    BY <1>8 DEF Reconnect, OnClose, agentVars
  <2>2. last' = last
    BY <1>2, <2>1
  <2>3. CASE ready = TRUE
    BY <2>1, <2>2, <2>3 DEF Feed!Next, Feed!Lose
  <2>4. CASE ready = FALSE
    BY <2>1, <2>2, <2>4
  <2> QED
    BY <1>2, <2>3, <2>4
<1>9. CASE ApplyFrame
  <2> DEFINE f == toViewer[1]
  <2>1. /\ toViewer # << >> /\ Acceptable(f) /\ ready' = (ready \/ f.kind = "end")
        /\ shown' = IF f.kind \in Final THEN f.sequence ELSE shown
        /\ UNCHANGED <<task, output>>
    BY <1>9, Accepts
  <2>2. 1 \in 1..Len(toViewer)
    <3>1. Len(toViewer) \in Nat /\ (toViewer = << >> <=> Len(toViewer) = 0)
      BY <1>1, Facts
    <3> QED
      BY <2>1, <3>1
  <2>3. f.kind \in Kinds /\ f.sequence \in 0..last
    BY <1>1, <2>2, Facts
  <2>4. last' = last
    BY <1>2, <2>1
  <2> HIDE DEF f
  <2>5. CASE f.kind \in {"meta", "chunk"}
    <3>1. shown' = shown /\ ready' = ready
      BY <1>2, <2>1, <2>5 DEF Final
    <3> QED
      BY <2>4, <3>1
  <2>6. CASE f.kind = "end"
    <3>1. viewer.phase = "snapshot" /\ f.sequence = viewer.sequence /\ shown' = f.sequence /\ ready' = TRUE
      BY <2>1, <2>6 DEF Acceptable, Final
    <3>2. ready = FALSE /\ shown <= task.applied /\ viewer.sequence = task.applied
      BY <1>1, <1>2, <3>1 DEF Phases, Ahead, Restoring
    <3>3. shown' \in shown..last
      BY <1>2, <2>3, <3>1, <3>2
    <3> QED
      BY <2>4, <3>1, <3>2, <3>3 DEF Feed!Next, Feed!Restore
  <2>7. CASE f.kind = "output"
    <3>1. viewer.phase = "live" /\ f.sequence = viewer.sequence + 1 /\ shown' = f.sequence /\ ready' = ready
      BY <1>2, <2>1, <2>7 DEF Acceptable, Final
    <3>2. shown = viewer.sequence
      BY <1>1, <3>1 DEF Phases
    <3>3. shown < last /\ shown' = shown + 1
      BY <1>2, <2>3, <3>1, <3>2
    <3> QED
      BY <2>4, <3>1, <3>3 DEF Feed!Next, Feed!Apply
  <2> QED
    BY <2>3, <2>5, <2>6, <2>7 DEF Kinds
<1> QED
  BY <1>4, <1>5, <1>6, <1>7, <1>8, <1>9 DEF Next, ViewerStep

\* The stream implements TerminalFeed: the screen is a prefix of the output, advances event by
\* event, and no reconnection sets it back (terminal, subscribe_snapshot, TerminalView.connect).
THEOREM Implements == Spec => FeedSpec
<1>1. Init => Feed!Init
  BY DEF Init, Feed!Init, last
<1> QED
  BY <1>1, NextImplements, Invariance, PTL DEF Spec, FeedSpec, Feed!Spec
=============================================================================
