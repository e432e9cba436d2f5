-------------------------- MODULE InputWriterProofs --------------------------
(***************************************************************************)
(* Proofs about InputWriter, for any clients, principals, handlers and     *)
(* shapes of input, any queue and payload limits and any number of failed  *)
(* writes: its five safety properties, and that it implements InputState.  *)
(*                                                                         *)
(* The inductive invariant says which job is where, how far the writer is  *)
(* with the job in its hands, and how the history of writes relates to the *)
(* jobs that are still to be written.                                      *)
(***************************************************************************)
EXTENDS InputWriter, SequenceTheorems, FiniteSetTheorems, TLAPS

\* The writer has a job in its hands, and has begun to write it.
Hand == {"cancel", "begin", "prefix", "chunk", "write", "suffix", "enter", "enterWrite", "finish"}
Started == {"chunk", "write", "suffix", "enter", "enterWrite", "finish"}

\* On the way out of write_job.
Ending == {"suffix", "enter", "enterWrite", "finish"}

\* Places past a check of the permission, before the write it allows.
Cleared == {"prefix", "write", "enterWrite"}

Pending(n) == reply[n] = "pending"

LedgerShape ==
  /\ ledger = [highest |-> ledger.highest, ids |-> ledger.ids, outcomes |-> ledger.outcomes]
  /\ ledger.outcomes = [id \in DOMAIN ledger.outcomes |-> ledger.outcomes[id]]

\* No input carries an epoch that has not been issued yet, or more than a job
\* may hold.
Issued == \A n \in Job : accepted[n].lease <= lease.epoch /\ JobOf(n).chunks \in 1..MaxPaste

\* The queues are in order, and the jobs in them wait.
Queued ==
  /\ \A i, j \in 1..Len(normal) : i < j => normal[i] < normal[j]
  /\ \A i, j \in 1..Len(interrupt) : i < j => interrupt[i] < interrupt[j]
  /\ \A i \in 1..Len(normal) :
       Pending(normal[i]) /\ ~JobOf(normal[i]).priority /\ normal[i] \notin {w.job, w.urgent}
  /\ \A i \in 1..Len(interrupt) :
       Pending(interrupt[i]) /\ JobOf(interrupt[i]).priority
       /\ interrupt[i] \notin {w.job, w.urgent}

\* So do the jobs in the writer's hands.
Held ==
  /\ w.pc \in Hand <=> w.job # 0
  /\ w.urgent # 0 => w.job # 0 /\ Pending(w.urgent) /\ JobOf(w.urgent).priority
  /\ w.job # 0 => Pending(w.job)
  /\ w.pc = "cancel" => JobOf(w.job).priority
  /\ w.pc \notin Ending => w.urgent \in {0, w.job}

\* A job that waits is somewhere.
Somewhere ==
  \A n \in Job : Pending(n) =>
    \/ \E i \in 1..Len(normal) : normal[i] = n
    \/ \E i \in 1..Len(interrupt) : interrupt[i] = n
    \/ n \in {w.job, w.urgent}

\* How far the job in hand is.
Progress ==
  /\ w.pc \notin Started => w.next = 1 /\ ~w.open /\ w.result = "ok"
  /\ w.pc = "prefix" => JobOf(w.job).bracketed
  /\ w.pc \in {"chunk", "write"} =>
       w.open = JobOf(w.job).bracketed /\ w.result = "ok" /\ w.next <= JobOf(w.job).chunks + 1
  /\ w.pc = "write" => w.next <= JobOf(w.job).chunks
  /\ (w.pc \in Ending /\ w.result = "ok") =>
       w.open = JobOf(w.job).bracketed /\ w.next = JobOf(w.job).chunks + 1
  /\ w.pc = "enterWrite" => w.result = "ok" /\ JobOf(w.job).enter

\* Nothing that should have gone before the job in hand still waits.
Ahead ==
  /\ w.pc \in Hand \ {"cancel"} => \A i \in 1..Len(normal) : normal[i] > w.job
  /\ (w.job # 0 /\ JobOf(w.job).priority) =>
       /\ \A i \in 1..Len(interrupt) : interrupt[i] > w.job
       /\ w.urgent # 0 => w.urgent >= w.job
  /\ w.urgent # 0 => \A i \in 1..Len(interrupt) : interrupt[i] > w.urgent

\* A job that waits was overtaken by no interrupt, and, unless it is one, by
\* nothing.
Behind ==
  \A i \in 1..Len(pty), m \in Job :
    (Pending(m) /\ pty[i].job > m) => JobOf(m).priority /\ ~JobOf(pty[i].job).priority

\* What was written is settled, or in hand.
Unwritten ==
  \A i \in 1..Len(pty) :
    pty[i].job # 0 => \/ reply[pty[i].job] \notin {"pending", "rejected"}
                      \/ pty[i].job = w.job /\ w.pc \in Started

\* After a late write the permission is gone, and the writer knows or will ask.
Late ==
  \A i \in 1..Len(pty) :
    (pty[i].late /\ pty[i].job = w.job /\ w.job # 0) => ~Permitted(w.job) /\ w.pc \notin Cleared

\* A paste that was opened is closed, or in hand and about to be.
Closing ==
  \A i \in 1..Len(pty) :
    (pty[i].part = "open" /\ pty[i].ok) =>
      \/ \E m \in i..Len(pty) : /\ pty[m].part = "close"
                                /\ \A j \in i..m : pty[j].job = pty[i].job
      \/ /\ w.open /\ w.pc \in {"chunk", "write", "suffix"} /\ w.job # 0
         /\ \A j \in i..Len(pty) : pty[j].job = w.job

\* The parts written so far of the job in hand, unless something went wrong.
SoFar ==
  IF w.pc \in {"chunk", "write", "suffix"} THEN Delimiters(w.job) + w.next - 1
  ELSE IF w.pc \in {"enter", "enterWrite"} THEN 2 * Delimiters(w.job) + JobOf(w.job).chunks
  ELSE IF w.pc = "finish" THEN Parts(w.job) ELSE 0

Counted ==
  /\ (w.job # 0 /\ w.result = "ok") => Cardinality(Good(w.job)) = SoFar /\ InOrder(w.job)
  /\ \A n \in Job : reply[n] = "written" => Cardinality(Good(n)) = Parts(n) /\ InOrder(n)

\* An id the ledger calls rejected is of a job that is settled and was not
\* written.
RejectedFor(n) ==
  /\ accepted[n].id \in DOMAIN ledger.outcomes
  /\ ledger.outcomes[accepted[n].id] = "rejected"

Rejections ==
  \A n \in Job : (RejectedFor(n) /\ Once(n)) => ~Pending(n) /\ Writes(n) = {}

Placed == Queued /\ Held /\ Somewhere /\ Progress /\ Ahead
History == Behind /\ Unwritten /\ Late /\ Closing /\ Counted /\ Rejections
Shown == InterruptBarrier /\ AtMostOneLateWrite

IInv == WriterTypeOK /\ LedgerShape /\ Issued /\ Placed /\ History /\ Shown
-----------------------------------------------------------------------------

\* The limits, one by one.
LEMMA Bounds ==
  /\ MaxInput \in Nat /\ MaxPaste \in Nat /\ MaxInput <= MaxPaste /\ MaxPaste >= 1
  /\ MaxAccepted \in Nat /\ MaxFailures \in Nat /\ QueryCap \in Nat
  /\ NormalCap \in Nat /\ InterruptCap \in Nat
BY WriterAssumption

\* The shape of an input.
LEMMA Shapes ==
  ASSUME NEW id \in InputId
  PROVE  /\ Shape[id].chunks \in Nat /\ Shape[id].seq \in Nat
         /\ Shape[id].bulk \in BOOLEAN /\ Shape[id].bracketed \in BOOLEAN
         /\ Shape[id].enter \in BOOLEAN /\ Shape[id].priority \in BOOLEAN
BY WriterAssumption

\* A job and its record.
LEMMA JobFacts ==
  ASSUME WriterTypeOK, NEW n \in Job
  PROVE  /\ n \in Nat /\ n > 0 /\ n <= Len(accepted) /\ Len(accepted) \in Nat
         /\ accepted[n] \in IS!InputRecord /\ accepted[n].id \in InputId
         /\ accepted[n].client \in Client /\ accepted[n].connection \in Connection
         /\ accepted[n].lease \in Nat /\ accepted[n].lease \in IS!Epoch
         /\ reply[n] \in Outcome /\ who[n] \in Principal
<1>1. Len(accepted) \in Nat /\ n \in 1..Len(accepted) /\ accepted \in Seq(IS!InputRecord)
  BY DEF WriterTypeOK, Job
<1>2. accepted[n] \in IS!InputRecord
  BY <1>1
<1>3. accepted[n].lease \in IS!Epoch /\ IS!Epoch \subseteq Nat
  BY <1>2, LeaseAssumption DEF IS!InputRecord, IS!Epoch
<1>4. reply[n] \in Outcome /\ who[n] \in Principal
  BY <1>1 DEF WriterTypeOK
<1>5. /\ accepted[n].id \in InputId /\ accepted[n].client \in Client
      /\ accepted[n].connection \in Connection
  BY <1>2 DEF IS!InputRecord
<1>6. n \in Nat /\ n > 0 /\ n <= Len(accepted)
  BY <1>1
<1> QED
  BY <1>1, <1>2, <1>3, <1>4, <1>5, <1>6

\* What the writer keeps.
LEMMA WriterFacts ==
  ASSUME WriterTypeOK
  PROVE  /\ Len(accepted) \in Nat /\ Len(pty) \in Nat /\ Len(normal) \in Nat /\ Len(interrupt) \in Nat
         /\ w.pc \in Pc /\ w.open \in BOOLEAN /\ w.next \in 1..MaxPaste + 1
         /\ w.result \in {"ok", "canceled", "refused", "unknown"}
         /\ w.job \in Nat /\ w.job <= Len(accepted) /\ (w.job # 0 => w.job \in Job)
         /\ w.urgent \in Nat /\ w.urgent <= Len(accepted) /\ (w.urgent # 0 => w.urgent \in Job)
         /\ w = [pc |-> w.pc, job |-> w.job, next |-> w.next, open |-> w.open,
                 urgent |-> w.urgent, result |-> w.result]
<1>1. /\ w \in [pc : Pc, job : 0..Len(accepted), next : 1..MaxPaste + 1, open : BOOLEAN,
                urgent : 0..Len(accepted), result : {"ok", "canceled", "refused", "unknown"}]
      /\ Len(accepted) \in Nat /\ Len(pty) \in Nat /\ Len(normal) \in Nat /\ Len(interrupt) \in Nat
  BY DEF WriterTypeOK
<1> QED
  BY <1>1 DEF Job

\* The jobs in the queues, and the writes.
LEMMA QueueFacts ==
  ASSUME WriterTypeOK
  PROVE  /\ \A i \in 1..Len(normal) : normal[i] \in Job /\ normal[i] \in Nat
         /\ \A i \in 1..Len(interrupt) : interrupt[i] \in Job /\ interrupt[i] \in Nat
         /\ \A i \in 1..Len(pty) : /\ pty[i].job \in Nat /\ pty[i].job <= Len(accepted)
                                   /\ (pty[i].job # 0 => pty[i].job \in Job)
                                   /\ pty[i].ok \in BOOLEAN /\ pty[i].late \in BOOLEAN
                                   /\ pty[i].part \in Part
<1>1. Len(accepted) \in Nat
  BY DEF WriterTypeOK
<1>2. \A i \in 1..Len(normal) : normal[i] \in Job
  BY DEF WriterTypeOK
<1>3. \A i \in 1..Len(interrupt) : interrupt[i] \in Job
  BY DEF WriterTypeOK
<1>4. ASSUME NEW i \in 1..Len(pty)
      PROVE  /\ pty[i].job \in Nat /\ pty[i].job <= Len(accepted)
             /\ (pty[i].job # 0 => pty[i].job \in Job)
             /\ pty[i].ok \in BOOLEAN /\ pty[i].late \in BOOLEAN /\ pty[i].part \in Part
  <2> DEFINE E == [job : 0..Len(accepted), part : Part, ok : BOOLEAN, late : BOOLEAN]
  <2>1. pty \in Seq(E)
    BY DEF WriterTypeOK
  <2> HIDE DEF E
  <2>2. pty[i] \in E
    BY <2>1
  <2> QED
    BY <1>1, <2>2 DEF E, Job
<1> QED
  BY <1>1, <1>2, <1>3, <1>4 DEF Job

\* The shape of a job.
LEMMA JobShape ==
  ASSUME WriterTypeOK, Issued, NEW n \in Job
  PROVE  /\ JobOf(n).chunks \in Nat /\ JobOf(n).chunks >= 1 /\ JobOf(n).chunks <= MaxPaste
         /\ JobOf(n).bulk \in BOOLEAN /\ JobOf(n).bracketed \in BOOLEAN
         /\ JobOf(n).enter \in BOOLEAN /\ JobOf(n).priority \in BOOLEAN
         /\ Delimiters(n) \in {0, 1} /\ Parts(n) \in Nat
<1>1. accepted[n].id \in InputId
  BY JobFacts
<1>2. JobOf(n).chunks \in 1..MaxPaste
  BY DEF Issued
<1>3. /\ JobOf(n).bulk \in BOOLEAN /\ JobOf(n).bracketed \in BOOLEAN
      /\ JobOf(n).enter \in BOOLEAN /\ JobOf(n).priority \in BOOLEAN
  BY <1>1, Shapes DEF JobOf
<1>4. /\ JobOf(n).chunks \in Nat /\ JobOf(n).chunks >= 1 /\ JobOf(n).chunks <= MaxPaste
      /\ Delimiters(n) \in {0, 1}
  BY <1>2, Bounds DEF Delimiters
<1> QED
  BY <1>3, <1>4 DEF Parts

\* Initially nothing was accepted.
LEMMA InitIInv == Init => IInv
<1> SUFFICES ASSUME Init PROVE IInv
  OBVIOUS
<1>1. /\ lease = NewLease /\ ledger = NewLedger /\ accepted = << >> /\ who = << >> /\ reply = << >>
      /\ normal = << >> /\ interrupt = << >> /\ queries = 0 /\ stop = FALSE
      /\ w = ResetWriter("stop") /\ pty = << >> /\ running = TRUE /\ gone = FALSE
      /\ ender = [t \in Ender |-> "idle"] /\ valid = Principal
      /\ request = [h \in Handler |-> Idle]
  BY DEF Init, IS!Init, IS!NewLease, NewLease, IS!NewLedger, NewLedger
<1>2. Len(accepted) = 0 /\ Len(normal) = 0 /\ Len(interrupt) = 0 /\ Len(pty) = 0 /\ Job = {}
  BY <1>1 DEF Job
<1>3. WriterTypeOK
  <2>1. lease \in LeaseValue
    BY <1>1, LeaseAssumption DEF NewLease, LeaseValue
  <2>2. w \in [pc : Pc, job : 0..Len(accepted), next : 1..MaxPaste + 1, open : BOOLEAN,
               urgent : 0..Len(accepted), result : {"ok", "canceled", "refused", "unknown"}]
    BY <1>1, <1>2, Bounds DEF ResetWriter, Pc
  <2>3. /\ accepted \in Seq(IS!InputRecord) /\ who \in Seq(Principal) /\ reply \in Seq(Outcome)
        /\ Len(who) = Len(accepted) /\ Len(reply) = Len(accepted)
        /\ normal \in Seq(Job) /\ interrupt \in Seq(Job)
        /\ pty \in Seq([job : 0..Len(accepted), part : Part, ok : BOOLEAN, late : BOOLEAN])
    BY <1>1
  <2>4. Len(normal) <= NormalCap /\ Len(interrupt) <= InterruptCap /\ queries \in 0..QueryCap
    BY <1>1, <1>2, Bounds
  <2>5. /\ {stop, running, gone} \subseteq BOOLEAN /\ valid \subseteq Principal
        /\ ender \in [Ender -> {"idle", "revoking", "signalling", "done"}]
        /\ request \in [Handler -> Request \cup {Idle}]
    BY <1>1
  <2> QED
    BY <2>1, <2>2, <2>3, <2>4, <2>5 DEF WriterTypeOK
<1>4. LedgerShape
  BY <1>1 DEF LedgerShape, NewLedger
<1>5. /\ w.pc = "stop" /\ w.job = 0 /\ w.urgent = 0
      /\ w.next = 1 /\ ~w.open /\ w.result = "ok"
  BY <1>1 DEF ResetWriter
<1>6. Issued /\ Queued /\ Held /\ Somewhere /\ Progress /\ Ahead
  BY <1>2, <1>5 DEF Issued, Queued, Held, Somewhere, Progress, Ahead, Hand, Ending
<1>7. /\ Behind /\ Unwritten /\ Late /\ Closing /\ Counted /\ Rejections
      /\ InterruptBarrier /\ AtMostOneLateWrite
  BY <1>2, <1>5 DEF Behind, Unwritten, Late, Closing, Counted, Rejections, InterruptBarrier,
                    AtMostOneLateWrite
<1> QED
  BY <1>3, <1>4, <1>6, <1>7 DEF IInv, Placed, History, Shown

\* Steps of others: they may take a permission away and give none back.
LEMMA OutsideStep ==
  ASSUME IInv, WriterTypeOK',
         UNCHANGED <<ledger, accepted, who, reply, normal, interrupt, w, pty>>,
         lease.epoch <= lease'.epoch, \A n \in Job : Permitted(n)' => Permitted(n)
  PROVE  IInv'
<1> USE DEF IInv, Placed, History, Shown
<1>1. Job' = Job /\ \A n : JobOf(n)' = JobOf(n) /\ Pending(n)' = Pending(n) /\ Writes(n)' = Writes(n)
  BY DEF Job, JobOf, Pending, Writes
<1>2. \A n : /\ Good(n)' = Good(n) /\ Delimiters(n)' = Delimiters(n) /\ Parts(n)' = Parts(n)
             /\ Once(n)' = Once(n) /\ RejectedFor(n)' = RejectedFor(n)
  BY <1>1 DEF Good, Delimiters, Parts, Once, RejectedFor
<1>3. \A n : InOrder(n)' = InOrder(n)
  BY <1>1, <1>2 DEF InOrder, PartAt, Rank
<1>4. LedgerShape'
  BY DEF LedgerShape
<1>5. Issued'
  <2> SUFFICES ASSUME NEW n \in Job PROVE accepted[n].lease <= lease'.epoch /\ JobOf(n).chunks \in 1..MaxPaste
    BY <1>1 DEF Issued
  <2>1. accepted[n].lease <= lease.epoch /\ accepted[n].lease \in Nat
    BY JobFacts DEF Issued
  <2>2. lease.epoch \in Nat /\ lease'.epoch \in Nat
    BY LeaseAssumption DEF WriterTypeOK, LeaseValue
  <2> QED
    BY <2>1, <2>2 DEF Issued
<1>6. Queued' /\ Held' /\ Somewhere' /\ Progress' /\ Ahead'
  BY <1>1 DEF Queued, Held, Somewhere, Progress, Ahead
<1>7. Behind' /\ Unwritten' /\ Closing'
  BY <1>1 DEF Behind, Unwritten, Closing
<1>8. Late'
  BY WriterFacts DEF Late
<1>9. Counted' /\ Rejections'
  BY <1>1, <1>2, <1>3 DEF Counted, Rejections, SoFar
<1>10. InterruptBarrier' /\ AtMostOneLateWrite'
  BY <1>1 DEF InterruptBarrier, AtMostOneLateWrite
<1> QED
  BY <1>4, <1>5, <1>6, <1>7, <1>8, <1>9, <1>10

\* What every operation on the lease does to it: the epoch never goes back, and
\* what does not verify under an epoch that was issued does not verify again.
Worse(l, m) ==
  /\ m \in LeaseValue /\ l.epoch <= m.epoch
  /\ \A c \in Client, k \in Connection, e \in Nat :
       (e <= l.epoch /\ Verify(m, c, k, e)) => Verify(l, c, k, e)

\* The lease's fields.
LEMMA LeaseFacts ==
  ASSUME NEW l \in LeaseValue
  PROVE  /\ l.epoch \in Nat /\ l.epoch <= MaxEpoch /\ MaxEpoch \in Nat /\ Ttl \in Nat /\ Ttl > 0
         /\ l = [epoch |-> l.epoch, owner |-> l.owner]
         /\ l.owner # NoOwner =>
              /\ l.owner.client \in Client /\ l.owner.connection \in Connection
              /\ l.owner.left \in 0..Ttl
              /\ l.owner = [client |-> l.owner.client, connection |-> l.owner.connection,
                            left |-> l.owner.left]
<1>1. /\ l.epoch \in 0..MaxEpoch /\ l.owner \in Owner \cup {NoOwner}
      /\ l = [epoch |-> l.epoch, owner |-> l.owner]
  BY DEF LeaseValue
<1>2. MaxEpoch \in Nat /\ Ttl \in Nat /\ Ttl > 0
  BY LeaseAssumption
<1>3. l.owner # NoOwner => l.owner \in Owner
  BY <1>1
<1> QED
  BY <1>1, <1>2, <1>3 DEF Owner

\* A lease with some owner is one.
LEMMA MadeLease ==
  ASSUME NEW c \in Client, NEW k \in Connection, NEW t \in 0..Ttl, NEW e \in 0..MaxEpoch, NEW l,
         l = [epoch |-> e, owner |-> [client |-> c, connection |-> k, left |-> t]]
  PROVE  /\ l \in LeaseValue /\ l.owner # NoOwner /\ l.epoch = e
         /\ l.owner.client = c /\ l.owner.connection = k /\ l.owner.left = t
<1>1. [client |-> c, connection |-> k, left |-> t] \in Owner
  BY DEF Owner
<1>2. l.owner \in Owner /\ l.owner # NoOwner
  BY <1>1, LeaseAssumption
<1> QED
  BY <1>1, <1>2 DEF LeaseValue

\* The lease without an owner, with more time and with less, and with a new one.
LEMMA LeaseGetsWorse ==
  ASSUME NEW l \in LeaseValue, NEW c \in Client, NEW k \in Connection
  PROVE  /\ Worse(l, l) /\ Worse(l, Clear(l)) /\ Worse(l, Elapse(l))
         /\ Live(l) => Worse(l, Extend(l))
         /\ \A takeover \in BOOLEAN : CanAcquire(l, c, k, takeover) => Worse(l, Acquired(l, c, k))
         /\ Worse(l, ConnectionRevoked(l, k)) /\ Worse(l, ClientRevoked(l, c))
<1>0. /\ l.epoch \in Nat /\ l.epoch <= MaxEpoch /\ MaxEpoch \in Nat /\ Ttl \in Nat /\ Ttl > 0
      /\ l = [epoch |-> l.epoch, owner |-> l.owner]
      /\ l.owner # NoOwner =>
           /\ l.owner.client \in Client /\ l.owner.connection \in Connection
           /\ l.owner.left \in 0..Ttl
           /\ l.owner = [client |-> l.owner.client, connection |-> l.owner.connection,
                         left |-> l.owner.left]
  BY LeaseFacts
<1>1. Worse(l, l)
  BY <1>0 DEF Worse
<1>2. Worse(l, Clear(l))
  <2>1. Clear(l) = [epoch |-> l.epoch, owner |-> NoOwner]
    BY <1>0 DEF Clear
  <2>2. Clear(l) \in LeaseValue
    BY <2>1, <1>0 DEF LeaseValue
  <2> QED
    BY <2>1, <2>2, <1>0 DEF Worse, Verify, Live
<1>3. ASSUME Live(l), NEW t \in 0..Ttl, NEW m,
             m = [epoch |-> l.epoch, owner |-> [client |-> l.owner.client,
                                               connection |-> l.owner.connection, left |-> t]]
      PROVE  Worse(l, m)
  <2>1. l.owner # NoOwner /\ l.epoch \in 0..MaxEpoch
    BY <1>3, <1>0 DEF Live
  <2>2. /\ m \in LeaseValue /\ m.owner # NoOwner /\ m.epoch = l.epoch
        /\ m.owner.client = l.owner.client /\ m.owner.connection = l.owner.connection
    BY <1>3, <2>1, <1>0, MadeLease
  <2> QED
    BY <1>3, <2>2, <1>0 DEF Worse, Verify, HeldBy
<1>4. Live(l) => Worse(l, Extend(l))
  <2> SUFFICES ASSUME Live(l) PROVE Worse(l, Extend(l))
    OBVIOUS
  <2>1. Extend(l) = [epoch |-> l.epoch, owner |-> [client |-> l.owner.client,
                                       connection |-> l.owner.connection, left |-> Ttl]]
    BY <1>0 DEF Extend, Live
  <2>2. Ttl \in 0..Ttl
    BY <1>0
  <2> QED
    BY <1>3, <2>1, <2>2
<1>5. Worse(l, Elapse(l))
  <2>1. CASE Live(l)
    <3>1. Elapse(l) = [epoch |-> l.epoch, owner |-> [client |-> l.owner.client,
                         connection |-> l.owner.connection, left |-> l.owner.left - 1]]
      BY <2>1, <1>0 DEF Elapse, Live
    <3>2. l.owner.left - 1 \in 0..Ttl
      BY <2>1, <1>0 DEF Live
    <3> QED
      BY <1>3, <2>1, <3>1, <3>2
  <2>2. CASE ~Live(l)
    BY <1>1, <2>2 DEF Elapse
  <2> QED
    BY <2>1, <2>2
<1>6. ASSUME NEW takeover \in BOOLEAN, CanAcquire(l, c, k, takeover) PROVE Worse(l, Acquired(l, c, k))
  <2>1. CASE Live(l) /\ HeldBy(l, c, k)
    BY <1>4, <2>1 DEF Acquired
  <2>2. CASE ~(Live(l) /\ HeldBy(l, c, k))
    <3>1. /\ Acquired(l, c, k) = [epoch |-> l.epoch + 1,
                                  owner |-> [client |-> c, connection |-> k, left |-> Ttl]]
          /\ l.epoch < MaxEpoch
      BY <1>6, <2>2 DEF Acquired, CanAcquire
    <3>2. l.epoch + 1 \in 0..MaxEpoch /\ Ttl \in 0..Ttl
      BY <3>1, <1>0
    <3>3. Acquired(l, c, k) \in LeaseValue /\ Acquired(l, c, k).epoch = l.epoch + 1
      BY <3>1, <3>2, MadeLease
    <3> QED
      BY <3>3, <1>0 DEF Worse, Verify
  <2> QED
    BY <2>1, <2>2
<1>7. Worse(l, ConnectionRevoked(l, k)) /\ Worse(l, ClientRevoked(l, c))
  BY <1>1, <1>2 DEF ConnectionRevoked, ClientRevoked
<1> QED
  BY <1>1, <1>2, <1>4, <1>5, <1>6, <1>7

\* InputState's operators on the lease are those of Lease.
LEMMA SameLease ==
  ASSUME NEW l, NEW c, NEW k, NEW e, NEW takeover
  PROVE  /\ IS!Verify(l, c, k, e) = Verify(l, c, k, e)
         /\ IS!CanAcquire(l, c, k, takeover) = CanAcquire(l, c, k, takeover)
         /\ IS!Acquired(l, c, k) = Acquired(l, c, k)
         /\ IS!Extend(l) = Extend(l) /\ IS!Clear(l) = Clear(l) /\ IS!Elapse(l) = Elapse(l)
         /\ IS!ConnectionRevoked(l, k) = ConnectionRevoked(l, k)
         /\ IS!ClientRevoked(l, c) = ClientRevoked(l, c)
BY DEF IS!Verify, Verify, IS!CanAcquire, CanAcquire, IS!Acquired, Acquired, IS!Extend, Extend,
       IS!Clear, Clear, IS!Elapse, Elapse, IS!ConnectionRevoked, ConnectionRevoked,
       IS!ClientRevoked, ClientRevoked, IS!Live, Live, IS!HeldBy, HeldBy

\* Whatever happens to the lease.
LEMMA LeaseStepWorse ==
  ASSUME WriterTypeOK, LeaseStep \/ IS!RevokeAll
  PROVE  Worse(lease, lease') /\ UNCHANGED <<ledger, accepted>>
<1>0. lease \in LeaseValue
  BY DEF WriterTypeOK
<1>1. ASSUME NEW c \in Client, NEW k \in Connection, NEW takeover \in BOOLEAN,
             IS!Acquire(c, k, takeover)
      PROVE  Worse(lease, lease') /\ UNCHANGED <<ledger, accepted>>
  <2>1. /\ CanAcquire(lease, c, k, takeover) /\ lease' = Acquired(lease, c, k)
        /\ UNCHANGED <<ledger, accepted>>
    BY <1>1, SameLease DEF IS!Acquire
  <2> QED
    BY <1>0, <2>1, LeaseGetsWorse
<1>2. ASSUME NEW c \in Client, NEW k \in Connection, NEW e \in IS!Epoch,
             IS!Renew(c, k, e) \/ IS!Release(c, k, e)
      PROVE  Worse(lease, lease') /\ UNCHANGED <<ledger, accepted>>
  <2>1. /\ Verify(lease, c, k, e) /\ lease' \in {Extend(lease), Clear(lease)}
        /\ UNCHANGED <<ledger, accepted>>
    BY <1>2, SameLease DEF IS!Renew, IS!Release
  <2> QED
    BY <1>0, <2>1, LeaseGetsWorse DEF Verify
<1>3. ASSUME IS!RevokeAll \/ IS!Tick
      PROVE  Worse(lease, lease') /\ UNCHANGED <<ledger, accepted>>
  <2>1. lease' \in {Clear(lease), Elapse(lease)} /\ UNCHANGED <<ledger, accepted>>
    BY <1>3, SameLease DEF IS!RevokeAll, IS!Tick
  <2>2. CASE \E c \in Client, k \in Connection : TRUE
    BY <1>0, <2>1, <2>2, LeaseGetsWorse
  <2>3. CASE ~ \E c \in Client, k \in Connection : TRUE
    <3>1. lease.owner = NoOwner
      BY <1>0, <2>3, LeaseFacts
    <3>2. Clear(lease) = lease /\ Elapse(lease) = lease
      BY <1>0, <3>1, LeaseFacts DEF Clear, Elapse, Live
    <3>3. lease.epoch \in Nat
      BY <1>0, LeaseFacts
    <3> QED
      BY <1>0, <2>1, <3>2, <3>3 DEF Worse
  <2> QED
    BY <2>2, <2>3
<1>4. ASSUME NEW k \in Connection, IS!RevokeConnection(k)
      PROVE  Worse(lease, lease') /\ UNCHANGED <<ledger, accepted>>
  <2>1. lease' = ConnectionRevoked(lease, k) /\ UNCHANGED <<ledger, accepted>>
    BY <1>4, SameLease DEF IS!RevokeConnection
  <2>2. CASE lease.owner = NoOwner
    <3>1. lease' = lease /\ lease.epoch \in Nat
      BY <1>0, <2>1, <2>2, LeaseFacts DEF ConnectionRevoked
    <3> QED
      BY <1>0, <2>1, <3>1 DEF Worse
  <2>3. CASE lease.owner # NoOwner
    BY <1>0, <2>1, <2>3, LeaseFacts, LeaseGetsWorse
  <2> QED
    BY <2>2, <2>3
<1>5. ASSUME NEW c \in Client, IS!RevokeClient(c)
      PROVE  Worse(lease, lease') /\ UNCHANGED <<ledger, accepted>>
  <2>1. lease' = ClientRevoked(lease, c) /\ UNCHANGED <<ledger, accepted>>
    BY <1>5, SameLease DEF IS!RevokeClient
  <2>2. CASE lease.owner = NoOwner
    <3>1. lease' = lease /\ lease.epoch \in Nat
      BY <1>0, <2>1, <2>2, LeaseFacts DEF ClientRevoked
    <3> QED
      BY <1>0, <2>1, <3>1 DEF Worse
  <2>3. CASE lease.owner # NoOwner
    BY <1>0, <2>1, <2>3, LeaseFacts, LeaseGetsWorse
  <2> QED
    BY <2>2, <2>3
<1> QED
  BY <1>1, <1>2, <1>3, <1>4, <1>5 DEF LeaseStep

\* A permission that is gone does not come back.
LEMMA PermissionFalls ==
  ASSUME WriterTypeOK, Issued, Worse(lease, lease'), UNCHANGED <<accepted, who>>,
         valid' \subseteq valid, running' => running
  PROVE  \A n \in Job : Permitted(n)' => Permitted(n)
<1> SUFFICES ASSUME NEW n \in Job, Permitted(n)' PROVE Permitted(n)
  OBVIOUS
<1>1. /\ accepted[n].client \in Client /\ accepted[n].connection \in Connection
      /\ accepted[n].lease \in Nat /\ accepted[n].lease <= lease.epoch
  BY JobFacts DEF Issued
<1>2. Verify(lease', accepted[n].client, accepted[n].connection, accepted[n].lease)
  BY DEF Permitted
<1>3. Verify(lease, accepted[n].client, accepted[n].connection, accepted[n].lease)
  BY <1>1, <1>2 DEF Worse
<1> QED
  BY <1>3 DEF Permitted

\* Handlers that come and go, the end of the session, the terminal's queries,
\* the withdrawal of principals and the life of the lease.
LEMMA OutsideSteps ==
  ASSUME IInv,
         \/ LeaseStep \/ DropSession \/ AskTerminal
         \/ \E h \in Handler : Refuse(h) \/ \E id \in InputId : Admit(h, id)
         \/ \E t \in Ender : EndStep(t)
         \/ \E P \in SUBSET Principal : Withdraw(P)
  PROVE  IInv'
<1> USE DEF IInv
<1>0. lease \in LeaseValue /\ lease.epoch \in Nat /\ Worse(lease, lease)
  <2>1. lease \in LeaseValue /\ lease.epoch \in Nat
    BY LeaseFacts DEF WriterTypeOK
  <2> QED
    BY <2>1 DEF Worse
<1>1. ASSUME UNCHANGED <<ledger, accepted, who, reply, normal, interrupt, w, pty>>,
             Worse(lease, lease'), valid' \subseteq valid, running' => running, running' \in BOOLEAN,
             gone' \in BOOLEAN, stop' \in BOOLEAN, queries' \in 0..QueryCap,
             ender' \in [Ender -> {"idle", "revoking", "signalling", "done"}],
             request' \in [Handler -> Request \cup {Idle}]
      PROVE  IInv'
  <2>1. lease' \in LeaseValue /\ valid' \subseteq Principal /\ {stop', running', gone'} \subseteq BOOLEAN
    BY <1>1 DEF Worse, WriterTypeOK
  <2>2. Job' = Job
    BY <1>1 DEF Job
  <2>3. WriterTypeOK'
    BY <1>1, <2>1, <2>2 DEF WriterTypeOK
  <2>4. \A n \in Job : Permitted(n)' => Permitted(n)
    BY <1>1, PermissionFalls
  <2> QED
    BY <1>1, <2>3, <2>4, OutsideStep DEF Worse
<1>2. /\ running \in BOOLEAN /\ gone \in BOOLEAN /\ stop \in BOOLEAN /\ queries \in 0..QueryCap
      /\ ender \in [Ender -> {"idle", "revoking", "signalling", "done"}]
      /\ request \in [Handler -> Request \cup {Idle}]
  BY DEF WriterTypeOK
<1>3. CASE LeaseStep
  <2>1. Worse(lease, lease') /\ UNCHANGED <<ledger, accepted>>
    BY <1>3, LeaseStepWorse
  <2>2. UNCHANGED <<who, reply, normal, interrupt, queries, w, pty, stop, running, gone, ender, valid, request>>
    BY <1>3 DEF LeaseStep, queueVars, sessionVars
  <2> QED
    BY <1>1, <1>2, <2>1, <2>2
<1>4. CASE DropSession
  <2>1. /\ UNCHANGED <<lease, ledger, accepted, who, reply, normal, interrupt, queries, w, pty,
                       running, ender, valid, request>>
        /\ gone' = TRUE /\ stop' \in BOOLEAN
    BY <1>4 DEF DropSession, inputVars, queueVars
  <2> QED
    BY <1>0, <1>1, <1>2, <2>1
<1>5. CASE AskTerminal
  <2>1. /\ UNCHANGED <<lease, ledger, accepted, who, reply, normal, interrupt, w, pty, stop, running,
                       gone, ender, valid, request>>
        /\ queries' = queries + 1 /\ queries < QueryCap
    BY <1>5 DEF AskTerminal, inputVars, queueVars, sessionVars
  <2>2. queries' \in 0..QueryCap
    BY <1>2, <2>1, Bounds
  <2> QED
    BY <1>0, <1>1, <1>2, <2>1, <2>2
<1>6. ASSUME NEW h \in Handler, Refuse(h) \/ \E id \in InputId : Admit(h, id) PROVE IInv'
  <2>1. /\ UNCHANGED <<lease, ledger, accepted, who, reply, normal, interrupt, queries, w, pty, stop,
                       running, gone, ender, valid>>
        /\ \/ request' = [request EXCEPT ![h] = Idle]
           \/ \E id \in InputId : request' = [request EXCEPT ![h] = [id |-> id, epoch |-> lease.epoch]]
    BY <1>6 DEF Refuse, Admit, inputVars, queueVars, sessionVars
  <2>2. \A id \in InputId : [id |-> id, epoch |-> lease.epoch] \in Request
    <3>1. lease.epoch \in 0..MaxEpoch
      BY <1>0 DEF LeaseValue
    <3> QED
      BY <3>1 DEF Request, IS!Epoch
  <2>3. request' \in [Handler -> Request \cup {Idle}]
    BY <1>2, <2>1, <2>2
  <2> QED
    BY <1>0, <1>1, <1>2, <2>1, <2>3
<1>7. ASSUME NEW t \in Ender, BeginEnd(t) \/ SignalStop(t) PROVE IInv'
  <2>1. /\ UNCHANGED <<lease, ledger, accepted, who, reply, normal, interrupt, queries, w, pty,
                       gone, valid, request>>
        /\ running' = running \/ running' = FALSE
        /\ stop' \in BOOLEAN
        /\ \/ ender' = [ender EXCEPT ![t] = "revoking"]
           \/ ender' = [ender EXCEPT ![t] = "done"]
    BY <1>2, <1>7 DEF BeginEnd, SignalStop, endUnchanged, inputVars, queueVars
  <2>2. ender' \in [Ender -> {"idle", "revoking", "signalling", "done"}]
    BY <1>2, <2>1
  <2>3. running' \in BOOLEAN /\ (running' => running)
    <3>1. CASE running' = running
      BY <1>2, <3>1
    <3>2. CASE running' = FALSE
      BY <3>2
    <3> QED
      BY <2>1, <3>1, <3>2
  <2> QED
    BY <1>0, <1>1, <1>2, <2>1, <2>2, <2>3
<1>8. ASSUME NEW t \in Ender, EndLease(t) PROVE IInv'
  <2>1. /\ UNCHANGED <<who, reply, normal, interrupt, queries, w, pty, stop, running, gone, valid, request>>
        /\ ender' = [ender EXCEPT ![t] = "signalling"] /\ IS!RevokeAll
    BY <1>8 DEF EndLease, endUnchanged, queueVars
  <2>2. ender' \in [Ender -> {"idle", "revoking", "signalling", "done"}]
    BY <1>2, <2>1
  <2>3. Worse(lease, lease') /\ UNCHANGED <<ledger, accepted>>
    BY <2>1, LeaseStepWorse
  <2> QED
    BY <1>1, <1>2, <2>1, <2>2, <2>3
<1>9. ASSUME NEW P \in SUBSET Principal, Withdraw(P) PROVE IInv'
  <2>1. /\ UNCHANGED <<lease, ledger, accepted, who, reply, normal, interrupt, queries, w, pty, stop,
                       running, gone, ender, request>>
        /\ valid' = valid \ P
    BY <1>9 DEF Withdraw, inputVars, queueVars, sessionVars
  <2> QED
    BY <1>0, <1>1, <1>2, <2>1
<1> QED
  BY <1>3, <1>4, <1>5, <1>6, <1>7, <1>8, <1>9 DEF EndStep

-----------------------------------------------------------------------------
\* Between the delimiters of a paste.
Inside == {"chunk", "write", "suffix"}

\* The writer goes on with its job: a write needs a fresh check, and what was
\* written is what was counted.
SameJob ==
  /\ w.job # 0 /\ w'.job = w.job
  /\ w.pc \in Started => w'.pc \in Started
  /\ w'.pc \in Cleared => Permitted(w.job) \/ w.pc \in Cleared
  /\ w'.open = w.open /\ (w.pc \in Inside => w'.pc \in Inside \/ ~w.open)
  /\ w'.result = "ok" => w.result = "ok" /\ SoFar' = SoFar

\* The writer has no job or has settled it, and has none or takes one that
\* waits.
OtherJob ==
  /\ w.pc \notin Inside
  /\ w.job # 0 => reply'[w.job] \notin {"pending", "rejected"}
  /\ w'.job # 0 => w'.job # w.job /\ reply'[w'.job] = "pending" /\ w'.pc \in {"cancel", "begin"}

\* A step of the writer that writes nothing keeps the history right: jobs are
\* settled truthfully, and the ledger calls rejected only what is.
LEMMA HistoryKept ==
  ASSUME IInv, WriterTypeOK', UNCHANGED <<lease, accepted, who, pty, running, valid>>,
         \A n \in Job : \/ reply'[n] = reply[n]
                        \/ Pending(n) /\ reply'[n] \notin {"pending", "rejected"},
         \A n \in Job : reply'[n] = "written" =>
                          \/ reply[n] = "written"
                          \/ Cardinality(Good(n)) = Parts(n) /\ InOrder(n),
         \A n \in Job : (RejectedFor(n)' /\ Once(n)) =>
                          \/ RejectedFor(n)
                          \/ ~Pending(n)' /\ Writes(n) = {},
         SameJob \/ OtherJob
  PROVE  Issued' /\ History' /\ Shown'
<1> USE DEF IInv, Placed, History, Shown
<1>1. Job' = Job /\ \A n : JobOf(n)' = JobOf(n) /\ Writes(n)' = Writes(n)
  BY DEF Job, JobOf, Writes
<1>2. \A n : /\ Good(n)' = Good(n) /\ Delimiters(n)' = Delimiters(n) /\ Parts(n)' = Parts(n)
             /\ Once(n)' = Once(n) /\ Permitted(n)' = Permitted(n)
  BY <1>1 DEF Good, Delimiters, Parts, Once, Permitted
<1>3. \A n : InOrder(n)' = InOrder(n)
  BY <1>1, <1>2 DEF InOrder, PartAt, Rank
<1>4. \A n \in Job : Pending(n)' => Pending(n)
  BY DEF Pending
<1>5. Issued'
  BY <1>1 DEF Issued
<1>6. InterruptBarrier' /\ AtMostOneLateWrite'
  BY <1>1 DEF InterruptBarrier, AtMostOneLateWrite
<1>7. Behind'
  BY <1>1, <1>4 DEF Behind
<1>8. w'.job # 0 => w'.job \in Job
  <2>1. w'.job \in 0..Len(accepted)
    BY DEF WriterTypeOK
  <2> QED
    BY <2>1, WriterFacts DEF Job
<1>9. Rejections'
  <2> SUFFICES ASSUME NEW n \in Job, RejectedFor(n)', Once(n) PROVE ~Pending(n)' /\ Writes(n) = {}
    BY <1>1, <1>2 DEF Rejections
  <2>1. CASE RejectedFor(n)
    BY <1>4, <2>1 DEF Rejections
  <2>2. CASE ~Pending(n)' /\ Writes(n) = {}
    BY <2>2
  <2> QED
    BY <2>1, <2>2
<1>10. CASE SameJob
  <2>1. Unwritten'
    <3> SUFFICES ASSUME NEW i \in 1..Len(pty), pty[i].job # 0
                 PROVE  \/ reply'[pty[i].job] \notin {"pending", "rejected"}
                        \/ pty[i].job = w'.job /\ w'.pc \in Started
      BY DEF Unwritten
    <3>1. pty[i].job \in Job
      BY QueueFacts
    <3>2. CASE reply[pty[i].job] \notin {"pending", "rejected"}
      BY <3>1, <3>2
    <3>3. CASE pty[i].job = w.job /\ w.pc \in Started
      BY <1>10, <3>3 DEF SameJob
    <3> QED
      BY <3>2, <3>3 DEF Unwritten
  <2>2. Late'
    BY <1>2, <1>10 DEF Late, SameJob
  <2>3. Closing'
    <3> SUFFICES ASSUME NEW i \in 1..Len(pty), pty[i].part = "open", pty[i].ok
                 PROVE  \/ \E m \in i..Len(pty) : /\ pty[m].part = "close"
                                                  /\ \A j \in i..m : pty[j].job = pty[i].job
                        \/ /\ w'.open /\ w'.pc \in Inside /\ w'.job # 0
                           /\ \A j \in i..Len(pty) : pty[j].job = w'.job
      BY DEF Closing, Inside
    <3> QED
      BY <1>10 DEF Closing, SameJob, Inside
  <2>4. Counted'
    BY <1>1, <1>2, <1>3, <1>10 DEF Counted, SameJob
  <2> QED
    BY <1>5, <1>6, <1>7, <1>9, <2>1, <2>2, <2>3, <2>4
<1>11. CASE OtherJob
  <2>1. Unwritten'
    <3> SUFFICES ASSUME NEW i \in 1..Len(pty), pty[i].job # 0
                 PROVE  reply'[pty[i].job] \notin {"pending", "rejected"}
      BY DEF Unwritten
    <3>1. pty[i].job \in Job
      BY QueueFacts
    <3>2. CASE reply[pty[i].job] \notin {"pending", "rejected"}
      BY <3>1, <3>2
    <3>3. CASE pty[i].job = w.job /\ w.pc \in Started
      BY <1>11, <3>3 DEF OtherJob
    <3> QED
      BY <3>2, <3>3 DEF Unwritten
  <2>2. w'.job # 0 => Writes(w'.job) = {}
    <3> SUFFICES ASSUME w'.job # 0, NEW i \in 1..Len(pty), pty[i].job = w'.job PROVE FALSE
      BY DEF Writes
    <3>1. w'.job \in Job /\ reply'[w'.job] = "pending" /\ w'.job # w.job
      BY <1>8, <1>11 DEF OtherJob
    <3>2. reply[w'.job] = "pending"
      BY <3>1
    <3> QED
      BY <3>1, <3>2 DEF Unwritten
  <2>3. Late'
    BY <2>2 DEF Late, Writes
  <2>4. Closing'
    BY <1>11 DEF Closing, OtherJob, Inside
  <2>5. Counted'
    <3>1. \A n \in Job : reply'[n] = "written" => Cardinality(Good(n)) = Parts(n) /\ InOrder(n)
      BY DEF Counted
    <3>2. w'.job # 0 => Good(w'.job) = {} /\ InOrder(w'.job)
      BY <2>2 DEF Good, InOrder
    <3>3. Cardinality({}) = 0
      BY FS_EmptySet
    <3>4. w'.job # 0 => SoFar' = 0
      BY <1>11 DEF OtherJob, SoFar
    <3> QED
      BY <1>1, <1>2, <1>3, <3>1, <3>2, <3>3, <3>4 DEF Counted
  <2> QED
    BY <1>5, <1>6, <1>7, <1>9, <2>1, <2>3, <2>4, <2>5
<1> QED
  BY <1>10, <1>11

-----------------------------------------------------------------------------
WriterValue ==
  [pc : Pc, job : 0..Len(accepted), next : 1..MaxPaste + 1, open : BOOLEAN,
   urgent : 0..Len(accepted), result : {"ok", "canceled", "refused", "unknown"}]

\* A queue without its first element.
LEMMA TailFacts ==
  ASSUME NEW S, NEW s \in Seq(S), s # << >>
  PROVE  /\ Len(s) \in Nat /\ Len(s) >= 1 /\ Head(s) = s[1] /\ Head(s) \in S
         /\ Tail(s) \in Seq(S) /\ Len(Tail(s)) = Len(s) - 1
         /\ \A i \in 1..Len(Tail(s)) : Tail(s)[i] = s[i + 1] /\ i + 1 \in 1..Len(s)
OBVIOUS

\* A step that leaves jobs and queues where they are.
LEMMA StayPlaced ==
  ASSUME IInv, UNCHANGED <<accepted, reply, normal, interrupt>>,
         w'.job = w.job, w'.urgent = w.urgent, w'.pc \in Hand <=> w.pc \in Hand,
         w'.pc = "cancel" => w.pc = "cancel",
         w.pc = "cancel" => w'.pc = "cancel" \/ normal = << >>,
         w.pc \in Ending => w'.pc \in Ending,
         Progress'
  PROVE  Placed'
<1> USE DEF IInv, Placed
<1>1. Job' = Job /\ \A n : JobOf(n)' = JobOf(n) /\ Pending(n)' = Pending(n)
  BY DEF Job, JobOf, Pending
<1>2. Queued' /\ Held' /\ Somewhere'
  BY <1>1 DEF Queued, Held, Somewhere
<1>3. Ahead'
  <2>1. normal = << >> => \A i \in 1..Len(normal) : FALSE
    OBVIOUS
  <2>2. w'.pc \in Hand \ {"cancel"} => \A i \in 1..Len(normal) : normal[i] > w.job
    BY <2>1 DEF Ahead
  <2> QED
    BY <1>1, <2>2 DEF Ahead
<1> QED
  BY <1>2, <1>3

\* The types of what a step of the writer changes besides the history.
LEMMA WriterTypes ==
  ASSUME WriterTypeOK,
         UNCHANGED <<lease, accepted, who, queries, pty, running, gone, ender, valid, request>>,
         stop' \in BOOLEAN, reply' \in Seq(Outcome), Len(reply') = Len(reply),
         normal' \in Seq(Job), Len(normal') <= Len(normal),
         interrupt' \in Seq(Job), Len(interrupt') <= Len(interrupt),
         w' \in WriterValue
  PROVE  WriterTypeOK'
<1>1. Job' = Job /\ {stop', running', gone'} \subseteq BOOLEAN
  BY DEF WriterTypeOK, Job
<1>2. Len(normal') \in Nat /\ Len(normal) \in Nat /\ Len(interrupt') \in Nat /\ Len(interrupt) \in Nat
  BY DEF WriterTypeOK
<1>3. Len(normal') <= NormalCap /\ Len(interrupt') <= InterruptCap
  BY <1>2, Bounds DEF WriterTypeOK
<1> QED
  BY <1>1, <1>3 DEF WriterTypeOK, WriterValue

\* A step of the writer that neither writes nor settles anything.
LEMMA StayStep ==
  ASSUME IInv,
         UNCHANGED <<lease, ledger, accepted, who, reply, normal, interrupt, queries, pty, running,
                     gone, ender, valid, request>>,
         stop' \in BOOLEAN, w' \in WriterValue,
         w'.job = w.job, w'.urgent = w.urgent, w'.pc \in Hand <=> w.pc \in Hand,
         w'.pc = "cancel" => w.pc = "cancel",
         w.pc = "cancel" => w'.pc = "cancel" \/ normal = << >>,
         w.pc \in Ending => w'.pc \in Ending,
         Progress', w.job # 0 => SameJob
  PROVE  IInv'
<1>0. WriterTypeOK /\ LedgerShape /\ Placed /\ History
  BY DEF IInv
<1>1. Placed'
  BY StayPlaced
<1>2. WriterTypeOK'
  <2>1. /\ reply \in Seq(Outcome) /\ Len(reply) \in Nat /\ normal \in Seq(Job) /\ Len(normal) \in Nat
        /\ interrupt \in Seq(Job) /\ Len(interrupt) \in Nat
    BY <1>0 DEF WriterTypeOK
  <2> QED
    BY <1>0, <2>1, WriterTypes
<1>3. LedgerShape'
  BY <1>0 DEF LedgerShape
<1>4. w.job = 0 => OtherJob
  BY <1>0 DEF Placed, Held, Hand, OtherJob, Inside
<1>5. \A n : RejectedFor(n)' = RejectedFor(n)
  BY DEF RejectedFor
<1>6. Issued' /\ History' /\ Shown'
  <2>1. \A n \in Job : reply'[n] = reply[n] /\ (RejectedFor(n)' => RejectedFor(n))
    BY <1>5
  <2>2. SameJob \/ OtherJob
    BY <1>4
  <2> QED
    BY <1>2, <2>1, <2>2, HistoryKept
<1> QED
  BY <1>1, <1>2, <1>3, <1>6 DEF IInv

\* The steps of the writer that only look.
LEMMA StaySteps ==
  ASSUME IInv,
         \/ PollStop
         \/ PollInterrupt /\ interrupt = << >>
         \/ NothingToDo
         \/ CancelQueued /\ normal = << >>
         \/ Begin /\ ~gone
         \/ CheckEnter
         \/ NextChunk /\ interrupt' = interrupt /\ w'.result # "canceled"
         \/ Suffix /\ ~w.open
         \/ DrainNormal /\ normal = << >>
  PROVE  IInv'
<1>0. WriterTypeOK /\ Issued /\ Placed /\ History /\ Held /\ Progress
  BY DEF IInv, Placed
<1>1. /\ w.pc \in Pc /\ w.open \in BOOLEAN /\ w.next \in 1..MaxPaste + 1
      /\ w.result \in {"ok", "canceled", "refused", "unknown"}
      /\ w.job \in 0..Len(accepted) /\ (w.job # 0 => w.job \in Job)
      /\ w.urgent \in 0..Len(accepted)
      /\ w = [pc |-> w.pc, job |-> w.job, next |-> w.next, open |-> w.open,
              urgent |-> w.urgent, result |-> w.result]
  BY <1>0, WriterFacts
<1>2. stop \in BOOLEAN
  BY <1>0 DEF WriterTypeOK
<1>3. ASSUME w.job = 0, w'.pc \in Pc \ Hand,
             w' = [w EXCEPT !.pc = w'.pc] \/ w' = ResetWriter(w'.pc),
             UNCHANGED <<lease, ledger, accepted, who, reply, normal, interrupt, queries, pty, running,
                         gone, ender, valid, request>>,
             stop' \in BOOLEAN
      PROVE  IInv'
  <2>1. w.urgent = 0 /\ w.pc \notin Hand /\ w.next = 1 /\ ~w.open /\ w.result = "ok"
    BY <1>0, <1>3 DEF Held, Progress, Hand, Started
  <2>2. /\ w'.job = 0 /\ w'.urgent = 0 /\ w'.next = 1 /\ ~w'.open /\ w'.result = "ok"
        /\ w' \in WriterValue
    <3>1. w'.pc \in Pc /\ 0 \in 0..Len(accepted) /\ 1 \in 1..MaxPaste + 1
      BY <1>0, <1>3, WriterFacts, Bounds
    <3>2. CASE w' = [w EXCEPT !.pc = w'.pc]
      BY <1>1, <1>3, <2>1, <3>1, <3>2 DEF WriterValue
    <3>3. CASE w' = ResetWriter(w'.pc)
      <4> DEFINE pc == w'.pc
      <4>1. w' = [pc |-> pc, job |-> 0, next |-> 1, open |-> FALSE, urgent |-> 0, result |-> "ok"]
        BY <3>3 DEF ResetWriter
      <4>2. pc \in Pc
        BY <3>1
      <4> HIDE DEF pc
      <4> QED
        BY <3>1, <4>1, <4>2 DEF WriterValue
    <3> QED
      BY <1>3, <3>2, <3>3
  <2>3. Progress'
    BY <1>3, <2>2 DEF Progress, Hand, Started, Ending
  <2> QED
    BY <1>3, <2>1, <2>2, <2>3, StayStep DEF Hand, Ending
<1>4. CASE PollStop
  <2>1. w.job = 0
    BY <1>0, <1>4 DEF PollStop, Held, Hand
  <2>2. /\ UNCHANGED <<lease, ledger, accepted, who, reply, normal, interrupt, queries, pty, running,
                       gone, ender, valid, request>>
        /\ \/ w' = ResetWriter("drainNormal") /\ stop' = FALSE
           \/ w' = [w EXCEPT !.pc = "urgent"] /\ stop' = stop
    BY <1>4 DEF PollStop, inputVars, queueVars
  <2>3. CASE w' = ResetWriter("drainNormal") /\ stop' = FALSE
    <3>1. w'.pc = "drainNormal"
      BY <2>3 DEF ResetWriter
    <3> QED
      BY <1>3, <2>1, <2>2, <2>3, <3>1 DEF Pc, Hand
  <2>4. CASE w' = [w EXCEPT !.pc = "urgent"] /\ stop' = stop
    <3>1. w'.pc = "urgent"
      BY <1>1, <2>4
    <3> QED
      BY <1>2, <1>3, <2>1, <2>2, <2>4, <3>1 DEF Pc, Hand
  <2> QED
    BY <2>2, <2>3, <2>4
<1>5. CASE PollInterrupt /\ interrupt = << >>
  <2>1. /\ w.pc = "urgent" /\ w' = [w EXCEPT !.pc = "low"]
        /\ UNCHANGED <<lease, ledger, accepted, who, reply, normal, interrupt, queries, pty, running,
                       gone, ender, valid, request, stop>>
    BY <1>5 DEF PollInterrupt, inputVars, queueVars, sessionVars
  <2>2. w.job = 0 /\ w'.pc = "low"
    BY <1>0, <1>1, <2>1 DEF Held, Hand
  <2> QED
    BY <1>2, <1>3, <2>1, <2>2 DEF Pc, Hand
<1>6. CASE NothingToDo
  <2>1. /\ w.pc = "low" /\ w' = ResetWriter("stop")
        /\ UNCHANGED <<lease, ledger, accepted, who, reply, normal, interrupt, queries, pty, running,
                       gone, ender, valid, request, stop>>
    BY <1>6 DEF NothingToDo, writerOnly, inputVars, queueVars, sessionVars
  <2>2. w.job = 0 /\ w'.pc = "stop"
    BY <1>0, <1>1, <2>1 DEF Held, Hand, ResetWriter
  <2> QED
    BY <1>2, <1>3, <2>1, <2>2 DEF Pc, Hand
<1>7. CASE DrainNormal /\ normal = << >>
  <2>1. /\ w.pc = "drainNormal" /\ w' = [w EXCEPT !.pc = "drainInterrupt"]
        /\ UNCHANGED <<lease, ledger, accepted, who, reply, normal, interrupt, queries, pty, running,
                       gone, ender, valid, request, stop>>
    BY <1>7 DEF DrainNormal, inputVars, queueVars, sessionVars
  <2>2. w.job = 0 /\ w'.pc = "drainInterrupt"
    BY <1>0, <1>1, <2>1 DEF Held, Hand
  <2> QED
    BY <1>2, <1>3, <2>1, <2>2 DEF Pc, Hand
<1>8. ASSUME NEW pc \in Hand \ {"cancel"}, NEW r \in {"ok", "canceled", "refused", "unknown"}, w.job # 0,
             w' = [w EXCEPT !.pc = pc, !.result = r],
             r = "ok" => w.result = "ok",
             UNCHANGED <<lease, ledger, accepted, who, reply, normal, interrupt, queries, pty, running,
                         gone, ender, valid, request, stop>>,
             w.pc = "cancel" => normal = << >>, w.pc \in Ending => pc \in Ending,
             Progress',
             w.pc \in Started => pc \in Started,
             pc \in Cleared => Permitted(w.job) \/ w.pc \in Cleared,
             w.pc \in Inside => pc \in Inside \/ ~w.open,
             r = "ok" => SoFar' = SoFar
      PROVE  IInv'
  <2>1. w.pc \in Hand
    BY <1>0, <1>8 DEF Held
  <2>2. /\ w'.job = w.job /\ w'.urgent = w.urgent /\ w'.pc = pc /\ w'.result = r /\ w'.open = w.open
        /\ w' \in WriterValue
    BY <1>1, <1>8 DEF WriterValue, Pc, Hand
  <2>3. SameJob
    BY <1>8, <2>2 DEF SameJob
  <2> QED
    BY <1>2, <1>8, <2>1, <2>2, <2>3, StayStep
<1>9. w.job # 0 => JobOf(w.job).chunks \in Nat /\ JobOf(w.job).bracketed \in BOOLEAN
                   /\ JobOf(w.job).enter \in BOOLEAN /\ Delimiters(w.job) \in {0, 1}
  BY <1>0, <1>1, JobShape
<1>10. ASSUME UNCHANGED accepted PROVE \A n : JobOf(n)' = JobOf(n) /\ Delimiters(n)' = Delimiters(n) /\ Parts(n)' = Parts(n)
  BY <1>10 DEF JobOf, Delimiters, Parts
<1>11. CASE CancelQueued /\ normal = << >>
  <2>1. /\ w.pc = "cancel" /\ w' = [w EXCEPT !.pc = "begin"]
        /\ UNCHANGED <<lease, ledger, accepted, who, reply, normal, interrupt, queries, pty, running,
                       gone, ender, valid, request, stop>>
    BY <1>11 DEF CancelQueued, inputVars, queueVars, sessionVars
  <2>2. w.job # 0 /\ w.next = 1 /\ ~w.open /\ w.result = "ok"
    BY <1>0, <2>1 DEF Held, Progress, Hand, Started
  <2>3. w' = [w EXCEPT !.pc = "begin", !.result = "ok"]
    BY <1>1, <2>1, <2>2
  <2>4. w'.pc = "begin" /\ w'.next = 1 /\ w'.open = w.open /\ w'.result = "ok" /\ w'.job = w.job
    BY <1>1, <2>2, <2>3
  <2>5. Progress' /\ SoFar' = SoFar
    BY <2>1, <2>2, <2>4 DEF Progress, SoFar, Started, Ending
  <2> QED
    BY <1>8, <1>11, <2>1, <2>2, <2>3, <2>5 DEF Hand, Started, Cleared, Inside, Ending
<1>12. CASE Begin /\ ~gone
  <2>1. /\ w.pc = "begin"
        /\ w' = IF Permitted(w.job)
                THEN [w EXCEPT !.pc = IF JobOf(w.job).bracketed THEN "prefix" ELSE "chunk"]
                ELSE Fail("refused")
        /\ UNCHANGED <<lease, ledger, accepted, who, reply, normal, interrupt, queries, pty, running,
                       gone, ender, valid, request, stop>>
    BY <1>12 DEF Begin, inputVars, queueVars, sessionVars
  <2>2. w.job # 0 /\ w.next = 1 /\ ~w.open /\ w.result = "ok"
    BY <1>0, <2>1 DEF Held, Progress, Hand, Started
  <2>3. CASE Permitted(w.job)
    <3> DEFINE pc == IF JobOf(w.job).bracketed THEN "prefix" ELSE "chunk"
    <3>1. w' = [w EXCEPT !.pc = pc, !.result = "ok"]
      BY <1>1, <2>1, <2>2, <2>3
    <3>2. w'.pc = pc /\ w'.next = 1 /\ w'.open = w.open /\ w'.result = "ok" /\ w'.job = w.job
      BY <1>1, <2>2, <3>1
    <3>3. pc \in Hand \ {"cancel"} /\ (pc \in Cleared => Permitted(w.job))
      BY <2>3 DEF Hand
    <3>4. Progress'
      <4>0. UNCHANGED accepted
        BY <2>1
      <4>1. CASE JobOf(w.job).bracketed
        BY <1>10, <2>2, <3>2, <4>0, <4>1 DEF Progress, Started, Ending
      <4>2. CASE ~JobOf(w.job).bracketed
        <5>1. w.open = FALSE /\ JobOf(w.job).bracketed = FALSE
          BY <1>1, <1>9, <2>2, <4>2
        <5>2. 1 <= JobOf(w.job).chunks + 1
          BY <1>9, <2>2
        <5> QED
          BY <1>10, <2>2, <3>2, <4>0, <4>2, <5>1, <5>2 DEF Progress, Started, Ending
      <4> QED
        BY <4>1, <4>2
    <3>5. SoFar' = SoFar
      BY <1>9, <1>10, <2>1, <2>2, <3>2 DEF SoFar, Delimiters
    <3> HIDE DEF pc
    <3> QED
      BY <1>8, <2>1, <2>2, <3>1, <3>3, <3>4, <3>5 DEF Started, Inside, Ending
  <2>4. CASE ~Permitted(w.job)
    <3>1. w' = [w EXCEPT !.pc = "suffix", !.result = "refused"]
      BY <2>1, <2>4 DEF Fail
    <3>2. w'.pc = "suffix" /\ w'.result = "refused"
      BY <1>1, <3>1
    <3>3. Progress'
      BY <3>2 DEF Progress, Started, Ending
    <3> QED
      BY <1>8, <2>1, <2>2, <3>1, <3>3 DEF Hand, Started, Cleared, Inside, Ending
  <2> QED
    BY <2>3, <2>4
<1>13. CASE CheckEnter
  <2>1. /\ w.pc = "enter"
        /\ w' = IF w.result = "ok" /\ JobOf(w.job).enter
                THEN IF Permitted(w.job) THEN [w EXCEPT !.pc = "enterWrite"]
                                         ELSE [w EXCEPT !.pc = "finish", !.result = "refused"]
                ELSE [w EXCEPT !.pc = "finish"]
        /\ UNCHANGED <<lease, ledger, accepted, who, reply, normal, interrupt, queries, pty, running,
                       gone, ender, valid, request, stop>>
    BY <1>13 DEF CheckEnter, writerOnly, inputVars, queueVars, sessionVars
  <2>2. w.job # 0
    BY <1>0, <2>1 DEF Held, Hand
  <2>3. CASE w.result = "ok" /\ JobOf(w.job).enter /\ Permitted(w.job)
    <3>1. w' = [w EXCEPT !.pc = "enterWrite", !.result = "ok"]
      BY <1>1, <2>1, <2>3
    <3>2. w'.pc = "enterWrite" /\ w'.next = w.next /\ w'.open = w.open /\ w'.result = "ok" /\ w'.job = w.job
      BY <1>1, <3>1
    <3>3. Progress' /\ SoFar' = SoFar
      BY <1>0, <1>10, <2>1, <2>3, <3>2 DEF Progress, SoFar, Started, Ending
    <3> QED
      BY <1>8, <2>1, <2>2, <2>3, <3>1, <3>3 DEF Hand, Started, Inside, Ending
  <2>4. CASE w.result = "ok" /\ JobOf(w.job).enter /\ ~Permitted(w.job)
    <3>1. w' = [w EXCEPT !.pc = "finish", !.result = "refused"]
      BY <2>1, <2>4
    <3>2. w'.pc = "finish" /\ w'.result = "refused"
      BY <1>1, <3>1
    <3>3. Progress'
      BY <3>2 DEF Progress, Started, Ending
    <3> QED
      BY <1>8, <2>1, <2>2, <3>1, <3>3 DEF Hand, Started, Cleared, Inside, Ending
  <2>5. CASE ~(w.result = "ok" /\ JobOf(w.job).enter)
    <3>1. w' = [w EXCEPT !.pc = "finish", !.result = w.result]
      BY <1>1, <2>1, <2>5
    <3>2. w'.pc = "finish" /\ w'.next = w.next /\ w'.open = w.open /\ w'.result = w.result /\ w'.job = w.job
      BY <1>1, <3>1
    <3>3. Progress'
      BY <1>0, <1>10, <2>1, <3>2 DEF Progress, Started, Ending
    <3>4. w.result = "ok" => SoFar' = SoFar
      BY <1>9, <1>10, <2>1, <2>2, <2>5, <3>2 DEF SoFar, Parts
    <3> QED
      BY <1>1, <1>8, <2>1, <2>2, <3>1, <3>3, <3>4 DEF Hand, Started, Cleared, Inside, Ending
  <2> QED
    BY <2>3, <2>4, <2>5
<1>14. CASE NextChunk /\ interrupt' = interrupt /\ w'.result # "canceled"
  <2>1. /\ w.pc = "chunk"
        /\ \/ w.next > JobOf(w.job).chunks /\ w' = Fail("ok")
           \/ w.next <= JobOf(w.job).chunks /\ Permitted(w.job) /\ w' = [w EXCEPT !.pc = "write"]
           \/ w' = Fail("refused")
        /\ UNCHANGED <<lease, ledger, accepted, who, reply, normal, interrupt, queries, pty, running,
                       gone, ender, valid, request, stop>>
    <3>1. w.pc = "chunk" /\ UNCHANGED <<lease, ledger, accepted, who, reply, normal, interrupt, queries,
                              pty, running, gone, ender, valid, request, stop>>
      BY <1>14 DEF NextChunk, inputVars, sessionVars
    <3>2. w.job # 0 /\ JobOf(w.job).chunks \in Nat /\ w.next \in Nat
      BY <1>0, <1>1, <1>9, <3>1, Bounds DEF Held, Hand
    <3>3. w' # [Fail("canceled") EXCEPT !.urgent = Head(interrupt)]
      BY <1>1, <1>14 DEF Fail
    <3> QED
      BY <1>14, <3>1, <3>2, <3>3 DEF NextChunk
  <2>2. w.job # 0 /\ w.result = "ok" /\ w.open = JobOf(w.job).bracketed /\ w.next <= JobOf(w.job).chunks + 1
    BY <1>0, <2>1 DEF Held, Hand, Progress, Started
  <2>3. CASE w.next > JobOf(w.job).chunks /\ w' = Fail("ok")
    <3>1. w' = [w EXCEPT !.pc = "suffix", !.result = "ok"]
      BY <2>3 DEF Fail
    <3>2. w'.pc = "suffix" /\ w'.next = w.next /\ w'.open = w.open /\ w'.result = "ok" /\ w'.job = w.job
      BY <1>1, <3>1
    <3>3. w.next = JobOf(w.job).chunks + 1
      BY <1>1, <1>9, <2>2, <2>3, Bounds
    <3>4. Progress' /\ SoFar' = SoFar
      BY <1>10, <2>1, <2>2, <3>2, <3>3 DEF Progress, SoFar, Started, Ending
    <3> QED
      BY <1>8, <2>1, <2>2, <3>1, <3>4 DEF Hand, Started, Cleared, Inside, Ending
  <2>4. CASE w.next <= JobOf(w.job).chunks /\ Permitted(w.job) /\ w' = [w EXCEPT !.pc = "write"]
    <3>1. w' = [w EXCEPT !.pc = "write", !.result = "ok"]
      BY <1>1, <2>2, <2>4
    <3>2. w'.pc = "write" /\ w'.next = w.next /\ w'.open = w.open /\ w'.result = "ok" /\ w'.job = w.job
      BY <1>1, <3>1
    <3>4. Progress' /\ SoFar' = SoFar
      BY <1>10, <2>1, <2>2, <2>4, <3>2 DEF Progress, SoFar, Started, Ending
    <3> QED
      BY <1>8, <2>1, <2>2, <2>4, <3>1, <3>4 DEF Hand, Started, Inside, Ending
  <2>5. CASE w' = Fail("refused")
    <3>1. w' = [w EXCEPT !.pc = "suffix", !.result = "refused"]
      BY <2>5 DEF Fail
    <3>2. w'.pc = "suffix" /\ w'.result = "refused"
      BY <1>1, <3>1
    <3>3. Progress'
      BY <3>2 DEF Progress, Started, Ending
    <3> QED
      BY <1>8, <2>1, <2>2, <3>1, <3>3 DEF Hand, Started, Cleared, Inside, Ending
  <2> QED
    BY <2>1, <2>3, <2>4, <2>5
<1>15. CASE Suffix /\ ~w.open
  <2>1. /\ w.pc = "suffix" /\ w' = [w EXCEPT !.pc = "enter"]
        /\ UNCHANGED <<lease, ledger, accepted, who, reply, normal, interrupt, queries, pty, running,
                       gone, ender, valid, request, stop>>
    BY <1>15 DEF Suffix, writerOnly, inputVars, queueVars, sessionVars
  <2>2. w.job # 0
    BY <1>0, <2>1 DEF Held, Hand
  <2>3. w' = [w EXCEPT !.pc = "enter", !.result = w.result]
    BY <1>1, <2>1
  <2>4. w'.pc = "enter" /\ w'.next = w.next /\ w'.open = w.open /\ w'.result = w.result /\ w'.job = w.job
    BY <1>1, <2>3
  <2>5. Progress'
    BY <1>0, <1>10, <2>1, <2>4 DEF Progress, Started, Ending
  <2>6. w.result = "ok" => SoFar' = SoFar
    <3>1. w.result = "ok" => ~JobOf(w.job).bracketed /\ w.next = JobOf(w.job).chunks + 1
      BY <1>0, <1>15, <2>1 DEF Progress, Started, Ending
    <3> QED
      BY <1>9, <1>10, <2>1, <2>2, <2>4, <3>1 DEF SoFar, Delimiters
  <2> QED
    BY <1>1, <1>8, <1>15, <2>1, <2>2, <2>3, <2>5, <2>6 DEF Hand, Started, Cleared, Inside, Ending
<1> QED
  BY <1>4, <1>5, <1>6, <1>7, <1>11, <1>12, <1>13, <1>14, <1>15

-----------------------------------------------------------------------------
\* The head of an increasing queue is the least, and what remains is increasing.
LEMMA QueueTaken ==
  ASSUME NEW q \in Seq(Job), q # << >>, \A i, j \in 1..Len(q) : i < j => q[i] < q[j],
         Len(accepted) \in Nat
  PROVE  /\ 1 \in 1..Len(q) /\ Head(q) = q[1] /\ Head(q) \in Job
         /\ Tail(q) \in Seq(Job) /\ Len(Tail(q)) <= Len(q)
         /\ \A i, j \in 1..Len(Tail(q)) : i < j => Tail(q)[i] < Tail(q)[j]
         /\ \A i \in 1..Len(Tail(q)) : /\ Tail(q)[i] > Head(q) /\ Tail(q)[i] # Head(q)
                                       /\ \E j \in 1..Len(q) : q[j] = Tail(q)[i]
         /\ \A i \in 1..Len(q) : q[i] = Head(q) \/ \E j \in 1..Len(Tail(q)) : Tail(q)[j] = q[i]
<1>1. /\ Len(q) \in Nat /\ Len(q) >= 1 /\ Head(q) = q[1] /\ Head(q) \in Job
      /\ Tail(q) \in Seq(Job) /\ Len(Tail(q)) = Len(q) - 1
      /\ \A i \in 1..Len(Tail(q)) : Tail(q)[i] = q[i + 1] /\ i + 1 \in 1..Len(q)
  BY TailFacts
<1>2. \A i \in 1..Len(q) : q[i] \in Nat
  BY DEF Job
<1>3. \A i, j \in 1..Len(Tail(q)) : i < j => Tail(q)[i] < Tail(q)[j]
  BY <1>1
<1>4. ASSUME NEW i \in 1..Len(Tail(q))
      PROVE  /\ Tail(q)[i] > Head(q) /\ Tail(q)[i] # Head(q)
             /\ \E j \in 1..Len(q) : q[j] = Tail(q)[i]
  <2>1. 1 < i + 1 /\ i + 1 \in 1..Len(q) /\ Tail(q)[i] = q[i + 1] /\ 1 \in 1..Len(q)
    BY <1>1
  <2>2. q[1] < q[i + 1] /\ q[1] \in Nat /\ q[i + 1] \in Nat
    BY <1>2, <2>1
  <2> QED
    BY <1>1, <2>1, <2>2
<1>5. ASSUME NEW i \in 1..Len(q) PROVE q[i] = Head(q) \/ \E j \in 1..Len(Tail(q)) : Tail(q)[j] = q[i]
  <2>1. CASE i = 1
    BY <1>1, <2>1
  <2>2. CASE i # 1
    <3>1. i - 1 \in 1..Len(Tail(q)) /\ (i - 1) + 1 = i
      BY <1>1, <2>2
    <3> QED
      BY <1>1, <3>1
  <2> QED
    BY <2>1, <2>2
<1> QED
  BY <1>1, <1>3, <1>4, <1>5

\* The answer to one job.
LEMMA ReplyFacts ==
  ASSUME WriterTypeOK, NEW n \in Job, NEW r \in Outcome
  PROVE  LET s == [reply EXCEPT ![n] = r]
         IN  /\ s \in Seq(Outcome) /\ Len(s) = Len(reply) /\ s[n] = r
             /\ \A m \in Job : m # n => s[m] = reply[m]
<1>1. reply \in Seq(Outcome) /\ Len(reply) = Len(accepted) /\ DOMAIN reply = Job
  BY DEF WriterTypeOK, Job
<1> QED
  BY <1>1 DEF Job

\* What finish does to the ledger.
LEMMA LedgerFinished ==
  ASSUME LedgerShape, NEW id, NEW status, IS!Finish(id, status)
  PROVE  /\ LedgerShape' /\ UNCHANGED <<lease, accepted>>
         /\ DOMAIN ledger'.outcomes = DOMAIN ledger.outcomes
         /\ \A i \in DOMAIN ledger.outcomes :
              ledger'.outcomes[i] = IF i = id THEN status ELSE ledger.outcomes[i]
<1>1. ledger' = Finished(ledger, id, status) /\ UNCHANGED <<lease, accepted>>
  BY DEF IS!Finish, IS!Finished, Finished
<1>2. CASE id \in DOMAIN ledger.outcomes
  <2>1. ledger' = [ledger EXCEPT !.outcomes[id] = status]
    BY <1>1, <1>2 DEF Finished
  <2>2. /\ ledger' = [highest |-> ledger.highest, ids |-> ledger.ids,
                      outcomes |-> [ledger.outcomes EXCEPT ![id] = status]]
    BY <2>1 DEF LedgerShape
  <2>3. /\ DOMAIN ledger'.outcomes = DOMAIN ledger.outcomes
        /\ \A i \in DOMAIN ledger.outcomes :
              ledger'.outcomes[i] = IF i = id THEN status ELSE ledger.outcomes[i]
        /\ ledger'.outcomes = [i \in DOMAIN ledger'.outcomes |-> ledger'.outcomes[i]]
    BY <2>2 DEF LedgerShape
  <2> QED
    BY <1>1, <2>2, <2>3 DEF LedgerShape
<1>3. CASE id \notin DOMAIN ledger.outcomes
  BY <1>1, <1>3 DEF Finished, LedgerShape
<1> QED
  BY <1>2, <1>3

\* A step of the writer that takes or settles jobs and writes nothing.
LEMMA MoveStep ==
  ASSUME IInv,
         UNCHANGED <<lease, accepted, who, queries, pty, stop, running, gone, ender, valid, request>>,
         reply' \in Seq(Outcome), Len(reply') = Len(reply),
         normal' \in Seq(Job), Len(normal') <= Len(normal),
         interrupt' \in Seq(Job), Len(interrupt') <= Len(interrupt),
         w' \in WriterValue, LedgerShape', Placed', SameJob \/ OtherJob,
         \A n \in Job : \/ reply'[n] = reply[n]
                        \/ Pending(n) /\ reply'[n] \notin {"pending", "rejected"},
         \A n \in Job : reply'[n] = "written" =>
                          \/ reply[n] = "written"
                          \/ Cardinality(Good(n)) = Parts(n) /\ InOrder(n),
         \A n \in Job : (RejectedFor(n)' /\ Once(n)) =>
                          \/ RejectedFor(n)
                          \/ ~Pending(n)' /\ Writes(n) = {}
  PROVE  IInv'
<1>1. WriterTypeOK /\ stop \in BOOLEAN
  BY DEF IInv, WriterTypeOK
<1>2. WriterTypeOK'
  BY <1>1, WriterTypes
<1>3. Issued' /\ History' /\ Shown'
  BY <1>2, HistoryKept
<1> QED
  BY <1>2, <1>3 DEF IInv

\* Jobs are where they were, in the order of acceptance.
LEMMA Order ==
  ASSUME IInv
  PROVE  /\ WriterTypeOK /\ LedgerShape /\ Placed /\ Queued /\ Held /\ Somewhere /\ Progress /\ Ahead
         /\ normal \in Seq(Job) /\ interrupt \in Seq(Job) /\ reply \in Seq(Outcome)
         /\ Len(accepted) \in Nat /\ Len(normal) \in Nat /\ Len(interrupt) \in Nat /\ Len(reply) \in Nat
         /\ \A i, j \in 1..Len(normal) : i < j => normal[i] < normal[j]
         /\ \A i, j \in 1..Len(interrupt) : i < j => interrupt[i] < interrupt[j]
BY DEF IInv, Placed, Queued, WriterTypeOK

\* The head of a queue goes to the writer or is settled; nothing else is lost.
LEMMA NormalShrinks ==
  ASSUME IInv, normal # << >>, normal' = Tail(normal), UNCHANGED <<accepted, interrupt>>,
         \A m \in Job : m # Head(normal) => reply'[m] = reply[m],
         {w'.job, w'.urgent} \subseteq {0, w.job, w.urgent, Head(normal)},
         {w.job, w.urgent} \subseteq {0, w'.job, w'.urgent},
         reply'[Head(normal)] = "pending" => Head(normal) \in {w'.job, w'.urgent}
  PROVE  /\ Queued' /\ Somewhere' /\ Head(normal) \in Job /\ Head(normal) \notin {0, w.job, w.urgent}
         /\ Pending(Head(normal)) /\ ~JobOf(Head(normal)).priority
         /\ normal' \in Seq(Job) /\ Len(normal') <= Len(normal)
         /\ \A i \in 1..Len(normal') : /\ normal'[i] > Head(normal) /\ normal'[i] # Head(normal)
                                       /\ \E j \in 1..Len(normal) : normal[j] = normal'[i]
<1> DEFINE n == Head(normal)
<1>0. /\ WriterTypeOK /\ Queued /\ Somewhere /\ normal \in Seq(Job) /\ interrupt \in Seq(Job)
      /\ Len(accepted) \in Nat /\ \A i, j \in 1..Len(normal) : i < j => normal[i] < normal[j]
  BY Order
<1>1. /\ 1 \in 1..Len(normal) /\ n = normal[1] /\ n \in Job
      /\ normal' \in Seq(Job) /\ Len(normal') <= Len(normal)
      /\ \A i, j \in 1..Len(normal') : i < j => normal'[i] < normal'[j]
      /\ \A i \in 1..Len(normal') : /\ normal'[i] > n /\ normal'[i] # n
                                    /\ \E j \in 1..Len(normal) : normal[j] = normal'[i]
      /\ \A i \in 1..Len(normal) : normal[i] = n \/ \E j \in 1..Len(normal') : normal'[j] = normal[i]
  BY <1>0, QueueTaken
<1>2. Pending(n) /\ ~JobOf(n).priority /\ n \notin {0, w.job, w.urgent}
  BY <1>0, <1>1 DEF Queued, Job
<1> HIDE DEF n
<1>3. Job' = Job /\ \A m : JobOf(m)' = JobOf(m)
  BY DEF Job, JobOf
<1>4. /\ \A m \in Job : m # n => reply'[m] = reply[m]
      /\ {w'.job, w'.urgent} \subseteq {0, w.job, w.urgent, n}
      /\ reply'[n] = "pending" => n \in {w'.job, w'.urgent}
  BY DEF n
<1>5. Queued'
  <2>1. ASSUME NEW i \in 1..Len(normal')
        PROVE  /\ reply'[normal'[i]] = "pending" /\ ~JobOf(normal'[i]).priority
               /\ normal'[i] \notin {w'.job, w'.urgent}
    <3>1. PICK j \in 1..Len(normal) : normal[j] = normal'[i]
      BY <1>1
    <3>2. /\ Pending(normal[j]) /\ ~JobOf(normal[j]).priority /\ normal[j] \in Job
          /\ normal[j] \notin {w.job, w.urgent}
      BY <1>0 DEF Queued
    <3>3. normal[j] # n
      BY <1>1, <3>1
    <3>4. normal[j] # 0
      BY <3>2 DEF Job
    <3> QED
      BY <1>4, <3>1, <3>2, <3>3, <3>4 DEF Pending
  <2>2. ASSUME NEW i \in 1..Len(interrupt)
        PROVE  /\ reply'[interrupt[i]] = "pending" /\ JobOf(interrupt[i]).priority
               /\ interrupt[i] \notin {w'.job, w'.urgent}
    <3>1. /\ Pending(interrupt[i]) /\ JobOf(interrupt[i]).priority /\ interrupt[i] \in Job
          /\ interrupt[i] \notin {w.job, w.urgent}
      BY <1>0 DEF Queued
    <3>2. interrupt[i] # n /\ interrupt[i] # 0
      BY <1>2, <3>1 DEF Job
    <3> QED
      BY <1>4, <3>1, <3>2 DEF Pending
  <2>3. \A i, j \in 1..Len(interrupt) : i < j => interrupt[i] < interrupt[j]
    BY <1>0 DEF Queued
  <2>4. \A i \in 1..Len(normal') : Pending(normal[i])' /\ ~JobOf(normal[i])'.priority
    BY <1>3, <2>1 DEF Pending
  <2>5. \A i \in 1..Len(interrupt') : Pending(interrupt[i])' /\ JobOf(interrupt[i])'.priority
    BY <1>3, <2>2 DEF Pending
  <2> QED
    BY <1>1, <2>1, <2>2, <2>3, <2>4, <2>5 DEF Queued
<1>6. Somewhere'
  <2> SUFFICES ASSUME NEW m \in Job, reply'[m] = "pending"
               PROVE  \/ \E i \in 1..Len(normal') : normal'[i] = m
                      \/ \E i \in 1..Len(interrupt') : interrupt'[i] = m
                      \/ m \in {w'.job, w'.urgent}
    BY <1>3 DEF Somewhere, Pending
  <2>1. CASE m = n
    BY <1>4, <2>1
  <2>2. CASE m # n
    <3>1. \/ \E i \in 1..Len(normal) : normal[i] = m
          \/ \E i \in 1..Len(interrupt) : interrupt[i] = m
          \/ m \in {w.job, w.urgent}
      BY <1>0, <1>4, <2>2 DEF Somewhere, Pending
    <3>2. m # 0
      BY DEF Job
    <3>3. CASE \E i \in 1..Len(normal) : normal[i] = m
      <4>1. PICK i \in 1..Len(normal) : normal[i] = m
        BY <3>3
      <4>2. \E j \in 1..Len(normal') : normal'[j] = normal[i]
        BY <1>1, <2>2, <4>1
      <4> QED
        BY <4>1, <4>2
    <3>4. CASE \E i \in 1..Len(interrupt) : interrupt[i] = m
      BY <3>4
    <3>5. CASE m \in {w.job, w.urgent}
      BY <3>2, <3>5
    <3> QED
      BY <3>1, <3>3, <3>4, <3>5
  <2> QED
    BY <2>1, <2>2
<1> QED
  BY <1>1, <1>2, <1>5, <1>6 DEF n

\* The same for an interrupt.
LEMMA InterruptShrinks ==
  ASSUME IInv, interrupt # << >>, interrupt' = Tail(interrupt), UNCHANGED <<accepted, normal>>,
         \A m \in Job : m # Head(interrupt) => reply'[m] = reply[m],
         {w'.job, w'.urgent} \subseteq {0, w.job, w.urgent, Head(interrupt)},
         {w.job, w.urgent} \subseteq {0, w'.job, w'.urgent},
         reply'[Head(interrupt)] = "pending" => Head(interrupt) \in {w'.job, w'.urgent}
  PROVE  /\ Queued' /\ Somewhere' /\ Head(interrupt) \in Job /\ Head(interrupt) \notin {0, w.job, w.urgent}
         /\ Pending(Head(interrupt)) /\ JobOf(Head(interrupt)).priority
         /\ interrupt' \in Seq(Job) /\ Len(interrupt') <= Len(interrupt)
         /\ \A i \in 1..Len(interrupt') : /\ interrupt'[i] > Head(interrupt) /\ interrupt'[i] # Head(interrupt)
                                       /\ \E j \in 1..Len(interrupt) : interrupt[j] = interrupt'[i]
<1> DEFINE n == Head(interrupt)
<1>0. /\ WriterTypeOK /\ Queued /\ Somewhere /\ interrupt \in Seq(Job) /\ normal \in Seq(Job)
      /\ Len(accepted) \in Nat /\ \A i, j \in 1..Len(interrupt) : i < j => interrupt[i] < interrupt[j]
  BY Order
<1>1. /\ 1 \in 1..Len(interrupt) /\ n = interrupt[1] /\ n \in Job
      /\ interrupt' \in Seq(Job) /\ Len(interrupt') <= Len(interrupt)
      /\ \A i, j \in 1..Len(interrupt') : i < j => interrupt'[i] < interrupt'[j]
      /\ \A i \in 1..Len(interrupt') : /\ interrupt'[i] > n /\ interrupt'[i] # n
                                    /\ \E j \in 1..Len(interrupt) : interrupt[j] = interrupt'[i]
      /\ \A i \in 1..Len(interrupt) : interrupt[i] = n \/ \E j \in 1..Len(interrupt') : interrupt'[j] = interrupt[i]
  BY <1>0, QueueTaken
<1>2. Pending(n) /\ JobOf(n).priority /\ n \notin {0, w.job, w.urgent}
  BY <1>0, <1>1 DEF Queued, Job
<1> HIDE DEF n
<1>3. Job' = Job /\ \A m : JobOf(m)' = JobOf(m)
  BY DEF Job, JobOf
<1>4. /\ \A m \in Job : m # n => reply'[m] = reply[m]
      /\ {w'.job, w'.urgent} \subseteq {0, w.job, w.urgent, n}
      /\ reply'[n] = "pending" => n \in {w'.job, w'.urgent}
  BY DEF n
<1>5. Queued'
  <2>1. ASSUME NEW i \in 1..Len(interrupt')
        PROVE  /\ reply'[interrupt'[i]] = "pending" /\ JobOf(interrupt'[i]).priority
               /\ interrupt'[i] \notin {w'.job, w'.urgent}
    <3>1. PICK j \in 1..Len(interrupt) : interrupt[j] = interrupt'[i]
      BY <1>1
    <3>2. /\ Pending(interrupt[j]) /\ JobOf(interrupt[j]).priority /\ interrupt[j] \in Job
          /\ interrupt[j] \notin {w.job, w.urgent}
      BY <1>0 DEF Queued
    <3>3. interrupt[j] # n
      BY <1>1, <3>1
    <3>4. interrupt[j] # 0
      BY <3>2 DEF Job
    <3> QED
      BY <1>4, <3>1, <3>2, <3>3, <3>4 DEF Pending
  <2>2. ASSUME NEW i \in 1..Len(normal)
        PROVE  /\ reply'[normal[i]] = "pending" /\ ~JobOf(normal[i]).priority
               /\ normal[i] \notin {w'.job, w'.urgent}
    <3>1. /\ Pending(normal[i]) /\ ~JobOf(normal[i]).priority /\ normal[i] \in Job
          /\ normal[i] \notin {w.job, w.urgent}
      BY <1>0 DEF Queued
    <3>2. normal[i] # n /\ normal[i] # 0
      BY <1>2, <3>1 DEF Job
    <3> QED
      BY <1>4, <3>1, <3>2 DEF Pending
  <2>3. \A i, j \in 1..Len(normal) : i < j => normal[i] < normal[j]
    BY <1>0 DEF Queued
  <2>4. \A i \in 1..Len(interrupt') : Pending(interrupt[i])' /\ JobOf(interrupt[i])'.priority
    BY <1>3, <2>1 DEF Pending
  <2>5. \A i \in 1..Len(normal') : Pending(normal[i])' /\ ~JobOf(normal[i])'.priority
    BY <1>3, <2>2 DEF Pending
  <2> QED
    BY <1>1, <2>1, <2>2, <2>3, <2>4, <2>5 DEF Queued
<1>6. Somewhere'
  <2> SUFFICES ASSUME NEW m \in Job, reply'[m] = "pending"
               PROVE  \/ \E i \in 1..Len(interrupt') : interrupt'[i] = m
                      \/ \E i \in 1..Len(normal') : normal'[i] = m
                      \/ m \in {w'.job, w'.urgent}
    BY <1>3 DEF Somewhere, Pending
  <2>1. CASE m = n
    BY <1>4, <2>1
  <2>2. CASE m # n
    <3>1. \/ \E i \in 1..Len(interrupt) : interrupt[i] = m
          \/ \E i \in 1..Len(normal) : normal[i] = m
          \/ m \in {w.job, w.urgent}
      BY <1>0, <1>4, <2>2 DEF Somewhere, Pending
    <3>2. m # 0
      BY DEF Job
    <3>3. CASE \E i \in 1..Len(interrupt) : interrupt[i] = m
      <4>1. PICK i \in 1..Len(interrupt) : interrupt[i] = m
        BY <3>3
      <4>2. \E j \in 1..Len(interrupt') : interrupt'[j] = interrupt[i]
        BY <1>1, <2>2, <4>1
      <4> QED
        BY <4>1, <4>2
    <3>4. CASE \E i \in 1..Len(normal) : normal[i] = m
      BY <3>4
    <3>5. CASE m \in {w.job, w.urgent}
      BY <3>2, <3>5
    <3> QED
      BY <3>1, <3>3, <3>4, <3>5
  <2> QED
    BY <2>1, <2>2
<1> QED
  BY <1>1, <1>2, <1>5, <1>6 DEF n

\* The writer takes the next job of the normal queue.
LEMMA TakeNormalStep ==
  ASSUME IInv, TakeNormal
  PROVE  IInv'
<1> DEFINE n == Head(normal)
<1>0. /\ WriterTypeOK /\ LedgerShape /\ Placed /\ Queued /\ Held /\ Somewhere /\ Progress /\ Ahead
      /\ normal \in Seq(Job) /\ interrupt \in Seq(Job) /\ reply \in Seq(Outcome)
      /\ Len(accepted) \in Nat /\ Len(normal) \in Nat /\ Len(interrupt) \in Nat /\ Len(reply) \in Nat
      /\ \A i, j \in 1..Len(normal) : i < j => normal[i] < normal[j]
  BY Order
<1>1. /\ w.pc = "low" /\ normal # << >> /\ w' = [w EXCEPT !.pc = "begin", !.job = n]
      /\ normal' = Tail(normal)
      /\ UNCHANGED <<lease, ledger, accepted, who, reply, interrupt, queries, pty, stop, running, gone,
                     ender, valid, request>>
  BY DEF TakeNormal, inputVars, sessionVars
<1>2. /\ w.job = 0 /\ w.urgent = 0 /\ w.next = 1 /\ ~w.open /\ w.result = "ok"
  BY <1>0, <1>1 DEF Held, Hand, Progress, Started
<1>3. /\ 1 \in 1..Len(normal) /\ n = normal[1] /\ n \in Job
      /\ normal' \in Seq(Job) /\ Len(normal') <= Len(normal)
      /\ \A i, j \in 1..Len(normal') : i < j => normal'[i] < normal'[j]
      /\ \A i \in 1..Len(normal') : /\ normal'[i] > n /\ normal'[i] # n
                                    /\ \E j \in 1..Len(normal) : normal[j] = normal'[i]
      /\ \A i \in 1..Len(normal) : normal[i] = n \/ \E j \in 1..Len(normal') : normal'[j] = normal[i]
  BY <1>0, <1>1, QueueTaken
<1>4. Pending(n) /\ ~JobOf(n).priority /\ n \in Nat /\ n # 0
  BY <1>0, <1>3 DEF Queued, Job
<1> HIDE DEF n
<1>5. /\ w'.pc = "begin" /\ w'.job = n /\ w'.urgent = 0 /\ w'.next = 1 /\ ~w'.open /\ w'.result = "ok"
      /\ w' \in WriterValue
  <2>1. /\ w.pc \in Pc /\ w.open \in BOOLEAN /\ w.next \in 1..MaxPaste + 1
        /\ w = [pc |-> w.pc, job |-> w.job, next |-> w.next, open |-> w.open,
                urgent |-> w.urgent, result |-> w.result]
    BY <1>0, WriterFacts
  <2>2. n \in 0..Len(accepted) /\ 0 \in 0..Len(accepted)
    BY <1>0, <1>3 DEF Job
  <2> QED
    BY <1>1, <1>2, <2>1, <2>2 DEF WriterValue, Pc
<1>6. Job' = Job /\ \A m : JobOf(m)' = JobOf(m) /\ Pending(m)' = Pending(m)
  BY <1>1 DEF Job, JobOf, Pending
<1>7. Placed'
  <2>2. Queued' /\ Somewhere'
    BY <1>1, <1>2, <1>5, NormalShrinks DEF n
  <2>3. Held' /\ Progress'
    BY <1>4, <1>5, <1>6 DEF Held, Progress, Hand, Started, Ending
  <2>5. Ahead'
    BY <1>3, <1>4, <1>5, <1>6 DEF Ahead
  <2> QED
    BY <2>2, <2>3, <2>5 DEF Placed
<1>8. OtherJob
  BY <1>1, <1>2, <1>4, <1>5 DEF OtherJob, Inside, Pending
<1>9. LedgerShape' /\ \A m : RejectedFor(m)' = RejectedFor(m)
  BY <1>0, <1>1 DEF LedgerShape, RejectedFor
<1> QED
  BY <1>0, <1>1, <1>3, <1>5, <1>7, <1>8, <1>9, MoveStep

\* The writer takes an interrupt.
LEMMA PollInterruptStep ==
  ASSUME IInv, PollInterrupt, interrupt # << >>
  PROVE  IInv'
<1> DEFINE n == Head(interrupt)
<1>0. /\ WriterTypeOK /\ LedgerShape /\ Placed /\ Queued /\ Held /\ Somewhere /\ Progress /\ Ahead
      /\ normal \in Seq(Job) /\ interrupt \in Seq(Job) /\ reply \in Seq(Outcome)
      /\ Len(accepted) \in Nat /\ Len(normal) \in Nat /\ Len(interrupt) \in Nat /\ Len(reply) \in Nat
      /\ \A i, j \in 1..Len(interrupt) : i < j => interrupt[i] < interrupt[j]
  BY Order
<1>1. /\ w.pc = "urgent" /\ interrupt # << >> /\ w' = [w EXCEPT !.pc = "cancel", !.job = n]
      /\ interrupt' = Tail(interrupt)
      /\ UNCHANGED <<lease, ledger, accepted, who, reply, normal, queries, pty, stop, running, gone,
                     ender, valid, request>>
  BY DEF PollInterrupt, inputVars, sessionVars
<1>2. /\ w.job = 0 /\ w.urgent = 0 /\ w.next = 1 /\ ~w.open /\ w.result = "ok"
  BY <1>0, <1>1 DEF Held, Hand, Progress, Started
<1>3. /\ 1 \in 1..Len(interrupt) /\ n = interrupt[1] /\ n \in Job
      /\ interrupt' \in Seq(Job) /\ Len(interrupt') <= Len(interrupt)
      /\ \A i, j \in 1..Len(interrupt') : i < j => interrupt'[i] < interrupt'[j]
      /\ \A i \in 1..Len(interrupt') : /\ interrupt'[i] > n /\ interrupt'[i] # n
                                       /\ \E j \in 1..Len(interrupt) : interrupt[j] = interrupt'[i]
      /\ \A i \in 1..Len(interrupt) :
           interrupt[i] = n \/ \E j \in 1..Len(interrupt') : interrupt'[j] = interrupt[i]
  BY <1>0, <1>1, QueueTaken
<1>4. Pending(n) /\ JobOf(n).priority /\ n \in Nat /\ n # 0
  BY <1>0, <1>3 DEF Queued, Job
<1> HIDE DEF n
<1>5. /\ w'.pc = "cancel" /\ w'.job = n /\ w'.urgent = 0 /\ w'.next = 1 /\ ~w'.open /\ w'.result = "ok"
      /\ w' \in WriterValue
  <2>1. /\ w.pc \in Pc /\ w.open \in BOOLEAN /\ w.next \in 1..MaxPaste + 1
        /\ w = [pc |-> w.pc, job |-> w.job, next |-> w.next, open |-> w.open,
                urgent |-> w.urgent, result |-> w.result]
    BY <1>0, WriterFacts
  <2>2. n \in 0..Len(accepted) /\ 0 \in 0..Len(accepted)
    BY <1>0, <1>3 DEF Job
  <2> QED
    BY <1>1, <1>2, <2>1, <2>2 DEF WriterValue, Pc
<1>6. Job' = Job /\ \A m : JobOf(m)' = JobOf(m) /\ Pending(m)' = Pending(m)
  BY <1>1 DEF Job, JobOf, Pending
<1>7. Placed'
  <2>2. Queued' /\ Somewhere'
    BY <1>1, <1>2, <1>5, InterruptShrinks DEF n
  <2>3. Held' /\ Progress'
    BY <1>4, <1>5, <1>6 DEF Held, Progress, Hand, Started, Ending
  <2>5. Ahead'
    BY <1>3, <1>4, <1>5, <1>6 DEF Ahead
  <2> QED
    BY <2>2, <2>3, <2>5 DEF Placed
<1>8. OtherJob
  BY <1>1, <1>2, <1>4, <1>5 DEF OtherJob, Inside, Pending
<1>9. LedgerShape' /\ \A m : RejectedFor(m)' = RejectedFor(m)
  BY <1>0, <1>1 DEF LedgerShape, RejectedFor
<1> QED
  BY <1>0, <1>1, <1>3, <1>5, <1>7, <1>8, <1>9, MoveStep

\* A paste yields to an interrupt.
LEMMA YieldStep ==
  ASSUME IInv, NextChunk, w.next <= JobOf(w.job).chunks, JobOf(w.job).bulk, interrupt # << >>
  PROVE  IInv'
<1> DEFINE n == Head(interrupt)
<1>0. /\ WriterTypeOK /\ LedgerShape /\ Placed /\ Queued /\ Held /\ Somewhere /\ Progress /\ Ahead
      /\ normal \in Seq(Job) /\ interrupt \in Seq(Job) /\ reply \in Seq(Outcome)
      /\ Len(accepted) \in Nat /\ Len(normal) \in Nat /\ Len(interrupt) \in Nat /\ Len(reply) \in Nat
      /\ \A i, j \in 1..Len(interrupt) : i < j => interrupt[i] < interrupt[j]
  BY Order
<1>00. /\ w.pc \in Pc /\ w.open \in BOOLEAN /\ w.next \in 1..MaxPaste + 1
       /\ w.job \in 0..Len(accepted) /\ (w.job # 0 => w.job \in Job)
       /\ w = [pc |-> w.pc, job |-> w.job, next |-> w.next, open |-> w.open,
               urgent |-> w.urgent, result |-> w.result]
  BY <1>0, WriterFacts
<1>1. w.pc = "chunk"
  BY DEF NextChunk
<1>2. w.job \in Job /\ w.urgent \in {0, w.job} /\ w.job # 0
  BY <1>0, <1>00, <1>1 DEF Held, Hand, Ending
<1>3. JobOf(w.job).chunks \in Nat /\ w.next \in Nat
  BY <1>0, <1>00, <1>2, JobShape, Bounds DEF IInv
<1>4. /\ w' = [w EXCEPT !.pc = "suffix", !.result = "canceled", !.urgent = n]
      /\ interrupt' = Tail(interrupt)
      /\ UNCHANGED <<lease, ledger, accepted, who, reply, normal, queries, pty, stop, running, gone,
                     ender, valid, request>>
  <2>1. ~(w.next > JobOf(w.job).chunks)
    BY <1>3
  <2> QED
    BY <1>00, <2>1 DEF NextChunk, Fail, inputVars, sessionVars
<1>5. /\ 1 \in 1..Len(interrupt) /\ n = interrupt[1] /\ n \in Job
      /\ interrupt' \in Seq(Job) /\ Len(interrupt') <= Len(interrupt)
      /\ \A i, j \in 1..Len(interrupt') : i < j => interrupt'[i] < interrupt'[j]
      /\ \A i \in 1..Len(interrupt') : /\ interrupt'[i] > n /\ interrupt'[i] # n
                                       /\ \E j \in 1..Len(interrupt) : interrupt[j] = interrupt'[i]
      /\ \A i \in 1..Len(interrupt) :
           interrupt[i] = n \/ \E j \in 1..Len(interrupt') : interrupt'[j] = interrupt[i]
  BY <1>0, <1>4, QueueTaken
<1>6. Pending(n) /\ JobOf(n).priority /\ n \in Nat /\ n # 0 /\ n # w.job
  BY <1>0, <1>5 DEF Queued, Job
<1>7. JobOf(w.job).priority => n > w.job
  BY <1>0, <1>2, <1>5 DEF Ahead
<1> HIDE DEF n
<1>8. /\ w'.pc = "suffix" /\ w'.job = w.job /\ w'.urgent = n /\ w'.open = w.open
      /\ w'.result = "canceled" /\ w' \in WriterValue
  <2>2. n \in 0..Len(accepted)
    BY <1>0, <1>5 DEF Job
  <2> QED
    BY <1>00, <1>4, <2>2 DEF WriterValue, Pc
<1>9. Job' = Job /\ \A m : JobOf(m)' = JobOf(m) /\ Pending(m)' = Pending(m)
  BY <1>4 DEF Job, JobOf, Pending
<1>10. Placed'
  <2>2. Queued' /\ Somewhere'
    BY <1>2, <1>4, <1>8, InterruptShrinks DEF n
  <2>3. Held' /\ Progress'
    BY <1>0, <1>2, <1>6, <1>8, <1>9 DEF Held, Progress, Hand, Started, Ending
  <2>5. Ahead'
    <3>1. \A i \in 1..Len(interrupt') : JobOf(w.job).priority => interrupt'[i] > w.job
      BY <1>0, <1>2, <1>5 DEF Ahead
    <3>2. \A i \in 1..Len(normal) : normal[i] > w.job
      BY <1>0, <1>1 DEF Ahead, Hand
    <3>3. w.job \in Nat /\ (JobOf(w.job).priority => n >= w.job)
      BY <1>0, <1>2, <1>6, <1>7 DEF Job
    <3> QED
      BY <1>4, <1>5, <1>8, <1>9, <3>1, <3>2, <3>3 DEF Ahead
  <2> QED
    BY <2>2, <2>3, <2>5 DEF Placed
<1>11. SameJob
  BY <1>1, <1>2, <1>8 DEF SameJob, Inside, Started, Cleared
<1>12. LedgerShape' /\ \A m : RejectedFor(m)' = RejectedFor(m)
  BY <1>0, <1>4 DEF LedgerShape, RejectedFor
<1> QED
  BY <1>0, <1>4, <1>5, <1>8, <1>10, <1>11, <1>12, MoveStep

-----------------------------------------------------------------------------
\* A queued job is settled, and the writer's hands are as they were.
LEMMA HandsKept ==
  ASSUME IInv, w' = w, UNCHANGED accepted, NEW n \in Job, n \notin {w.job, w.urgent},
         \A m \in Job : m # n => reply'[m] = reply[m],
         \A i \in 1..Len(normal') : \E j \in 1..Len(normal) : normal[j] = normal'[i],
         \A i \in 1..Len(interrupt') : \E j \in 1..Len(interrupt) : interrupt[j] = interrupt'[i]
  PROVE  Held' /\ Progress' /\ Ahead'
<1>0. /\ Held /\ Progress /\ Ahead /\ (w.job # 0 => w.job \in Job) /\ (w.urgent # 0 => w.urgent \in Job)
  BY Order, WriterFacts
<1>1. \A m : JobOf(m)' = JobOf(m)
  BY DEF JobOf
<1>2. Held'
  BY <1>0, <1>1 DEF Held, Pending
<1>3. Progress'
  BY <1>0, <1>1 DEF Progress
<1>4. Ahead'
  <2>1. ASSUME w.pc \in Hand \ {"cancel"}, NEW i \in 1..Len(normal') PROVE normal'[i] > w.job
    BY <1>0, <2>1 DEF Ahead
  <2>2. ASSUME w.job # 0, JobOf(w.job).priority, NEW i \in 1..Len(interrupt') PROVE interrupt'[i] > w.job
    BY <1>0, <2>2 DEF Ahead
  <2>3. ASSUME w.urgent # 0, NEW i \in 1..Len(interrupt') PROVE interrupt'[i] > w.urgent
    BY <1>0, <2>3 DEF Ahead
  <2>4. (w.job # 0 /\ JobOf(w.job).priority) => (w.urgent # 0 => w.urgent >= w.job)
    BY <1>0 DEF Ahead
  <2> QED
    BY <1>1, <2>1, <2>2, <2>3, <2>4 DEF Ahead
<1> QED
  BY <1>2, <1>3, <1>4

\* A job that waits and is not in hand has nothing in the terminal.
LEMMA WaitingUnwritten ==
  ASSUME IInv, NEW n \in Job, Pending(n), n # w.job
  PROVE  Writes(n) = {}
<1>1. Unwritten /\ n # 0
  BY DEF IInv, History, Job
<1> QED
  BY <1>1 DEF Unwritten, Pending, Writes

\* The writer as it is.
LEMMA SameWriter ==
  ASSUME IInv, w' = w, UNCHANGED accepted
  PROVE  w' \in WriterValue /\ (w.job # 0 => SameJob)
<1>1. w \in WriterValue
  BY DEF IInv, WriterTypeOK, WriterValue
<1>2. SoFar' = SoFar
  BY DEF SoFar, Delimiters, Parts, JobOf
<1> QED
  BY <1>1, <1>2 DEF SameJob

\* An interrupt cancels the next queued job.
LEMMA CancelQueuedStep ==
  ASSUME IInv, CancelQueued, normal # << >>
  PROVE  IInv'
<1> DEFINE n == Head(normal)
<1>0. /\ WriterTypeOK /\ LedgerShape /\ Queued /\ Held /\ normal \in Seq(Job) /\ interrupt \in Seq(Job)
      /\ Len(accepted) \in Nat /\ Len(interrupt) \in Nat
  BY Order
<1>1. /\ w.pc = "cancel" /\ w' = w /\ normal' = Tail(normal) /\ reply' = [reply EXCEPT ![n] = "canceled"]
      /\ IF gone THEN UNCHANGED inputVars ELSE IS!Finish(accepted[n].id, "rejected")
      /\ UNCHANGED <<who, interrupt, queries, pty, stop, running, gone, ender, valid, request>>
  BY DEF CancelQueued, sessionVars
<1>2. n \in Job
  BY <1>0, TailFacts
<1>3. /\ LedgerShape' /\ UNCHANGED <<lease, accepted>>
      /\ \A m \in Job : RejectedFor(m)' => RejectedFor(m) \/ accepted[m].id = accepted[n].id
  <2>1. CASE gone
    BY <1>0, <1>1, <2>1 DEF inputVars, LedgerShape, RejectedFor
  <2>2. CASE ~gone
    <3>1. IS!Finish(accepted[n].id, "rejected")
      BY <1>1, <2>2
    <3>2. /\ LedgerShape' /\ UNCHANGED <<lease, accepted>>
          /\ DOMAIN ledger'.outcomes = DOMAIN ledger.outcomes
          /\ \A i \in DOMAIN ledger.outcomes :
               ledger'.outcomes[i] = IF i = accepted[n].id THEN "rejected" ELSE ledger.outcomes[i]
      BY <1>0, <3>1, LedgerFinished
    <3> QED
      BY <3>2 DEF RejectedFor
  <2> QED
    BY <2>1, <2>2
<1>4. /\ reply' \in Seq(Outcome) /\ Len(reply') = Len(reply) /\ reply'[n] = "canceled"
      /\ \A m \in Job : m # n => reply'[m] = reply[m]
  BY <1>0, <1>1, <1>2, ReplyFacts DEF Outcome
<1>5. /\ Queued' /\ Somewhere' /\ n \notin {0, w.job, w.urgent} /\ Pending(n)
      /\ normal' \in Seq(Job) /\ Len(normal') <= Len(normal)
      /\ \A i \in 1..Len(normal') : \E j \in 1..Len(normal) : normal[j] = normal'[i]
  BY <1>1, <1>3, <1>4, NormalShrinks
<1> HIDE DEF n
<1>6. Held' /\ Progress' /\ Ahead'
  BY <1>1, <1>2, <1>3, <1>4, <1>5, HandsKept
<1>7. Placed'
  BY <1>5, <1>6 DEF Placed
<1>8. SameJob /\ w' \in WriterValue
  <2>1. w.job # 0
    BY <1>0, <1>1 DEF Held, Hand
  <2> QED
    BY <1>1, <1>3, <2>1, SameWriter
<1>9. ASSUME NEW m \in Job, RejectedFor(m)', Once(m)
      PROVE  RejectedFor(m) \/ (~Pending(m)' /\ Writes(m) = {})
  <2>1. CASE accepted[m].id = accepted[n].id
    <3>1. m = n
      BY <1>2, <1>9, <2>1 DEF Once
    <3> QED
      BY <1>2, <1>4, <1>5, <3>1, WaitingUnwritten DEF Pending
  <2> QED
    BY <1>3, <1>9, <2>1
<1>10. \A m \in Job : \/ reply'[m] = reply[m]
                      \/ Pending(m) /\ reply'[m] \notin {"pending", "rejected"}
  BY <1>4, <1>5
<1>11. \A m \in Job : reply'[m] = "written" => reply[m] = "written"
  BY <1>4
<1> QED
  BY <1>0, <1>1, <1>3, <1>4, <1>5, <1>7, <1>8, <1>9, <1>10, <1>11, MoveStep

\* The end of the writer answers what is queued.
LEMMA DrainStep ==
  ASSUME IInv,
         \/ DrainNormal /\ normal # << >>
         \/ DrainInterrupt /\ interrupt # << >>
  PROVE  IInv'
<1>0. /\ WriterTypeOK /\ LedgerShape /\ Queued /\ Held /\ normal \in Seq(Job) /\ interrupt \in Seq(Job)
      /\ Len(accepted) \in Nat /\ Len(interrupt) \in Nat /\ Len(normal) \in Nat
  BY Order
<1>1. ASSUME NEW n \in Job, w.pc \in {"drainNormal", "drainInterrupt"}, Pending(n),
             n \notin {0, w.job, w.urgent},
             reply' = [reply EXCEPT ![n] = "unknown"], w' = w, Queued', Somewhere',
             UNCHANGED <<lease, ledger, accepted, who, queries, pty, stop, running, gone, ender, valid,
                         request>>,
             normal' \in Seq(Job), Len(normal') <= Len(normal),
             interrupt' \in Seq(Job), Len(interrupt') <= Len(interrupt),
             \A i \in 1..Len(normal') : \E j \in 1..Len(normal) : normal[j] = normal'[i],
             \A i \in 1..Len(interrupt') : \E j \in 1..Len(interrupt) : interrupt[j] = interrupt'[i]
      PROVE  IInv'
  <2>1. /\ reply' \in Seq(Outcome) /\ Len(reply') = Len(reply) /\ reply'[n] = "unknown"
        /\ \A m \in Job : m # n => reply'[m] = reply[m]
    BY <1>0, <1>1, ReplyFacts DEF Outcome
  <2>2. Held' /\ Progress' /\ Ahead'
    BY <1>1, <2>1, HandsKept
  <2>3. Placed'
    BY <1>1, <2>2 DEF Placed
  <2>4. OtherJob /\ w' \in WriterValue
    <3>1. w.job = 0
      BY <1>0, <1>1 DEF Held, Hand
    <3> QED
      BY <1>1, <3>1, SameWriter DEF OtherJob, Inside
  <2>5. LedgerShape' /\ \A m : RejectedFor(m)' = RejectedFor(m)
    BY <1>0, <1>1 DEF LedgerShape, RejectedFor
  <2>6. \A m \in Job : \/ reply'[m] = reply[m]
                       \/ Pending(m) /\ reply'[m] \notin {"pending", "rejected"}
    BY <1>1, <2>1
  <2>7. \A m \in Job : reply'[m] = "written" => reply[m] = "written"
    BY <2>1
  <2> QED
    BY <1>1, <2>1, <2>3, <2>4, <2>5, <2>6, <2>7, MoveStep
<1>2. CASE DrainNormal /\ normal # << >>
  <2>1. /\ w.pc = "drainNormal" /\ w' = w /\ normal' = Tail(normal)
        /\ reply' = [reply EXCEPT ![Head(normal)] = "unknown"]
        /\ UNCHANGED <<lease, ledger, accepted, who, interrupt, queries, pty, stop, running, gone,
                       ender, valid, request>>
    BY <1>2 DEF DrainNormal, inputVars, sessionVars
  <2>2. Head(normal) \in Job
    BY <1>0, <1>2, TailFacts
  <2>3. /\ reply'[Head(normal)] = "unknown"
        /\ \A m \in Job : m # Head(normal) => reply'[m] = reply[m]
    BY <1>0, <2>1, <2>2, ReplyFacts DEF Outcome
  <2>4. /\ Queued' /\ Somewhere' /\ Head(normal) \notin {0, w.job, w.urgent} /\ Pending(Head(normal))
        /\ normal' \in Seq(Job) /\ Len(normal') <= Len(normal)
        /\ \A i \in 1..Len(normal') : \E j \in 1..Len(normal) : normal[j] = normal'[i]
    BY <1>2, <2>1, <2>3, NormalShrinks
  <2>5. /\ interrupt' \in Seq(Job) /\ Len(interrupt') <= Len(interrupt)
        /\ \A i \in 1..Len(interrupt') : \E j \in 1..Len(interrupt) : interrupt[j] = interrupt'[i]
    BY <1>0, <2>1
  <2> QED
    BY <1>1, <2>1, <2>2, <2>4, <2>5
<1>3. CASE DrainInterrupt /\ interrupt # << >>
  <2>1. /\ w.pc = "drainInterrupt" /\ w' = w /\ interrupt' = Tail(interrupt)
        /\ reply' = [reply EXCEPT ![Head(interrupt)] = "unknown"]
        /\ UNCHANGED <<lease, ledger, accepted, who, normal, queries, pty, stop, running, gone,
                       ender, valid, request>>
    BY <1>3 DEF DrainInterrupt, inputVars, sessionVars
  <2>2. Head(interrupt) \in Job
    BY <1>0, <1>3, TailFacts
  <2>3. /\ reply'[Head(interrupt)] = "unknown"
        /\ \A m \in Job : m # Head(interrupt) => reply'[m] = reply[m]
    BY <1>0, <2>1, <2>2, ReplyFacts DEF Outcome
  <2>4. /\ Queued' /\ Somewhere' /\ Head(interrupt) \notin {0, w.job, w.urgent}
        /\ Pending(Head(interrupt))
        /\ interrupt' \in Seq(Job) /\ Len(interrupt') <= Len(interrupt)
        /\ \A i \in 1..Len(interrupt') : \E j \in 1..Len(interrupt) : interrupt[j] = interrupt'[i]
    BY <1>3, <2>1, <2>3, InterruptShrinks
  <2>5. /\ normal' \in Seq(Job) /\ Len(normal') <= Len(normal)
        /\ \A i \in 1..Len(normal') : \E j \in 1..Len(normal) : normal[j] = normal'[i]
    BY <1>0, <2>1
  <2> QED
    BY <1>1, <2>1, <2>2, <2>4, <2>5
<1> QED
  BY <1>2, <1>3

\* The writer returns, and the answers of what is still queued are dropped.
LEMMA ExitStep ==
  ASSUME IInv, DrainInterrupt, interrupt = << >>
  PROVE  IInv'
<1>0. /\ WriterTypeOK /\ LedgerShape /\ Queued /\ Held /\ Somewhere /\ Progress
      /\ normal \in Seq(Job) /\ interrupt \in Seq(Job) /\ reply \in Seq(Outcome)
      /\ Len(accepted) \in Nat /\ Len(interrupt) \in Nat /\ Len(normal) \in Nat
  BY Order
<1>1. /\ w.pc = "drainInterrupt" /\ w' = [w EXCEPT !.pc = "exited"] /\ normal' = << >>
      /\ reply' = [n \in DOMAIN reply |->
                     IF \E i \in DOMAIN normal : normal[i] = n THEN "dropped" ELSE reply[n]]
      /\ UNCHANGED <<lease, ledger, accepted, who, interrupt, queries, pty, stop, running, gone,
                     ender, valid, request>>
  BY DEF DrainInterrupt, inputVars, sessionVars
<1>2. DOMAIN reply = Job /\ DOMAIN normal = 1..Len(normal) /\ Len(reply) = Len(accepted)
  BY <1>0 DEF WriterTypeOK, Job
<1>3. \A n \in Job : reply'[n] = IF \E i \in 1..Len(normal) : normal[i] = n THEN "dropped" ELSE reply[n]
  BY <1>1, <1>2
<1>4. reply' \in Seq(Outcome) /\ Len(reply') = Len(reply)
  <2>1. \A n \in Job : reply[n] \in Outcome /\ "dropped" \in Outcome
    BY <1>0, <1>2 DEF Outcome, Job, WriterTypeOK
  <2>2. reply' \in [1..Len(accepted) -> Outcome]
    BY <1>1, <1>2, <2>1 DEF Job
  <2> QED
    BY <1>0, <1>2, <2>2
<1>5. w.job = 0 /\ w.urgent = 0
  BY <1>0, <1>1 DEF Held, Hand
<1>6. /\ w'.pc = "exited" /\ w'.job = 0 /\ w'.urgent = 0 /\ w'.next = w.next /\ w'.open = w.open
      /\ w'.result = w.result /\ w' \in WriterValue
  <2>1. /\ w.pc \in Pc /\ w.open \in BOOLEAN /\ w.next \in 1..MaxPaste + 1
        /\ w.result \in {"ok", "canceled", "refused", "unknown"} /\ 0 \in 0..Len(accepted)
        /\ w = [pc |-> w.pc, job |-> w.job, next |-> w.next, open |-> w.open,
                urgent |-> w.urgent, result |-> w.result]
    BY <1>0, WriterFacts
  <2> QED
    BY <1>1, <1>5, <2>1 DEF WriterValue, Pc
<1>7. Len(normal') = 0 /\ Len(interrupt') = 0 /\ Len(interrupt) = 0 /\ Job' = Job
  BY <1>0, <1>1 DEF Job
<1>8. Queued' /\ Held' /\ Ahead'
  BY <1>6, <1>7 DEF Queued, Held, Ahead, Hand, Ending
<1>9. Progress'
  BY <1>0, <1>1, <1>6 DEF Progress, Started, Ending
<1>10. Somewhere'
  <2> SUFFICES ASSUME NEW n \in Job, reply'[n] = "pending" PROVE FALSE
    BY <1>7 DEF Somewhere, Pending
  <2>1. reply[n] = "pending" /\ ~ \E i \in 1..Len(normal) : normal[i] = n
    BY <1>3
  <2>2. n # 0
    BY DEF Job
  <2> QED
    BY <1>0, <1>5, <1>7, <2>1, <2>2 DEF Somewhere, Pending
<1>11. Placed' /\ OtherJob
  BY <1>1, <1>5, <1>6, <1>8, <1>9, <1>10 DEF Placed, OtherJob, Inside
<1>12. LedgerShape' /\ \A m : RejectedFor(m)' = RejectedFor(m)
  BY <1>0, <1>1 DEF LedgerShape, RejectedFor
<1>13. \A m \in Job : \/ reply'[m] = reply[m]
                      \/ Pending(m) /\ reply'[m] \notin {"pending", "rejected"}
  BY <1>0, <1>3 DEF Queued
<1>14. \A m \in Job : reply'[m] = "written" => reply[m] = "written"
  BY <1>3
<1>15. normal' \in Seq(Job) /\ Len(normal') <= Len(normal) /\ Len(interrupt') <= Len(interrupt)
  BY <1>0, <1>1, <1>7
<1> QED
  BY <1>0, <1>1, <1>4, <1>6, <1>11, <1>12, <1>13, <1>14, <1>15, MoveStep

-----------------------------------------------------------------------------
\* The writer settles the job in hand, and turns to the interrupt it yielded
\* to, if there is one.
LEMMA SettleStep ==
  ASSUME IInv, w.job # 0, w.pc \in {"begin", "finish"}, LedgerShape',
         NEW r \in Outcome \ {"pending", "rejected"}, reply' = [reply EXCEPT ![w.job] = r],
         \/ w' = ResetWriter("stop") /\ w.urgent \in {0, w.job}
         \/ /\ w' = [ResetWriter("cancel") EXCEPT !.job = w.urgent, !.urgent = w.urgent]
            /\ w.urgent \notin {0, w.job},
         UNCHANGED <<lease, accepted, who, normal, interrupt, queries, pty, stop, running, gone, ender,
                     valid, request>>,
         r = "written" => Cardinality(Good(w.job)) = Parts(w.job) /\ InOrder(w.job),
         \A m \in Job : RejectedFor(m)' => RejectedFor(m)
  PROVE  IInv'
<1>0. /\ WriterTypeOK /\ LedgerShape /\ Queued /\ Held /\ Somewhere /\ Progress /\ Ahead
      /\ normal \in Seq(Job) /\ interrupt \in Seq(Job)
      /\ Len(accepted) \in Nat /\ Len(interrupt) \in Nat /\ Len(normal) \in Nat
  BY Order
<1>1. /\ w.job \in Job /\ w.job \in Nat /\ w.urgent \in Nat /\ (w.urgent # 0 => w.urgent \in Job)
      /\ w.urgent \in 0..Len(accepted) /\ 0 \in 0..Len(accepted) /\ 1 \in 1..MaxPaste + 1
  BY <1>0, WriterFacts, Bounds
<1>2. /\ reply' \in Seq(Outcome) /\ Len(reply') = Len(reply) /\ reply'[w.job] = r
      /\ \A m \in Job : m # w.job => reply'[m] = reply[m]
  BY <1>0, <1>1, ReplyFacts
<1>3. Pending(w.job)
  BY <1>0 DEF Held
<1>4. \A m \in Job : \/ reply'[m] = reply[m]
                     \/ Pending(m) /\ reply'[m] \notin {"pending", "rejected"}
  BY <1>2, <1>3
<1>5. \A m \in Job : reply'[m] = "written" =>
                       reply[m] = "written" \/ (Cardinality(Good(m)) = Parts(m) /\ InOrder(m))
  BY <1>2
<1>6. Job' = Job /\ \A m : JobOf(m)' = JobOf(m)
  BY DEF Job, JobOf
<1>7. /\ w'.next = 1 /\ ~w'.open /\ w'.result = "ok" /\ w'.pc \in {"stop", "cancel"}
      /\ w' \in WriterValue
  <2>1. CASE w' = ResetWriter("stop")
    BY <1>1, <2>1 DEF ResetWriter, WriterValue, Pc
  <2>2. CASE w' = [ResetWriter("cancel") EXCEPT !.job = w.urgent, !.urgent = w.urgent]
    BY <1>1, <2>2 DEF ResetWriter, WriterValue, Pc
  <2> QED
    BY <2>1, <2>2
<1>8. Progress'
  BY <1>7 DEF Progress, Started, Ending
<1>9. \/ w'.pc = "stop" /\ w'.job = 0 /\ w'.urgent = 0 /\ w.urgent \in {0, w.job}
      \/ w'.pc = "cancel" /\ w'.job = w.urgent /\ w'.urgent = w.urgent /\ w.urgent \notin {0, w.job}
  <2>1. CASE w' = ResetWriter("stop") /\ w.urgent \in {0, w.job}
    BY <2>1 DEF ResetWriter
  <2>2. CASE /\ w' = [ResetWriter("cancel") EXCEPT !.job = w.urgent, !.urgent = w.urgent]
             /\ w.urgent \notin {0, w.job}
    <3>1. w'.pc = "cancel" /\ w'.job = w.urgent /\ w'.urgent = w.urgent
      BY <2>2 DEF ResetWriter
    <3> QED
      BY <2>2, <3>1
  <2> QED
    BY <2>1, <2>2
<1>10. Queued'
  <2>1. ASSUME NEW i \in 1..Len(normal)
        PROVE  reply'[normal[i]] = "pending" /\ ~JobOf(normal[i]).priority /\ normal[i] \notin {w'.job, w'.urgent}
    <3>1. /\ Pending(normal[i]) /\ ~JobOf(normal[i]).priority /\ normal[i] \in Job
          /\ normal[i] \notin {0, w.job, w.urgent}
      BY <1>0 DEF Queued, Job
    <3> QED
      BY <1>2, <1>9, <3>1 DEF Pending
  <2>2. ASSUME NEW i \in 1..Len(interrupt)
        PROVE  reply'[interrupt[i]] = "pending" /\ JobOf(interrupt[i]).priority /\ interrupt[i] \notin {w'.job, w'.urgent}
    <3>1. /\ Pending(interrupt[i]) /\ JobOf(interrupt[i]).priority /\ interrupt[i] \in Job
          /\ interrupt[i] \notin {0, w.job, w.urgent}
      BY <1>0 DEF Queued, Job
    <3> QED
      BY <1>2, <1>9, <3>1 DEF Pending
  <2> QED
    BY <1>0, <1>6, <2>1, <2>2 DEF Queued, Pending
<1>11. Somewhere'
  <2> SUFFICES ASSUME NEW m \in Job, reply'[m] = "pending"
               PROVE  \/ \E i \in 1..Len(normal) : normal[i] = m
                      \/ \E i \in 1..Len(interrupt) : interrupt[i] = m
                      \/ m \in {w'.job, w'.urgent}
    BY <1>6 DEF Somewhere, Pending
  <2>1. m # w.job /\ m # 0 /\ Pending(m)
    BY <1>2 DEF Job, Pending
  <2> QED
    BY <1>0, <1>9, <2>1 DEF Somewhere
<1>12. Held'
  <2>1. CASE w'.pc = "stop" /\ w'.job = 0 /\ w'.urgent = 0
    BY <2>1 DEF Held, Hand, Ending
  <2>2. CASE w'.pc = "cancel" /\ w'.job = w.urgent /\ w'.urgent = w.urgent /\ w.urgent \notin {0, w.job}
    <3>1. Pending(w.urgent) /\ JobOf(w.urgent).priority
      BY <1>0, <2>2 DEF Held
    <3>2. reply'[w.urgent] = "pending"
      BY <1>1, <1>2, <2>2, <3>1 DEF Pending
    <3> QED
      BY <1>6, <2>2, <3>1, <3>2 DEF Held, Hand, Ending, Pending
  <2> QED
    BY <1>9, <2>1, <2>2
<1>13. Ahead'
  <2>1. w.urgent # 0 => \A i \in 1..Len(interrupt) : interrupt[i] > w.urgent
    BY <1>0 DEF Ahead
  <2>2. w.urgent >= w.urgent
    BY <1>1
  <2> QED
    BY <1>6, <1>9, <2>1, <2>2 DEF Ahead, Hand
<1>14. OtherJob
  <2>1. CASE w'.job = 0
    BY <1>2, <2>1 DEF OtherJob, Inside
  <2>2. CASE w'.pc = "cancel" /\ w'.job = w.urgent /\ w.urgent \notin {0, w.job}
    <3>1. reply'[w.urgent] = "pending"
      BY <1>0, <1>1, <1>2, <2>2 DEF Held, Pending
    <3> QED
      BY <1>2, <2>2, <3>1 DEF OtherJob, Inside
  <2> QED
    BY <1>9, <2>1, <2>2
<1>15. Placed'
  BY <1>8, <1>10, <1>11, <1>12, <1>13 DEF Placed
<1>16. Len(normal') <= Len(normal) /\ Len(interrupt') <= Len(interrupt)
  BY <1>0
<1> QED
  BY <1>0, <1>2, <1>4, <1>5, <1>7, <1>14, <1>15, <1>16, MoveStep

\* The end of a job, and of one whose session is gone.
LEMMA FinishSteps ==
  ASSUME IInv, FinishJob \/ (Begin /\ gone)
  PROVE  IInv'
<1>0. WriterTypeOK /\ LedgerShape /\ Held /\ Counted
  BY DEF IInv, Placed, History
<1>1. CASE Begin /\ gone
  <2>1. /\ w.pc = "begin" /\ w' = ResetWriter("stop") /\ reply' = [reply EXCEPT ![w.job] = "lost"]
        /\ UNCHANGED <<lease, ledger, accepted, who, normal, interrupt, queries, pty, stop, running,
                       gone, ender, valid, request>>
    BY <1>1 DEF Begin, inputVars, queueVars, sessionVars
  <2>2. w.job # 0 /\ w.urgent \in {0, w.job}
    BY <1>0, <2>1 DEF Held, Hand, Ending
  <2>3. LedgerShape' /\ \A m \in Job : RejectedFor(m)' => RejectedFor(m)
    BY <1>0, <2>1 DEF LedgerShape, RejectedFor
  <2>4. "lost" \in Outcome \ {"pending", "rejected"}
    BY DEF Outcome
  <2> QED
    BY <2>1, <2>2, <2>3, <2>4, SettleStep
<1>2. CASE FinishJob
  <2> DEFINE r == IF w.result = "ok" THEN "written" ELSE w.result
             s == IF w.result = "ok" THEN "written" ELSE "delivery_unknown"
  <2>1. /\ w.pc = "finish" /\ IS!Finish(accepted[w.job].id, s) /\ reply' = [reply EXCEPT ![w.job] = r]
        /\ w' = IF w.urgent \notin {0, w.job}
                THEN [ResetWriter("cancel") EXCEPT !.job = w.urgent, !.urgent = w.urgent]
                ELSE ResetWriter("stop")
        /\ UNCHANGED <<who, normal, interrupt, queries, pty, stop, running, gone, ender, valid, request>>
    BY <1>2 DEF FinishJob, queueVars, sessionVars
  <2>2. w.job # 0
    BY <1>0, <2>1 DEF Held, Hand
  <2>3. w.result \in {"ok", "canceled", "refused", "unknown"}
    BY <1>0, WriterFacts
  <2>4. r \in Outcome \ {"pending", "rejected"} /\ s # "rejected" /\ (r = "written" => w.result = "ok")
    BY <2>3 DEF Outcome
  <2>5. r = "written" => Cardinality(Good(w.job)) = Parts(w.job) /\ InOrder(w.job)
    BY <1>0, <2>1, <2>2, <2>4 DEF Counted, SoFar
  <2> HIDE DEF r, s
  <2>6. /\ LedgerShape' /\ UNCHANGED <<lease, accepted>>
        /\ DOMAIN ledger'.outcomes = DOMAIN ledger.outcomes
        /\ \A i \in DOMAIN ledger.outcomes :
             ledger'.outcomes[i] = IF i = accepted[w.job].id THEN s ELSE ledger.outcomes[i]
    BY <1>0, <2>1, LedgerFinished
  <2>7. \A m \in Job : RejectedFor(m)' => RejectedFor(m)
    BY <2>4, <2>6 DEF RejectedFor
  <2>8. \/ w' = ResetWriter("stop") /\ w.urgent \in {0, w.job}
        \/ /\ w' = [ResetWriter("cancel") EXCEPT !.job = w.urgent, !.urgent = w.urgent]
           /\ w.urgent \notin {0, w.job}
    BY <2>1
  <2> QED
    BY <2>1, <2>2, <2>4, <2>5, <2>6, <2>7, <2>8, SettleStep
<1> QED
  BY <1>1, <1>2

-----------------------------------------------------------------------------
\* One more write.
LEMMA Appended ==
  ASSUME WriterTypeOK, NEW e \in [job : 0..Len(accepted), part : Part, ok : BOOLEAN, late : BOOLEAN],
         pty' = Append(pty, e), UNCHANGED accepted
  PROVE  /\ pty' \in Seq([job : 0..Len(accepted), part : Part, ok : BOOLEAN, late : BOOLEAN])
         /\ Len(pty) \in Nat /\ Len(pty') = Len(pty) + 1 /\ pty'[Len(pty) + 1] = e
         /\ \A i \in 1..Len(pty) : pty'[i] = pty[i]
         /\ \A n : n # e.job => Writes(n)' = Writes(n) /\ Good(n)' = Good(n) /\ InOrder(n)' = InOrder(n)
         /\ Writes(e.job)' = Writes(e.job) \cup {Len(pty) + 1}
         /\ Good(e.job)' = IF e.ok THEN Good(e.job) \cup {Len(pty) + 1} ELSE Good(e.job)
<1> DEFINE E == [job : 0..Len(accepted), part : Part, ok : BOOLEAN, late : BOOLEAN]
<1>1. pty \in Seq(E) /\ e \in E
  BY DEF WriterTypeOK
<1> HIDE DEF E
<1>2. /\ pty' \in Seq(E) /\ Len(pty) \in Nat /\ Len(pty') = Len(pty) + 1 /\ pty'[Len(pty) + 1] = e
      /\ \A i \in 1..Len(pty) : pty'[i] = pty[i]
  BY <1>1
<1>3. /\ 1..Len(pty') = 1..Len(pty) \cup {Len(pty) + 1} /\ Len(pty) + 1 \notin 1..Len(pty)
  BY <1>2
<1>4. \A n : n # e.job => Writes(n)' = Writes(n)
  BY <1>2, <1>3 DEF Writes
<1>5. Writes(e.job)' = Writes(e.job) \cup {Len(pty) + 1}
  BY <1>2, <1>3 DEF Writes
<1>6. \A n : \A i \in Writes(n) : pty'[i] = pty[i] /\ i \in 1..Len(pty)
  BY <1>2 DEF Writes
<1>7. \A n : n # e.job => Good(n)' = Good(n)
  BY <1>4, <1>6 DEF Good
<1>8. Good(e.job)' = IF e.ok THEN Good(e.job) \cup {Len(pty) + 1} ELSE Good(e.job)
  BY <1>2, <1>5, <1>6 DEF Good
<1>9. ASSUME NEW n, n # e.job PROVE InOrder(n)' = InOrder(n)
  <2>1. \A i : Rank(n, i)' = Rank(n, i) /\ PartAt(n, Rank(n, i))' = PartAt(n, Rank(n, i))
    <3>1. Good(n)' = Good(n)
      BY <1>7, <1>9
    <3>2. \A i : Rank(n, i)' = Rank(n, i)
      BY <3>1 DEF Rank
    <3> QED
      BY <3>2 DEF PartAt, Delimiters, JobOf
  <2>2. Good(n)' = Good(n) /\ \A i \in Good(n) : pty'[i] = pty[i]
    BY <1>6, <1>7, <1>9 DEF Good
  <2> QED
    BY <2>1, <2>2 DEF InOrder
<1> QED
  BY <1>2, <1>4, <1>5, <1>7, <1>8, <1>9 DEF E

\* The successful writes of a job are finitely many.
LEMMA GoodFinite ==
  ASSUME WriterTypeOK, NEW n
  PROVE  IsFiniteSet(Good(n)) /\ Cardinality(Good(n)) \in Nat /\ Good(n) \subseteq 1..Len(pty)
<1>1. Len(pty) \in Nat
  BY WriterFacts
<1>2. IsFiniteSet(1..Len(pty))
  BY <1>1, FS_Interval
<1>3. Good(n) \subseteq 1..Len(pty)
  BY DEF Good, Writes
<1>4. IsFiniteSet(Good(n))
  BY <1>2, <1>3, FS_Subset
<1> QED
  BY <1>3, <1>4, FS_CardinalityType

\* One more part of a job, the next one, keeps its parts in order.
LEMMA NextPart ==
  ASSUME WriterTypeOK, WriterTypeOK', UNCHANGED accepted, NEW n, NEW N \in Nat, N = Len(pty),
         Good(n)' = Good(n) \cup {N + 1}, \A i \in 1..N : pty'[i] = pty[i],
         InOrder(n), pty'[N + 1].part = PartAt(n, Cardinality(Good(n)) + 1)
  PROVE  Cardinality(Good(n)') = Cardinality(Good(n)) + 1 /\ InOrder(n)'
<1>1. /\ IsFiniteSet(Good(n)) /\ Cardinality(Good(n)) \in Nat /\ Good(n) \subseteq 1..N /\ N + 1 \notin Good(n)
  <2>1. IsFiniteSet(Good(n)) /\ Cardinality(Good(n)) \in Nat /\ Good(n) \subseteq 1..N
    BY GoodFinite
  <2>2. N + 1 \notin 1..N
    OBVIOUS
  <2> QED
    BY <2>1, <2>2
<1>2. Cardinality(Good(n) \cup {N + 1}) = Cardinality(Good(n)) + 1
  BY <1>1, FS_AddElement
<1>3. \A k : PartAt(n, k)' = PartAt(n, k)
  BY DEF PartAt, Delimiters, JobOf
<1>4. ASSUME NEW i \in Good(n) PROVE pty'[i].part = PartAt(n, Rank(n, i)')
  <2>1. {j \in Good(n) \cup {N + 1} : j <= i} = {j \in Good(n) : j <= i}
    BY <1>1
  <2>2. Rank(n, i)' = Rank(n, i)
    BY <2>1 DEF Rank
  <2>3. pty[i].part = PartAt(n, Rank(n, i)) /\ pty'[i] = pty[i]
    BY <1>1 DEF InOrder
  <2> QED
    BY <2>2, <2>3
<1>5. pty'[N + 1].part = PartAt(n, Rank(n, N + 1)')
  <2>1. {j \in Good(n) \cup {N + 1} : j <= N + 1} = Good(n) \cup {N + 1}
    BY <1>1
  <2>2. Rank(n, N + 1)' = Cardinality(Good(n)) + 1
    BY <1>2, <2>1 DEF Rank
  <2> QED
    BY <2>2
<1>6. InOrder(n)'
  <2> SUFFICES ASSUME NEW i \in Good(n) \cup {N + 1} PROVE pty'[i].part = PartAt(n, Rank(n, i))'
    BY DEF InOrder
  <2>1. PartAt(n, Rank(n, i))' = PartAt(n, Rank(n, i)')
    BY DEF PartAt, Delimiters, JobOf
  <2>2. CASE i = N + 1
    BY <1>5, <2>1, <2>2
  <2>3. CASE i \in Good(n)
    BY <1>4, <2>1, <2>3
  <2> QED
    BY <2>2, <2>3
<1> QED
  BY <1>2, <1>6

\* Positions from i on.
LEMMA From ==
  ASSUME NEW N \in Nat, NEW i \in 1..N
  PROVE  /\ i \in i..N + 1 /\ N + 1 \in i..N + 1
         /\ \A j \in i..N + 1 : j = N + 1 \/ (j \in i..N /\ j \in 1..N)
         /\ \A m \in i..N : m \in i..N + 1 /\ m \in 1..N /\ \A j \in i..m : j \in 1..N
OBVIOUS

\* The writer writes the next part of its job.
LEMMA WriteStep ==
  ASSUME IInv, w.pc \in {"prefix", "write", "suffix", "enterWrite"}, w.job # 0,
         NEW part \in Part, NEW ok \in BOOLEAN,
         pty' = Append(pty, [job |-> w.job, part |-> part, ok |-> ok, late |-> ~Permitted(w.job)]),
         UNCHANGED <<lease, ledger, accepted, who, reply, normal, interrupt, queries, stop, running,
                     gone, ender, valid, request>>,
         w' \in WriterValue, w'.job = w.job, w'.urgent = w.urgent, Progress',
         w'.pc \in Started \ Cleared, w.pc \in Ending => w'.pc \in Ending,
         w.pc = "suffix" => part = "close",
         (part = "open" /\ ok) => w'.open /\ w'.pc \in Inside,
         (w.pc = "write" /\ w.open) => w'.open /\ w'.pc \in Inside,
         w'.result = "ok" => /\ ok /\ w.result = "ok" /\ SoFar' = SoFar + 1
                             /\ part = PartAt(w.job, SoFar + 1)
  PROVE  IInv'
<1> DEFINE N == Len(pty)
           e == [job |-> w.job, part |-> part, ok |-> ok, late |-> ~Permitted(w.job)]
<1>0. /\ WriterTypeOK /\ LedgerShape /\ Issued /\ Queued /\ Held /\ Somewhere /\ Progress /\ Ahead
      /\ Behind /\ Unwritten /\ Late /\ Closing /\ Counted /\ Rejections
      /\ InterruptBarrier /\ AtMostOneLateWrite
  BY DEF IInv, Placed, History, Shown
<1>1. /\ w.job \in Job /\ w.job \in Nat /\ w.job \in 0..Len(accepted) /\ N \in Nat
      /\ (w.urgent # 0 => w.urgent \in Job)
  BY <1>0, WriterFacts
<1>2. e \in [job : 0..Len(accepted), part : Part, ok : BOOLEAN, late : BOOLEAN]
  <2>1. (~Permitted(w.job)) \in BOOLEAN
    OBVIOUS
  <2> QED
    BY <1>1, <2>1
<1>3. /\ pty' \in Seq([job : 0..Len(accepted), part : Part, ok : BOOLEAN, late : BOOLEAN])
      /\ Len(pty') = N + 1 /\ pty'[N + 1] = e /\ \A i \in 1..N : pty'[i] = pty[i]
      /\ \A n : n # w.job => Writes(n)' = Writes(n) /\ Good(n)' = Good(n) /\ InOrder(n)' = InOrder(n)
      /\ Writes(w.job)' = Writes(w.job) \cup {N + 1}
      /\ ok => Good(w.job)' = Good(w.job) \cup {N + 1}
  <2>1. e.job = w.job /\ e.ok = ok
    OBVIOUS
  <2> HIDE DEF e
  <2>2. pty' = Append(pty, e)
    BY DEF e
  <2> QED
    BY <1>0, <1>2, <2>1, <2>2, Appended
<1>4. 1..Len(pty') = 1..N \cup {N + 1} /\ \A i \in 1..N : i < N + 1
  BY <1>1, <1>3
<1>5. /\ pty'[N + 1].job = w.job /\ pty'[N + 1].part = part /\ pty'[N + 1].ok = ok
      /\ pty'[N + 1].late = ~Permitted(w.job)
  BY <1>3
<1> HIDE DEF e, N
<1>6. /\ Job' = Job
      /\ \A n : /\ JobOf(n)' = JobOf(n) /\ Pending(n)' = Pending(n) /\ Permitted(n)' = Permitted(n)
                /\ Parts(n)' = Parts(n) /\ Once(n)' = Once(n) /\ RejectedFor(n)' = RejectedFor(n)
  BY DEF Job, JobOf, Pending, Permitted, Parts, Delimiters, Once, RejectedFor
<1>7. WriterTypeOK'
  BY <1>0, <1>3, <1>6 DEF WriterTypeOK, WriterValue
<1>8. LedgerShape' /\ Issued'
  BY <1>0, <1>6 DEF LedgerShape, Issued
<1>9. Placed'
  BY <1>0, StayPlaced DEF Hand, Started, Ending
<1>10. Pending(w.job)
  BY <1>0 DEF Held
<1>11. ASSUME NEW m \in Job, Pending(m), w.job > m PROVE JobOf(m).priority /\ ~JobOf(w.job).priority
  <2>0. m \in Nat
    BY DEF Job
  <2>1. w.pc \in Hand \ {"cancel"}
    BY DEF Hand
  <2>2. CASE \E i \in 1..Len(normal) : normal[i] = m
    BY <1>0, <1>1, <1>11, <2>0, <2>1, <2>2 DEF Ahead
  <2>3. CASE \E i \in 1..Len(interrupt) : interrupt[i] = m
    BY <1>0, <1>1, <1>11, <2>0, <2>3 DEF Ahead, Queued
  <2>4. CASE m \in {w.job, w.urgent}
    <3>1. m = w.urgent /\ w.urgent # 0
      BY <1>1, <1>11, <2>0, <2>4 DEF Job
    <3> QED
      BY <1>0, <1>1, <1>11, <2>0, <3>1 DEF Ahead, Held
  <2> QED
    BY <1>0, <1>11, <2>2, <2>3, <2>4 DEF Somewhere
<1>12. Behind'
  <2> SUFFICES ASSUME NEW i \in 1..Len(pty'), NEW m \in Job, Pending(m), pty'[i].job > m
               PROVE  JobOf(m).priority /\ ~JobOf(pty'[i].job).priority
    BY <1>6 DEF Behind
  <2>1. CASE i \in 1..N
    BY <1>0, <1>3, <2>1 DEF Behind, N
  <2>2. CASE i = N + 1
    BY <1>5, <1>11, <2>2
  <2> QED
    BY <1>4, <2>1, <2>2
<1>13. InterruptBarrier'
  <2> SUFFICES ASSUME NEW i \in 1..Len(pty'), NEW j \in 1..Len(pty'), i < j,
                      pty'[i].job > pty'[j].job, pty'[j].job # 0
               PROVE  JobOf(pty'[j].job).priority /\ ~JobOf(pty'[i].job).priority
    BY <1>6 DEF InterruptBarrier
  <2>1. i \in 1..N
    BY <1>1, <1>3 DEF N
  <2>2. CASE j \in 1..N
    BY <1>0, <1>3, <2>1, <2>2 DEF InterruptBarrier, N
  <2>3. CASE j = N + 1
    BY <1>0, <1>1, <1>3, <1>5, <1>10, <2>1, <2>3 DEF Behind, N
  <2> QED
    BY <1>4, <2>2, <2>3
<1>14. AtMostOneLateWrite'
  <2> SUFFICES ASSUME NEW n \in Job, NEW i \in Writes(n)', NEW j \in Writes(n)', i < j, pty'[i].late
               PROVE  pty'[j].part = "close"
    BY <1>6 DEF AtMostOneLateWrite
  <2>1. i \in 1..N /\ j \in 1..Len(pty') /\ pty'[i].job = n /\ pty'[j].job = n
    <3>1. i \in 1..Len(pty') /\ j \in 1..Len(pty') /\ pty'[i].job = n /\ pty'[j].job = n
      BY DEF Writes
    <3> QED
      BY <1>1, <1>3, <3>1
  <2>2. CASE j \in 1..N
    BY <1>0, <1>3, <2>1, <2>2 DEF AtMostOneLateWrite, Writes, N
  <2>3. CASE j = N + 1
    <3>1. n = w.job /\ pty[i].late /\ pty[i].job = w.job
      BY <1>3, <1>5, <2>1, <2>3
    <3>2. w.pc \notin Cleared
      BY <1>0, <2>1, <3>1 DEF Late, N
    <3> QED
      BY <1>5, <2>3, <3>2 DEF Cleared
  <2> QED
    BY <1>4, <2>1, <2>2, <2>3
<1>15. Unwritten'
  <2> SUFFICES ASSUME NEW i \in 1..Len(pty'), pty'[i].job # 0
               PROVE  \/ reply[pty'[i].job] \notin {"pending", "rejected"}
                      \/ pty'[i].job = w'.job /\ w'.pc \in Started
    BY DEF Unwritten
  <2>1. CASE i \in 1..N
    BY <1>0, <1>3, <2>1 DEF Unwritten, N
  <2>2. CASE i = N + 1
    BY <1>5, <2>2
  <2> QED
    BY <1>4, <2>1, <2>2
<1>16. Late'
  <2> SUFFICES ASSUME NEW i \in 1..Len(pty'), pty'[i].late, pty'[i].job = w.job
               PROVE  ~Permitted(w.job)
    BY <1>6 DEF Late
  <2>1. CASE i \in 1..N
    BY <1>0, <1>3, <2>1 DEF Late, N
  <2>2. CASE i = N + 1
    BY <1>5, <2>2
  <2> QED
    BY <1>4, <2>1, <2>2
<1>17. Closing'
  <2> SUFFICES ASSUME NEW i \in 1..Len(pty'), pty'[i].part = "open", pty'[i].ok
               PROVE  \/ \E m \in i..Len(pty') : /\ pty'[m].part = "close"
                                                 /\ \A j \in i..m : pty'[j].job = pty'[i].job
                      \/ /\ w'.open /\ w'.pc \in Inside
                         /\ \A j \in i..Len(pty') : pty'[j].job = w.job
    BY DEF Closing, Inside
  <2>1. CASE i = N + 1
    <3>1. w'.open /\ w'.pc \in Inside
      BY <1>5, <2>1
    <3>2. \A j \in i..Len(pty') : j = N + 1
      BY <1>1, <1>3, <2>1
    <3> QED
      BY <1>5, <3>1, <3>2
  <2>2. CASE i \in 1..N
    <3>1. pty[i].part = "open" /\ pty[i].ok /\ pty'[i] = pty[i]
      BY <1>3, <2>2
    <3>2. CASE \E m \in i..N : pty[m].part = "close" /\ \A j \in i..m : pty[j].job = pty[i].job
      <4>1. PICK m \in i..N : pty[m].part = "close" /\ \A j \in i..m : pty[j].job = pty[i].job
        BY <3>2
      <4>2. m \in i..Len(pty') /\ m \in 1..N /\ \A j \in i..m : j \in 1..N
        BY <1>1, <1>3, <2>2, From
      <4>3. pty'[m].part = "close" /\ \A j \in i..m : pty'[j].job = pty'[i].job
        BY <1>3, <3>1, <4>1, <4>2
      <4> QED
        BY <4>2, <4>3
    <3>3. CASE w.open /\ w.pc \in {"chunk", "write", "suffix"} /\ \A j \in i..N : pty[j].job = w.job
      <4>1. \A j \in i..N + 1 : pty'[j].job = w.job
        <5> SUFFICES ASSUME NEW j \in i..N + 1 PROVE pty'[j].job = w.job
          OBVIOUS
        <5>1. CASE j = N + 1
          BY <1>5, <5>1
        <5>2. CASE j # N + 1
          <6>1. j \in i..N /\ j \in 1..N
            BY <1>1, <2>2, <5>2, From
          <6> QED
            BY <1>3, <3>3, <6>1
        <5> QED
          BY <5>1, <5>2
      <4>2. i \in i..N + 1 /\ N + 1 \in i..N + 1
        BY <1>1, <2>2, From
      <4>3. CASE w.pc = "suffix"
        <5>1. pty'[N + 1].part = "close" /\ pty'[i].job = w.job /\ Len(pty') = N + 1
          BY <1>3, <1>5, <4>1, <4>2, <4>3
        <5> QED
          BY <4>1, <4>2, <5>1
      <4>4. CASE w.pc = "write"
        BY <1>3, <3>3, <4>1, <4>4
      <4> QED
        BY <3>3, <4>3, <4>4
    <3> QED
      BY <1>0, <2>2, <3>1, <3>2, <3>3 DEF Closing, N
  <2> QED
    BY <1>4, <2>1, <2>2
<1>18. Counted'
  <2>1. ASSUME w'.result = "ok"
        PROVE  Cardinality(Good(w.job)') = SoFar' /\ InOrder(w.job)'
    <3>1. Cardinality(Good(w.job)) = SoFar /\ InOrder(w.job)
      BY <1>0, <2>1 DEF Counted
    <3>2. Good(w.job)' = Good(w.job) \cup {N + 1}
      BY <1>3, <2>1
    <3>3. pty'[N + 1].part = PartAt(w.job, Cardinality(Good(w.job)) + 1)
      BY <1>5, <2>1, <3>1
    <3>4. Cardinality(Good(w.job)') = Cardinality(Good(w.job)) + 1 /\ InOrder(w.job)'
      <4> DEFINE n == w.job
      <4>1. n' = n
        OBVIOUS
      <4> QED
        BY <1>0, <1>1, <1>3, <1>7, <3>1, <3>2, <3>3, NextPart DEF N
    <3> QED
      BY <2>1, <3>1, <3>4
  <2>2. ASSUME NEW n \in Job, reply[n] = "written"
        PROVE  Cardinality(Good(n)') = Parts(n) /\ InOrder(n)'
    <3>1. n # w.job
      BY <1>10, <2>2 DEF Pending
    <3> QED
      BY <1>0, <1>3, <2>2, <3>1 DEF Counted
  <2> QED
    BY <1>6, <2>1, <2>2 DEF Counted
<1>19. Rejections'
  <2> SUFFICES ASSUME NEW n \in Job, RejectedFor(n), Once(n) PROVE ~Pending(n) /\ Writes(n)' = {}
    BY <1>6 DEF Rejections
  <2>1. ~Pending(n) /\ Writes(n) = {}
    BY <1>0 DEF Rejections
  <2> QED
    BY <1>3, <1>10, <2>1
<1> QED
  BY <1>7, <1>8, <1>9, <1>12, <1>13, <1>14, <1>15, <1>16, <1>17, <1>18, <1>19
  DEF IInv, History, Shown

-----------------------------------------------------------------------------
\* The four writes of write_job.
LEMMA WriteSteps ==
  ASSUME IInv, WritePrefix \/ WriteChunk \/ (Suffix /\ w.open) \/ WriteEnter
  PROVE  IInv'
<1>0. WriterTypeOK /\ Issued /\ Held /\ Progress
  BY DEF IInv, Placed
<1>1. /\ w.pc \in Pc /\ w.open \in BOOLEAN /\ w.next \in 1..MaxPaste + 1 /\ w.next \in Nat
      /\ w.result \in {"ok", "canceled", "refused", "unknown"}
      /\ w.job \in 0..Len(accepted) /\ w.urgent \in 0..Len(accepted) /\ (w.job # 0 => w.job \in Job)
      /\ w = [pc |-> w.pc, job |-> w.job, next |-> w.next, open |-> w.open,
              urgent |-> w.urgent, result |-> w.result]
  BY <1>0, WriterFacts, Bounds
<1>2. w.job # 0 => /\ JobOf(w.job).chunks \in Nat /\ JobOf(w.job).chunks <= MaxPaste
                   /\ JobOf(w.job).bracketed \in BOOLEAN
                   /\ JobOf(w.job).enter \in BOOLEAN /\ Delimiters(w.job) \in {0, 1}
                   /\ Delimiters(w.job) = IF JobOf(w.job).bracketed THEN 1 ELSE 0
  BY <1>0, <1>1, JobShape DEF Delimiters
<1>3. ASSUME NEW part, NEW good, NEW bad, Write(part, good, bad)
      PROVE  /\ UNCHANGED <<lease, ledger, accepted, who, reply, normal, interrupt, queries, stop, running,
                            gone, ender, valid, request>>
             /\ \E ok \in BOOLEAN :
                  /\ pty' = Append(pty, [job |-> w.job, part |-> part, ok |-> ok,
                                         late |-> ~Permitted(w.job)])
                  /\ w' = IF ok THEN good ELSE bad
  BY <1>3 DEF Write, inputVars, queueVars, sessionVars
<1>4. ASSUME UNCHANGED accepted
      PROVE  \A n : JobOf(n)' = JobOf(n) /\ Delimiters(n)' = Delimiters(n) /\ Parts(n)' = Parts(n)
  BY <1>4 DEF JobOf, Delimiters, Parts
<1>5. CASE WritePrefix
  <2>1. w.pc = "prefix" /\ Write("open", [w EXCEPT !.pc = "chunk", !.open = TRUE], Fail("unknown"))
    BY <1>5 DEF WritePrefix
  <2>2. UNCHANGED <<lease, ledger, accepted, who, reply, normal, interrupt, queries, stop, running,
                    gone, ender, valid, request>>
    BY <1>3, <2>1
  <2>3. PICK ok \in BOOLEAN :
               /\ pty' = Append(pty, [job |-> w.job, part |-> "open", ok |-> ok,
                                      late |-> ~Permitted(w.job)])
               /\ w' = IF ok THEN [w EXCEPT !.pc = "chunk", !.open = TRUE] ELSE Fail("unknown")
    BY <1>3, <2>1
  <2>4. w.job # 0 /\ w.next = 1 /\ ~w.open /\ w.result = "ok" /\ JobOf(w.job).bracketed
    BY <1>0, <2>1 DEF Held, Hand, Progress, Started
  <2>5. CASE ok
    <3>1. w' = [w EXCEPT !.pc = "chunk", !.open = TRUE]
      BY <2>3, <2>5
    <3>2. /\ w'.pc = "chunk" /\ w'.open = TRUE /\ w'.next = 1 /\ w'.result = "ok" /\ w'.job = w.job
          /\ w'.urgent = w.urgent /\ w' \in WriterValue
      BY <1>1, <2>4, <3>1 DEF WriterValue, Pc
    <3>3. Progress'
      <4>1. 1 <= JobOf(w.job).chunks + 1 /\ JobOf(w.job).bracketed = TRUE
        BY <1>2, <2>4
      <4> QED
        BY <1>4, <2>2, <3>2, <4>1 DEF Progress, Started, Ending
    <3>4. SoFar = 0 /\ SoFar' = 1
      BY <1>2, <1>4, <2>1, <2>2, <2>4, <3>2 DEF SoFar
    <3>5. PartAt(w.job, SoFar + 1) = "open" /\ SoFar' = SoFar + 1
      BY <1>2, <2>4, <3>4 DEF PartAt
    <3> QED
      BY <2>1, <2>2, <2>3, <2>4, <2>5, <3>2, <3>3, <3>5, WriteStep
         DEF Part, Started, Cleared, Ending, Inside
  <2>6. CASE ~ok
    <3>1. w' = [w EXCEPT !.pc = "suffix", !.result = "unknown"]
      BY <2>3, <2>6 DEF Fail
    <3>2. /\ w'.pc = "suffix" /\ w'.result = "unknown" /\ w'.job = w.job
          /\ w'.urgent = w.urgent /\ w' \in WriterValue
      BY <1>1, <3>1 DEF WriterValue, Pc
    <3>3. Progress'
      BY <3>2 DEF Progress, Started, Ending
    <3> QED
      BY <2>1, <2>2, <2>3, <2>4, <2>6, <3>2, <3>3, WriteStep
         DEF Part, Started, Cleared, Ending, Inside
  <2> QED
    BY <2>5, <2>6
<1>6. CASE WriteChunk
  <2>1. w.pc = "write" /\ Write("data", [w EXCEPT !.pc = "chunk", !.next = @ + 1], Fail("unknown"))
    BY <1>6 DEF WriteChunk
  <2>2. UNCHANGED <<lease, ledger, accepted, who, reply, normal, interrupt, queries, stop, running,
                    gone, ender, valid, request>>
    BY <1>3, <2>1
  <2>3. PICK ok \in BOOLEAN :
               /\ pty' = Append(pty, [job |-> w.job, part |-> "data", ok |-> ok,
                                      late |-> ~Permitted(w.job)])
               /\ w' = IF ok THEN [w EXCEPT !.pc = "chunk", !.next = @ + 1] ELSE Fail("unknown")
    BY <1>3, <2>1
  <2>4. /\ w.job # 0 /\ w.next <= JobOf(w.job).chunks /\ w.open = JobOf(w.job).bracketed
        /\ w.result = "ok"
    BY <1>0, <2>1 DEF Held, Hand, Progress
  <2>5. CASE ok
    <3>1. w' = [w EXCEPT !.pc = "chunk", !.next = w.next + 1]
      BY <2>3, <2>5
    <3>2. w.next + 1 \in 1..MaxPaste + 1 /\ w.next + 1 <= JobOf(w.job).chunks + 1
      BY <1>1, <1>2, <2>4, Bounds
    <3>3. /\ w'.pc = "chunk" /\ w'.open = w.open /\ w'.next = w.next + 1 /\ w'.result = "ok"
          /\ w'.job = w.job /\ w'.urgent = w.urgent /\ w' \in WriterValue
      BY <1>1, <2>4, <3>1, <3>2 DEF WriterValue, Pc
    <3>4. Progress'
      BY <1>4, <2>2, <2>4, <3>2, <3>3 DEF Progress, Started, Ending
    <3>5. SoFar = Delimiters(w.job) + w.next - 1 /\ SoFar' = Delimiters(w.job) + (w.next + 1) - 1
      BY <1>4, <2>1, <2>2, <3>3 DEF SoFar
    <3>6. SoFar' = SoFar + 1 /\ SoFar + 1 = Delimiters(w.job) + w.next
      BY <1>1, <1>2, <2>4, <3>5
    <3>7. PartAt(w.job, Delimiters(w.job) + w.next) = "data"
      <4>1. w.next >= 1 /\ w.next <= JobOf(w.job).chunks /\ JobOf(w.job).chunks \in Nat
            /\ Delimiters(w.job) \in Nat
        BY <1>1, <1>2, <2>4
      <4>2. /\ ~(Delimiters(w.job) + w.next <= Delimiters(w.job))
            /\ Delimiters(w.job) + w.next <= Delimiters(w.job) + JobOf(w.job).chunks
        BY <1>1, <4>1
      <4> QED
        BY <4>2 DEF PartAt
    <3>8. PartAt(w.job, SoFar + 1) = "data"
      BY <3>6, <3>7
    <3> QED
      BY <2>1, <2>2, <2>3, <2>4, <2>5, <3>3, <3>4, <3>6, <3>8, WriteStep
         DEF Part, Started, Cleared, Ending, Inside
  <2>6. CASE ~ok
    <3>1. w' = [w EXCEPT !.pc = "suffix", !.result = "unknown"]
      BY <2>3, <2>6 DEF Fail
    <3>2. /\ w'.pc = "suffix" /\ w'.result = "unknown" /\ w'.job = w.job /\ w'.open = w.open
          /\ w'.urgent = w.urgent /\ w' \in WriterValue
      BY <1>1, <3>1 DEF WriterValue, Pc
    <3>3. Progress'
      BY <3>2 DEF Progress, Started, Ending
    <3> QED
      BY <2>1, <2>2, <2>3, <2>4, <2>6, <3>2, <3>3, WriteStep
         DEF Part, Started, Cleared, Ending, Inside
  <2> QED
    BY <2>5, <2>6
<1>7. CASE Suffix /\ w.open
  <2> DEFINE r(ok) == IF w.result = "ok" /\ ~ok THEN "unknown" ELSE w.result
  <2>1. w.pc = "suffix" /\ Write("close", [w EXCEPT !.pc = "enter"],
                                 [w EXCEPT !.pc = "enter", !.result = IF @ = "ok" THEN "unknown" ELSE @])
    BY <1>7 DEF Suffix
  <2>2. UNCHANGED <<lease, ledger, accepted, who, reply, normal, interrupt, queries, stop, running,
                    gone, ender, valid, request>>
    BY <1>3, <2>1
  <2>3. PICK ok \in BOOLEAN :
               /\ pty' = Append(pty, [job |-> w.job, part |-> "close", ok |-> ok,
                                      late |-> ~Permitted(w.job)])
               /\ w' = IF ok THEN [w EXCEPT !.pc = "enter"]
                       ELSE [w EXCEPT !.pc = "enter", !.result = IF @ = "ok" THEN "unknown" ELSE @]
    BY <1>3, <2>1
  <2>4. /\ w.job # 0 /\ (w.result = "ok" => JobOf(w.job).bracketed /\ w.next = JobOf(w.job).chunks + 1)
    BY <1>0, <1>1, <1>7, <2>1 DEF Held, Hand, Progress, Ending
  <2>5. w' = [w EXCEPT !.pc = "enter", !.result = r(ok)]
    <3>1. CASE ok
      <4>1. w' = [w EXCEPT !.pc = "enter"] /\ r(ok) = w.result
        BY <2>3, <3>1
      <4> QED
        BY <1>1, <4>1
    <3>2. CASE ~ok
      BY <1>1, <2>3, <3>2
    <3> QED
      BY <3>1, <3>2
  <2>6. /\ r(ok) \in {"ok", "canceled", "refused", "unknown"}
        /\ (r(ok) = "ok" => w.result = "ok" /\ ok)
    BY <1>1
  <2> HIDE DEF r
  <2>7. /\ w'.pc = "enter" /\ w'.result = r(ok) /\ w'.job = w.job /\ w'.open = w.open /\ w'.next = w.next
        /\ w'.urgent = w.urgent /\ w' \in WriterValue
    BY <1>1, <2>5, <2>6 DEF WriterValue, Pc
  <2>8. Progress'
    BY <1>0, <1>4, <2>1, <2>2, <2>6, <2>7 DEF Progress, Started, Ending
  <2>9. r(ok) = "ok" => /\ SoFar' = SoFar + 1 /\ "close" = PartAt(w.job, SoFar + 1)
    <3> SUFFICES ASSUME r(ok) = "ok" PROVE SoFar' = SoFar + 1 /\ "close" = PartAt(w.job, SoFar + 1)
      OBVIOUS
    <3>1. /\ Delimiters(w.job) = 1 /\ w.next = JobOf(w.job).chunks + 1 /\ JobOf(w.job).chunks \in Nat
      BY <1>2, <2>4, <2>6
    <3>2. SoFar = Delimiters(w.job) + w.next - 1 /\ SoFar' = 2 * Delimiters(w.job) + JobOf(w.job).chunks
      BY <1>4, <2>1, <2>2, <2>7 DEF SoFar
    <3>3. SoFar = JobOf(w.job).chunks + 1 /\ SoFar' = JobOf(w.job).chunks + 2
      BY <3>1, <3>2
    <3>4. /\ ~(SoFar + 1 <= Delimiters(w.job)) /\ ~(SoFar + 1 <= Delimiters(w.job) + JobOf(w.job).chunks)
          /\ SoFar + 1 <= 2 * Delimiters(w.job) + JobOf(w.job).chunks
      BY <3>1, <3>3
    <3>5. "close" = PartAt(w.job, SoFar + 1)
      BY <3>4 DEF PartAt
    <3> QED
      BY <3>1, <3>3, <3>5
  <2> QED
    BY <2>1, <2>2, <2>3, <2>4, <2>6, <2>7, <2>8, <2>9, WriteStep
       DEF Part, Started, Cleared, Ending, Inside
<1>8. CASE WriteEnter
  <2>1. /\ w.pc = "enterWrite"
        /\ Write("enter", [w EXCEPT !.pc = "finish"], [w EXCEPT !.pc = "finish", !.result = "unknown"])
    BY <1>8 DEF WriteEnter
  <2>2. UNCHANGED <<lease, ledger, accepted, who, reply, normal, interrupt, queries, stop, running,
                    gone, ender, valid, request>>
    BY <1>3, <2>1
  <2>3. PICK ok \in BOOLEAN :
               /\ pty' = Append(pty, [job |-> w.job, part |-> "enter", ok |-> ok,
                                      late |-> ~Permitted(w.job)])
               /\ w' = IF ok THEN [w EXCEPT !.pc = "finish"]
                       ELSE [w EXCEPT !.pc = "finish", !.result = "unknown"]
    BY <1>3, <2>1
  <2>4. /\ w.job # 0 /\ w.result = "ok" /\ JobOf(w.job).enter
        /\ w.open = JobOf(w.job).bracketed /\ w.next = JobOf(w.job).chunks + 1
    BY <1>0, <2>1 DEF Held, Hand, Progress, Ending
  <2>5. CASE ok
    <3>1. w' = [w EXCEPT !.pc = "finish"]
      BY <2>3, <2>5
    <3>2. /\ w'.pc = "finish" /\ w'.open = w.open /\ w'.next = w.next /\ w'.result = "ok"
          /\ w'.job = w.job /\ w'.urgent = w.urgent /\ w' \in WriterValue
      BY <1>1, <2>4, <3>1 DEF WriterValue, Pc
    <3>3. Progress'
      BY <1>4, <2>2, <2>4, <3>2 DEF Progress, Started, Ending
    <3>4. SoFar = 2 * Delimiters(w.job) + JobOf(w.job).chunks /\ SoFar' = Parts(w.job)
      BY <1>4, <2>1, <2>2, <3>2 DEF SoFar
    <3>5. SoFar' = SoFar + 1
      BY <1>2, <2>4, <3>4 DEF Parts
    <3>6. PartAt(w.job, SoFar + 1) = "enter"
      <4>1. /\ ~(SoFar + 1 <= Delimiters(w.job)) /\ ~(SoFar + 1 <= Delimiters(w.job) + JobOf(w.job).chunks)
            /\ ~(SoFar + 1 <= 2 * Delimiters(w.job) + JobOf(w.job).chunks)
        BY <1>2, <2>4, <3>4
      <4> QED
        BY <4>1 DEF PartAt
    <3> QED
      BY <2>1, <2>2, <2>3, <2>4, <2>5, <3>2, <3>3, <3>5, <3>6, WriteStep
         DEF Part, Started, Cleared, Ending, Inside
  <2>6. CASE ~ok
    <3>1. w' = [w EXCEPT !.pc = "finish", !.result = "unknown"]
      BY <2>3, <2>6
    <3>2. /\ w'.pc = "finish" /\ w'.result = "unknown" /\ w'.job = w.job /\ w'.open = w.open
          /\ w'.urgent = w.urgent /\ w' \in WriterValue
      BY <1>1, <3>1 DEF WriterValue, Pc
    <3>3. Progress'
      BY <3>2 DEF Progress, Started, Ending
    <3> QED
      BY <2>1, <2>2, <2>3, <2>4, <2>6, <3>2, <3>3, WriteStep
         DEF Part, Started, Cleared, Ending, Inside
  <2> QED
    BY <2>5, <2>6
<1> QED
  BY <1>5, <1>6, <1>7, <1>8

\* An answer to a terminal query.
LEMMA AnswerQueryStep ==
  ASSUME IInv, AnswerQuery
  PROVE  IInv'
<1> DEFINE N == Len(pty)
           e == [job |-> 0, part |-> "query", ok |-> TRUE, late |-> FALSE]
<1>0. /\ WriterTypeOK /\ LedgerShape /\ Issued /\ Queued /\ Held /\ Somewhere /\ Progress /\ Ahead
      /\ Behind /\ Unwritten /\ Late /\ Closing /\ Counted /\ Rejections
      /\ InterruptBarrier /\ AtMostOneLateWrite
  BY DEF IInv, Placed, History, Shown
<1>1. /\ w.pc = "low" /\ w' = ResetWriter("stop") /\ queries > 0 /\ queries' = queries - 1
      /\ pty' = pty \/ pty' = Append(pty, e)
      /\ UNCHANGED <<lease, ledger, accepted, who, reply, normal, interrupt, stop, running,
                     gone, ender, valid, request>>
  BY DEF AnswerQuery, inputVars, queueVars, sessionVars
<1>2. w.job = 0 /\ w.urgent = 0 /\ w.pc \notin Hand
  BY <1>0, <1>1 DEF Held, Hand
<1>3. Len(accepted) \in Nat /\ N \in Nat /\ queries' \in 0..QueryCap
  BY <1>0, <1>1, WriterFacts, Bounds DEF WriterTypeOK
<1>4. /\ w'.pc = "stop" /\ w'.job = 0 /\ w'.urgent = 0 /\ w'.next = 1 /\ ~w'.open /\ w'.result = "ok"
      /\ w' \in WriterValue
  <2>1. 0 \in 0..Len(accepted) /\ 1 \in 1..MaxPaste + 1
    BY <1>3, Bounds
  <2> QED
    BY <1>1, <2>1 DEF ResetWriter, WriterValue, Pc
<1>5. /\ Job' = Job /\ \A n \in Job : n # 0
      /\ \A n : /\ JobOf(n)' = JobOf(n) /\ Pending(n)' = Pending(n)
                /\ Parts(n)' = Parts(n) /\ Once(n)' = Once(n) /\ RejectedFor(n)' = RejectedFor(n)
  BY <1>1 DEF Job, JobOf, Pending, Parts, Delimiters, Once, RejectedFor
<1>6. Placed'
  <2>1. Progress'
    BY <1>4 DEF Progress, Started, Ending
  <2> QED
    BY <1>1, <1>2, <1>4, <2>1, StayPlaced DEF Hand, Ending
<1>7. LedgerShape' /\ Issued'
  BY <1>0, <1>1, <1>5 DEF LedgerShape, Issued
<1>8. /\ pty' \in Seq([job : 0..Len(accepted), part : Part, ok : BOOLEAN, late : BOOLEAN])
      /\ \A n : n # 0 => Writes(n)' = Writes(n) /\ Good(n)' = Good(n) /\ InOrder(n)' = InOrder(n)
      /\ \A i \in 1..N : pty'[i] = pty[i]
      /\ \A i \in 1..Len(pty') : i \in 1..N \/ (pty'[i].job = 0 /\ pty'[i].part = "query")
      /\ Len(pty') \in Nat /\ Len(pty') >= N
  <2>1. CASE pty' = pty
    <3>1. \A n : Writes(n)' = Writes(n) /\ Good(n)' = Good(n)
      BY <2>1 DEF Good, Writes
    <3>2. \A n : InOrder(n)' = InOrder(n)
      BY <1>1, <2>1, <3>1 DEF InOrder, Rank, PartAt, Delimiters, JobOf
    <3> QED
      BY <1>0, <1>3, <2>1, <3>1, <3>2 DEF WriterTypeOK
  <2>2. CASE pty' = Append(pty, e)
    <3>1. e \in [job : 0..Len(accepted), part : Part, ok : BOOLEAN, late : BOOLEAN]
      BY <1>3 DEF Part
    <3>2. e.job = 0 /\ e.part = "query" /\ UNCHANGED accepted
      BY <1>1
    <3> HIDE DEF e
    <3>3. /\ pty' \in Seq([job : 0..Len(accepted), part : Part, ok : BOOLEAN, late : BOOLEAN])
          /\ Len(pty') = N + 1 /\ pty'[N + 1] = e
          /\ \A i \in 1..Len(pty) : pty'[i] = pty[i]
          /\ \A n : n # 0 => Writes(n)' = Writes(n) /\ Good(n)' = Good(n) /\ InOrder(n)' = InOrder(n)
      BY <1>0, <2>2, <3>1, <3>2, Appended
    <3>4. \A i \in 1..Len(pty') : i \in 1..N \/ i = N + 1
      BY <1>3, <3>3
    <3>5. Len(pty') \in Nat /\ Len(pty') >= N
      BY <1>3, <3>3
    <3> QED
      BY <3>2, <3>3, <3>4, <3>5
  <2> QED
    BY <1>1, <2>1, <2>2
<1> HIDE DEF e
<1>9. WriterTypeOK'
  BY <1>0, <1>1, <1>3, <1>4, <1>5, <1>8 DEF WriterTypeOK, WriterValue
<1>10. Behind'
  <2> SUFFICES ASSUME NEW i \in 1..Len(pty'), NEW m \in Job, Pending(m), pty'[i].job > m
               PROVE  JobOf(m).priority /\ ~JobOf(pty'[i].job).priority
    BY <1>5 DEF Behind
  <2>1. CASE i \in 1..N
    BY <1>0, <1>8, <2>1 DEF Behind
  <2>2. CASE pty'[i].job = 0
    BY <2>2 DEF Job
  <2> QED
    BY <1>8, <2>1, <2>2
<1>11. InterruptBarrier'
  <2> SUFFICES ASSUME NEW i \in 1..Len(pty'), NEW j \in 1..Len(pty'), i < j,
                      pty'[i].job > pty'[j].job, pty'[j].job # 0
               PROVE  JobOf(pty'[j].job).priority /\ ~JobOf(pty'[i].job).priority
    BY <1>5 DEF InterruptBarrier
  <2>1. j \in 1..N
    BY <1>8
  <2>2. i \in 1..N
    BY <1>3, <2>1
  <2> QED
    BY <1>0, <1>8, <2>1, <2>2 DEF InterruptBarrier
<1>12. AtMostOneLateWrite'
  <2> SUFFICES ASSUME NEW n \in Job, NEW i \in Writes(n), NEW j \in Writes(n), i < j, pty'[i].late
               PROVE  pty'[j].part = "close"
    BY <1>5, <1>8 DEF AtMostOneLateWrite
  <2>1. i \in 1..N /\ j \in 1..N
    BY DEF Writes
  <2> QED
    BY <1>0, <1>8, <2>1 DEF AtMostOneLateWrite
<1>13. Unwritten'
  <2> SUFFICES ASSUME NEW i \in 1..Len(pty'), pty'[i].job # 0
               PROVE  reply[pty'[i].job] \notin {"pending", "rejected"}
    BY <1>1 DEF Unwritten
  <2>1. i \in 1..N
    BY <1>8
  <2> QED
    BY <1>0, <1>2, <1>8, <2>1 DEF Unwritten
<1>14. Late'
  BY <1>4 DEF Late
<1>15. Closing'
  <2> SUFFICES ASSUME NEW i \in 1..Len(pty'), pty'[i].part = "open", pty'[i].ok
               PROVE  \E m \in i..Len(pty') : /\ pty'[m].part = "close"
                                              /\ \A j \in i..m : pty'[j].job = pty'[i].job
    BY DEF Closing
  <2>1. i \in 1..N /\ pty'[i] = pty[i]
    BY <1>8
  <2>2. PICK m \in i..N : pty[m].part = "close" /\ \A j \in i..m : pty[j].job = pty[i].job
    BY <1>0, <1>2, <2>1 DEF Closing
  <2>3. m \in 1..N /\ \A j \in i..m : j \in 1..N
    BY <1>3, <2>1, From
  <2>4. m \in i..Len(pty')
    BY <1>3, <1>8, <2>1
  <2>5. pty'[m].part = "close" /\ \A j \in i..m : pty'[j].job = pty'[i].job
    BY <1>8, <2>1, <2>2, <2>3
  <2> QED
    BY <2>4, <2>5
<1>16. Counted'
  BY <1>0, <1>1, <1>4, <1>5, <1>8 DEF Counted
<1>17. Rejections'
  BY <1>0, <1>5, <1>8 DEF Rejections
<1> QED
  BY <1>6, <1>7, <1>9, <1>10, <1>11, <1>12, <1>13, <1>14, <1>15, <1>16, <1>17
  DEF IInv, History, Shown

-----------------------------------------------------------------------------
\* A sequence over a set is one over a larger set.
LEMMA SeqMono ==
  ASSUME NEW S, NEW T, S \subseteq T, NEW s \in Seq(S)
  PROVE  s \in Seq(T)
OBVIOUS

\* A sequence with or without one more element.
LEMMA Pushes ==
  ASSUME NEW S, NEW s \in Seq(S), NEW n \in S
  PROVE  /\ s \o << >> = s
         /\ s \o <<n>> \in Seq(S) /\ Len(s \o <<n>>) = Len(s) + 1 /\ (s \o <<n>>)[Len(s) + 1] = n
         /\ \A i \in 1..Len(s) : (s \o <<n>>)[i] = s[i]
OBVIOUS

\* What a handler's critical section does: one more job, its answer, and the
\* ledger's record of it.
LEMMA EnqueueFacts ==
  ASSUME IInv, NEW h \in Handler, Enqueue(h), NEW n, n = Len(accepted) + 1
  PROVE  /\ n \in Nat /\ Len(accepted) \in Nat /\ Len(accepted') = n /\ Job' = Job \cup {n} /\ n \notin Job
         /\ accepted' \in Seq(IS!InputRecord)
         /\ \A m \in Job : /\ m < n /\ accepted'[m] = accepted[m] /\ JobOf(m)' = JobOf(m)
                           /\ reply'[m] = reply[m] /\ who'[m] = who[m]
         /\ accepted'[n].lease <= lease.epoch /\ JobOf(n)'.chunks \in 1..MaxPaste
         /\ who' \in Seq(Principal) /\ reply' \in Seq(Outcome) /\ Len(who') = n /\ Len(reply') = n
         /\ request' \in [Handler -> Request \cup {Idle}]
         /\ LedgerShape'
         /\ \A i : (/\ i # accepted'[n].id /\ i \in DOMAIN ledger'.outcomes
                    /\ ledger'.outcomes[i] = "rejected")
                   => i \in DOMAIN ledger.outcomes /\ ledger.outcomes[i] = "rejected"
         /\ reply'[n] \in {"pending", "rejected"}
         /\ RejectedFor(n)' => reply'[n] = "rejected"
         /\ \/ normal' = normal /\ interrupt' = interrupt /\ reply'[n] = "rejected"
            \/ /\ normal' = normal \o <<n>> /\ interrupt' = interrupt /\ Len(normal) < NormalCap
               /\ ~JobOf(n)'.priority /\ reply'[n] = "pending"
            \/ /\ normal' = normal /\ interrupt' = interrupt \o <<n>> /\ Len(interrupt) < InterruptCap
               /\ JobOf(n)'.priority /\ reply'[n] = "pending"
         /\ UNCHANGED <<lease, queries, w, pty, stop, running, gone, ender, valid>>
<1> DEFINE p    == Handles[h].principal
           k    == Handles[h].connection
           id   == request[h].id
           e    == request[h].epoch
           room == HasRoom(id)
           st   == IF room THEN "accepted" ELSE "rejected"
           a    == IF room THEN "pending" ELSE "rejected"
           q    == IF room THEN <<n>> ELSE << >>
           max  == IF Shape[id].bulk THEN MaxPaste ELSE MaxInput
           rec  == [client |-> ClientOf[p], connection |-> k, lease |-> e, id |-> id,
                    seq |-> Shape[id].seq]
<1>0. WriterTypeOK /\ LedgerShape
  BY DEF IInv
<1>1. /\ request[h] # Idle /\ IS!Accept(ClientOf[p], k, e, id, Shape[id].seq, Shape[id].chunks, max, st)
      /\ who' = Append(who, p) /\ reply' = Append(reply, a)
      /\ IF Shape[id].priority THEN interrupt' = interrupt \o q /\ normal' = normal
                               ELSE normal' = normal \o q /\ interrupt' = interrupt
      /\ request' = [request EXCEPT ![h] = Idle]
      /\ UNCHANGED <<queries, w, pty, stop, running, gone, ender, valid>>
  BY DEF Enqueue, sessionVars
<1>2. id \in InputId /\ e \in IS!Epoch
  BY <1>0, <1>1 DEF WriterTypeOK, Request
<1>3. p \in Principal /\ k \in Connection /\ ClientOf[p] \in Client
  BY WriterAssumption
<1>4. /\ Shape[id].chunks \in Nat /\ Shape[id].bulk \in BOOLEAN /\ Shape[id].priority \in BOOLEAN
  BY <1>2, Shapes
<1>5. /\ lease.epoch = e /\ lease' = lease /\ Shape[id].chunks \in 1..max /\ Shape[id].seq \in 1..MaxSeq
      /\ ledger' = Accepted(ledger, k, e, id, Shape[id].seq, st)
      /\ accepted' = Append(accepted, rec)
  BY <1>1 DEF IS!Accept, IS!Verify, IS!WithinBounds, IS!Accepted, Accepted, IS!Pushed, Pushed,
              IS!Remembered, Remembered
<1>6. rec \in IS!InputRecord
  BY <1>2, <1>3, <1>5 DEF IS!InputRecord
<1>7. /\ accepted \in Seq(IS!InputRecord) /\ who \in Seq(Principal) /\ reply \in Seq(Outcome)
      /\ Len(who) = Len(accepted) /\ Len(reply) = Len(accepted) /\ Len(accepted) \in Nat
  BY <1>0 DEF WriterTypeOK
<1>8. n \in Nat /\ n \notin Job /\ \A m \in Job : m \in 1..Len(accepted) /\ m < n
  BY <1>7 DEF Job
<1>9. a \in Outcome
  BY DEF Outcome
<1> HIDE DEF p, k, id, e, room, rec
<1>10. /\ accepted' \in Seq(IS!InputRecord) /\ Len(accepted') = n /\ accepted'[n] = rec
       /\ \A m \in Job : accepted'[m] = accepted[m]
  BY <1>5, <1>6, <1>7, <1>8
<1>11. /\ who' \in Seq(Principal) /\ Len(who') = n /\ \A m \in Job : who'[m] = who[m]
  BY <1>1, <1>3, <1>7, <1>8
<1>12. /\ reply' \in Seq(Outcome) /\ Len(reply') = n /\ reply'[n] = a /\ \A m \in Job : reply'[m] = reply[m]
  BY <1>1, <1>7, <1>8, <1>9
<1>13. Job' = Job \cup {n}
  BY <1>7, <1>10 DEF Job
<1>14. rec.id = id /\ rec.lease = e
  BY DEF rec
<1>15. JobOf(n)' = Shape[id] /\ \A m \in Job : JobOf(m)' = JobOf(m)
  BY <1>10, <1>14 DEF JobOf
<1>16. Shape[id].chunks \in 1..MaxPaste
  <2>1. max \in Nat /\ max <= MaxPaste /\ MaxPaste \in Nat
    BY Bounds
  <2> QED
    BY <1>5, <2>1
<1>17. lease.epoch \in Nat /\ accepted'[n].lease <= lease.epoch
  <2>1. lease \in LeaseValue
    BY <1>0 DEF WriterTypeOK
  <2>2. lease.epoch \in Nat
    BY <2>1, LeaseFacts
  <2> QED
    BY <1>5, <1>10, <1>14, <2>2
<1>18. request' \in [Handler -> Request \cup {Idle}]
  BY <1>0, <1>1 DEF WriterTypeOK
<1>19. ledger'.outcomes = [i \in Remembered(ledger, id) |-> IF i = id THEN st ELSE ledger.outcomes[i]]
  BY <1>5 DEF Accepted
<1>20. LedgerShape'
  <2>1. ledger' = [highest |-> ledger'.highest, ids |-> ledger'.ids, outcomes |-> ledger'.outcomes]
    BY <1>5 DEF Accepted
  <2> QED
    BY <1>19, <2>1 DEF LedgerShape
<1>21. \A i : (/\ i # accepted'[n].id /\ i \in DOMAIN ledger'.outcomes
               /\ ledger'.outcomes[i] = "rejected")
              => i \in DOMAIN ledger.outcomes /\ ledger.outcomes[i] = "rejected"
  BY <1>10, <1>14, <1>19 DEF Remembered
<1>22. id \in Remembered(ledger, id)
  BY DEF Remembered
<1>23. RejectedFor(n)' => st = "rejected"
  BY <1>10, <1>14, <1>19, <1>22 DEF RejectedFor
<1>24. normal \in Seq(Job) /\ interrupt \in Seq(Job)
  BY <1>0 DEF WriterTypeOK
<1>25. /\ \/ normal' = normal /\ interrupt' = interrupt /\ reply'[n] = "rejected"
          \/ /\ normal' = normal \o <<n>> /\ interrupt' = interrupt /\ Len(normal) < NormalCap
             /\ ~JobOf(n)'.priority /\ reply'[n] = "pending"
          \/ /\ normal' = normal /\ interrupt' = interrupt \o <<n>> /\ Len(interrupt) < InterruptCap
             /\ JobOf(n)'.priority /\ reply'[n] = "pending"
  <2>1. CASE room
    <3>1. reply'[n] = "pending"
      BY <1>12, <2>1
    <3> QED
      BY <1>1, <1>4, <1>15, <2>1, <3>1 DEF room, HasRoom
  <2>2. CASE ~room
    <3>1. normal \o << >> = normal /\ interrupt \o << >> = interrupt
      BY <1>24
    <3> QED
      BY <1>1, <1>12, <2>2, <3>1
  <2> QED
    BY <2>1, <2>2
<1>26. RejectedFor(n)' => reply'[n] = "rejected"
  BY <1>12, <1>23
<1>27. reply'[n] \in {"pending", "rejected"}
  BY <1>12
<1> QED
  BY <1>1, <1>5, <1>7, <1>8, <1>10, <1>11, <1>12, <1>13, <1>15, <1>16, <1>17, <1>18, <1>20, <1>21,
     <1>25, <1>26, <1>27

\* A handler enqueues its input, or finds the queue full.
LEMMA EnqueueStep ==
  ASSUME IInv, NEW h \in Handler, Enqueue(h)
  PROVE  IInv'
<1>00. PICK n : n = Len(accepted) + 1
  OBVIOUS
<1>0. /\ WriterTypeOK /\ LedgerShape /\ Issued /\ Queued /\ Held /\ Somewhere /\ Progress /\ Ahead
      /\ Behind /\ Unwritten /\ Late /\ Closing /\ Counted /\ Rejections
      /\ InterruptBarrier /\ AtMostOneLateWrite
  BY DEF IInv, Placed, History, Shown
<1>1. /\ n \in Nat /\ Len(accepted) \in Nat /\ Len(accepted') = n /\ Job' = Job \cup {n} /\ n \notin Job
      /\ accepted' \in Seq(IS!InputRecord)
      /\ \A m \in Job : /\ m < n /\ accepted'[m] = accepted[m] /\ JobOf(m)' = JobOf(m)
                        /\ reply'[m] = reply[m] /\ who'[m] = who[m]
      /\ accepted'[n].lease <= lease.epoch /\ JobOf(n)'.chunks \in 1..MaxPaste
      /\ who' \in Seq(Principal) /\ reply' \in Seq(Outcome) /\ Len(who') = n /\ Len(reply') = n
      /\ request' \in [Handler -> Request \cup {Idle}]
      /\ LedgerShape'
  BY <1>00, EnqueueFacts
<1>2. /\ \A i : (/\ i # accepted'[n].id /\ i \in DOMAIN ledger'.outcomes
                 /\ ledger'.outcomes[i] = "rejected")
                => i \in DOMAIN ledger.outcomes /\ ledger.outcomes[i] = "rejected"
      /\ reply'[n] \in {"pending", "rejected"}
      /\ RejectedFor(n)' => reply'[n] = "rejected"
  BY <1>00, EnqueueFacts
<1>3. \/ normal' = normal /\ interrupt' = interrupt /\ reply'[n] = "rejected"
      \/ /\ normal' = normal \o <<n>> /\ interrupt' = interrupt /\ Len(normal) < NormalCap
         /\ ~JobOf(n)'.priority /\ reply'[n] = "pending"
      \/ /\ normal' = normal /\ interrupt' = interrupt \o <<n>> /\ Len(interrupt) < InterruptCap
         /\ JobOf(n)'.priority /\ reply'[n] = "pending"
  BY <1>00, EnqueueFacts
<1>4. UNCHANGED <<lease, queries, w, pty, stop, running, gone, ender, valid>>
  BY <1>00, EnqueueFacts
<1>5. /\ w.job \in Nat /\ w.job < n /\ (w.job # 0 => w.job \in Job)
      /\ w.urgent \in Nat /\ w.urgent < n /\ (w.urgent # 0 => w.urgent \in Job)
  BY <1>00, <1>0, <1>1, WriterFacts
<1>6. \A i \in 1..Len(pty) : /\ pty[i].job \in Nat /\ pty[i].job < n
                             /\ (pty[i].job # 0 => pty[i].job \in Job)
  BY <1>00, <1>0, <1>1, QueueFacts
<1>7. \A i \in 1..Len(pty), m \in Job : pty[i].job > m => pty[i].job \in Job
  BY <1>6 DEF Job
<1>8. normal \in Seq(Job) /\ interrupt \in Seq(Job) /\ Len(normal) \in Nat /\ Len(interrupt) \in Nat
  BY <1>0 DEF WriterTypeOK
<1>9. normal \in Seq(Job') /\ interrupt \in Seq(Job') /\ n \in Job'
  BY <1>1, <1>8, SeqMono
<1>10. normal' = normal \/ (/\ normal' \in Seq(Job') /\ Len(normal') = Len(normal) + 1
                            /\ normal'[Len(normal) + 1] = n
                            /\ \A i \in 1..Len(normal) : normal'[i] = normal[i]
                            /\ Len(normal) < NormalCap /\ ~JobOf(n)'.priority
                            /\ reply'[n] = "pending" /\ interrupt' = interrupt)
  <2>1. CASE normal' = normal \o <<n>> /\ interrupt' = interrupt /\ Len(normal) < NormalCap
             /\ ~JobOf(n)'.priority /\ reply'[n] = "pending"
    BY <1>9, <2>1, Pushes
  <2> QED
    BY <1>3, <2>1
<1>11. interrupt' = interrupt \/ (/\ interrupt' \in Seq(Job') /\ Len(interrupt') = Len(interrupt) + 1
                                  /\ interrupt'[Len(interrupt) + 1] = n
                                  /\ \A i \in 1..Len(interrupt) : interrupt'[i] = interrupt[i]
                                  /\ Len(interrupt) < InterruptCap /\ JobOf(n)'.priority
                                  /\ reply'[n] = "pending" /\ normal' = normal)
  <2>1. CASE normal' = normal /\ interrupt' = interrupt \o <<n>> /\ Len(interrupt) < InterruptCap
             /\ JobOf(n)'.priority /\ reply'[n] = "pending"
    BY <1>9, <2>1, Pushes
  <2> QED
    BY <1>3, <2>1
<1>12. /\ normal' \in Seq(Job') /\ Len(normal') \in Nat /\ Len(normal') <= NormalCap
       /\ \A i \in 1..Len(normal') : \/ i \in 1..Len(normal) /\ normal'[i] = normal[i]
                                     \/ /\ i = Len(normal) + 1 /\ normal'[i] = n
                                        /\ ~JobOf(n)'.priority /\ reply'[n] = "pending"
       /\ \A i \in 1..Len(normal) : i \in 1..Len(normal') /\ normal'[i] = normal[i]
  <2>1. CASE normal' = normal
    BY <1>0, <1>8, <1>9, <2>1 DEF WriterTypeOK
  <2>2. CASE /\ normal' \in Seq(Job') /\ Len(normal') = Len(normal) + 1
             /\ normal'[Len(normal) + 1] = n
             /\ \A i \in 1..Len(normal) : normal'[i] = normal[i]
             /\ Len(normal) < NormalCap /\ ~JobOf(n)'.priority /\ reply'[n] = "pending"
    BY <1>8, <2>2, Bounds
  <2> QED
    BY <1>10, <2>1, <2>2
<1>13. /\ interrupt' \in Seq(Job') /\ Len(interrupt') \in Nat /\ Len(interrupt') <= InterruptCap
       /\ \A i \in 1..Len(interrupt') : \/ i \in 1..Len(interrupt) /\ interrupt'[i] = interrupt[i]
                                        \/ /\ i = Len(interrupt) + 1 /\ interrupt'[i] = n
                                           /\ JobOf(n)'.priority /\ reply'[n] = "pending"
       /\ \A i \in 1..Len(interrupt) : i \in 1..Len(interrupt') /\ interrupt'[i] = interrupt[i]
  <2>1. CASE interrupt' = interrupt
    BY <1>0, <1>8, <1>9, <2>1 DEF WriterTypeOK
  <2>2. CASE /\ interrupt' \in Seq(Job') /\ Len(interrupt') = Len(interrupt) + 1
             /\ interrupt'[Len(interrupt) + 1] = n
             /\ \A i \in 1..Len(interrupt) : interrupt'[i] = interrupt[i]
             /\ Len(interrupt) < InterruptCap /\ JobOf(n)'.priority /\ reply'[n] = "pending"
    BY <1>8, <2>2, Bounds
  <2> QED
    BY <1>11, <2>1, <2>2
<1>14. reply'[n] = "pending" => \/ \E i \in 1..Len(normal') : normal'[i] = n
                                \/ \E i \in 1..Len(interrupt') : interrupt'[i] = n
  <2>1. CASE normal' = normal /\ interrupt' = interrupt /\ reply'[n] = "rejected"
    BY <2>1
  <2>2. CASE normal' = normal \o <<n>>
    <3>1. Len(normal') = Len(normal) + 1 /\ normal'[Len(normal) + 1] = n
      BY <1>9, <2>2, Pushes
    <3> QED
      BY <1>8, <3>1
  <2>3. CASE interrupt' = interrupt \o <<n>>
    <3>1. Len(interrupt') = Len(interrupt) + 1 /\ interrupt'[Len(interrupt) + 1] = n
      BY <1>9, <2>3, Pushes
    <3> QED
      BY <1>8, <3>1
  <2> QED
    BY <1>3, <2>1, <2>2, <2>3
<1>15. /\ \A i \in 1..Len(normal) : normal[i] \in Job
       /\ \A i \in 1..Len(interrupt) : interrupt[i] \in Job
  BY <1>8
<1>16. WriterTypeOK'
  <2>1. w' \in [pc : Pc, job : 0..Len(accepted'), next : 1..MaxPaste + 1, open : BOOLEAN,
                urgent : 0..Len(accepted'), result : {"ok", "canceled", "refused", "unknown"}]
    <3>1. w.job \in 0..Len(accepted') /\ w.urgent \in 0..Len(accepted')
      BY <1>1, <1>5
    <3> QED
      BY <1>0, <1>4, <3>1 DEF WriterTypeOK
  <2>2. pty' \in Seq([job : 0..Len(accepted'), part : Part, ok : BOOLEAN, late : BOOLEAN])
    <3>1. 0..Len(accepted) \subseteq 0..Len(accepted')
      BY <1>1, <1>00
    <3>2. [job : 0..Len(accepted), part : Part, ok : BOOLEAN, late : BOOLEAN]
          \subseteq [job : 0..Len(accepted'), part : Part, ok : BOOLEAN, late : BOOLEAN]
      BY <3>1
    <3>3. pty \in Seq([job : 0..Len(accepted), part : Part, ok : BOOLEAN, late : BOOLEAN])
      BY <1>0 DEF WriterTypeOK
    <3> QED
      BY <1>4, <3>2, <3>3, SeqMono
  <2>3. lease' \in LeaseValue /\ {stop', running', gone'} \subseteq BOOLEAN /\ queries' \in 0..QueryCap
        /\ ender' \in [Ender -> {"idle", "revoking", "signalling", "done"}] /\ valid' \subseteq Principal
    BY <1>0, <1>4 DEF WriterTypeOK
  <2> QED
    BY <1>1, <1>12, <1>13, <2>1, <2>2, <2>3 DEF WriterTypeOK
<1>17. Issued'
  BY <1>0, <1>1, <1>4 DEF Issued
<1>18. Queued'
  <2>1. \A i, j \in 1..Len(normal') : i < j => normal'[i] < normal'[j]
    <3> SUFFICES ASSUME NEW i \in 1..Len(normal'), NEW j \in 1..Len(normal'), i < j
                 PROVE  normal'[i] < normal'[j]
      OBVIOUS
    <3>1. i \in 1..Len(normal) /\ normal'[i] = normal[i] /\ normal[i] < n
      <4>1. i # Len(normal) + 1
        BY <1>8, <1>12
      <4> QED
        BY <1>1, <1>12, <1>15, <4>1
    <3> QED
      BY <1>0, <1>12, <3>1 DEF Queued
  <2>2. \A i, j \in 1..Len(interrupt') : i < j => interrupt'[i] < interrupt'[j]
    <3> SUFFICES ASSUME NEW i \in 1..Len(interrupt'), NEW j \in 1..Len(interrupt'), i < j
                 PROVE  interrupt'[i] < interrupt'[j]
      OBVIOUS
    <3>1. i \in 1..Len(interrupt) /\ interrupt'[i] = interrupt[i] /\ interrupt[i] < n
      <4>1. i # Len(interrupt) + 1
        BY <1>8, <1>13
      <4> QED
        BY <1>1, <1>13, <1>15, <4>1
    <3> QED
      BY <1>0, <1>13, <3>1 DEF Queued
  <2>3. n \notin {w.job, w.urgent}
    BY <1>1, <1>5
  <2>4. ASSUME NEW i \in 1..Len(normal')
        PROVE  /\ reply'[normal'[i]] = "pending" /\ ~Shape[accepted'[normal'[i]].id].priority
               /\ normal'[i] \notin {w.job, w.urgent}
    <3>1. CASE i \in 1..Len(normal) /\ normal'[i] = normal[i]
      <4>1. Pending(normal[i]) /\ ~JobOf(normal[i]).priority /\ normal[i] \notin {w.job, w.urgent}
        BY <1>0, <3>1 DEF Queued
      <4> QED
        BY <1>1, <1>15, <3>1, <4>1 DEF Pending, JobOf
    <3>2. CASE normal'[i] = n /\ ~JobOf(n)'.priority /\ reply'[n] = "pending"
      BY <2>3, <3>2 DEF JobOf
    <3> QED
      BY <1>12, <3>1, <3>2
  <2>5. ASSUME NEW i \in 1..Len(interrupt')
        PROVE  /\ reply'[interrupt'[i]] = "pending" /\ Shape[accepted'[interrupt'[i]].id].priority
               /\ interrupt'[i] \notin {w.job, w.urgent}
    <3>1. CASE i \in 1..Len(interrupt) /\ interrupt'[i] = interrupt[i]
      <4>1. Pending(interrupt[i]) /\ JobOf(interrupt[i]).priority /\ interrupt[i] \notin {w.job, w.urgent}
        BY <1>0, <3>1 DEF Queued
      <4> QED
        BY <1>1, <1>15, <3>1, <4>1 DEF Pending, JobOf
    <3>2. CASE interrupt'[i] = n /\ JobOf(n)'.priority /\ reply'[n] = "pending"
      BY <2>3, <3>2 DEF JobOf
    <3> QED
      BY <1>13, <3>1, <3>2
  <2> QED
    BY <1>4, <2>1, <2>2, <2>4, <2>5 DEF Queued, Pending, JobOf
<1>19. Held'
  <2>1. w.job # 0 => reply'[w.job] = reply[w.job] /\ JobOf(w.job)' = JobOf(w.job)
    BY <1>1, <1>4, <1>5
  <2>2. w.urgent # 0 => reply'[w.urgent] = reply[w.urgent] /\ JobOf(w.urgent)' = JobOf(w.urgent)
    BY <1>1, <1>4, <1>5
  <2>3. w.pc = "cancel" => w.job # 0
    BY <1>0 DEF Held, Hand
  <2> QED
    BY <1>0, <1>4, <2>1, <2>2, <2>3 DEF Held, Pending
<1>20. Progress'
  <2>1. w.pc \in Started \cup {"prefix"} => w.job \in Job
    BY <1>0, <1>5 DEF Held, Hand, Started
  <2>2. w.pc \in Started \cup {"prefix"} => JobOf(w.job)' = JobOf(w.job)
    BY <1>1, <1>4, <2>1
  <2> QED
    BY <1>0, <1>4, <2>2 DEF Progress, Started, Ending
<1>21. Somewhere'
  <2> SUFFICES ASSUME NEW m \in Job', reply'[m] = "pending"
               PROVE  \/ \E i \in 1..Len(normal') : normal'[i] = m
                      \/ \E i \in 1..Len(interrupt') : interrupt'[i] = m
                      \/ m \in {w.job, w.urgent}
    BY <1>4 DEF Somewhere, Pending
  <2>1. CASE m = n
    BY <1>14, <2>1
  <2>2. CASE m \in Job
    <3>1. \/ \E i \in 1..Len(normal) : normal[i] = m
          \/ \E i \in 1..Len(interrupt) : interrupt[i] = m
          \/ m \in {w.job, w.urgent}
      BY <1>0, <1>1, <2>2 DEF Somewhere, Pending
    <3> QED
      BY <1>12, <1>13, <3>1
  <2> QED
    BY <1>1, <2>1, <2>2
<1>22. Ahead'
  <2>1. ASSUME w.pc \in Hand \ {"cancel"}, NEW i \in 1..Len(normal') PROVE normal'[i] > w.job
    BY <1>0, <1>1, <1>5, <1>12, <2>1 DEF Ahead
  <2>2. ASSUME w.job # 0, JobOf(w.job).priority, NEW i \in 1..Len(interrupt') PROVE interrupt'[i] > w.job
    BY <1>0, <1>1, <1>5, <1>13, <2>2 DEF Ahead
  <2>3. ASSUME w.urgent # 0, NEW i \in 1..Len(interrupt') PROVE interrupt'[i] > w.urgent
    BY <1>0, <1>1, <1>5, <1>13, <2>3 DEF Ahead
  <2>4. (w.job # 0 /\ JobOf(w.job).priority) => (w.urgent # 0 => w.urgent >= w.job)
    BY <1>0 DEF Ahead
  <2>5. w.job # 0 => JobOf(w.job)' = JobOf(w.job)
    BY <1>1, <1>4, <1>5
  <2> QED
    BY <1>4, <2>1, <2>2, <2>3, <2>4, <2>5 DEF Ahead
<1>23. Behind'
  <2> SUFFICES ASSUME NEW i \in 1..Len(pty), NEW m \in Job', reply'[m] = "pending", pty[i].job > m
               PROVE  JobOf(m)'.priority /\ ~JobOf(pty[i].job)'.priority
    BY <1>4 DEF Behind, Pending
  <2>1. m \in Job
    BY <1>1, <1>6
  <2>2. pty[i].job \in Job
    BY <1>7, <2>1
  <2>3. JobOf(m).priority /\ ~JobOf(pty[i].job).priority
    BY <1>0, <1>1, <2>1 DEF Behind, Pending
  <2> QED
    BY <1>1, <1>4, <2>1, <2>2, <2>3
<1>24. Unwritten'
  BY <1>0, <1>1, <1>4, <1>6 DEF Unwritten
<1>25. Late'
  <2>1. ASSUME w.job # 0 PROVE Permitted(w.job)' = Permitted(w.job)
    <3>1. w.job \in Job
      BY <1>5, <2>1
    <3>2. accepted'[w.job] = accepted[w.job] /\ who'[w.job] = who[w.job]
      BY <1>1, <3>1
    <3> QED
      BY <1>4, <3>2 DEF Permitted
  <2> QED
    BY <1>0, <1>4, <2>1 DEF Late
<1>26. Closing'
  BY <1>0, <1>4 DEF Closing
<1>27. \A m \in Job : /\ Writes(m)' = Writes(m) /\ Good(m)' = Good(m) /\ Parts(m)' = Parts(m)
                      /\ Delimiters(m)' = Delimiters(m) /\ InOrder(m)' = InOrder(m)
  <2> SUFFICES ASSUME NEW m \in Job
               PROVE  /\ Writes(m)' = Writes(m) /\ Good(m)' = Good(m) /\ Parts(m)' = Parts(m)
                      /\ Delimiters(m)' = Delimiters(m) /\ InOrder(m)' = InOrder(m)
    OBVIOUS
  <2>1. Writes(m)' = Writes(m) /\ Good(m)' = Good(m)
    BY <1>4 DEF Writes, Good
  <2>2. JobOf(m)' = JobOf(m)
    BY <1>1
  <2>3. Delimiters(m)' = Delimiters(m) /\ Parts(m)' = Parts(m)
    BY <2>2 DEF Delimiters, Parts
  <2>4. InOrder(m)' = InOrder(m)
    BY <1>4, <2>1, <2>2, <2>3 DEF InOrder, Rank, PartAt
  <2> QED
    BY <2>1, <2>3, <2>4
<1>28. Counted'
  <2>1. w.job # 0 => /\ SoFar' = SoFar /\ Good(w.job)' = Good(w.job) /\ InOrder(w.job)' = InOrder(w.job)
    <3> SUFFICES ASSUME w.job # 0
                 PROVE  SoFar' = SoFar /\ Good(w.job)' = Good(w.job) /\ InOrder(w.job)' = InOrder(w.job)
      OBVIOUS
    <3>1. w.job \in Job /\ w' = w
      BY <1>4, <1>5
    <3>2. JobOf(w.job)' = JobOf(w.job) /\ Parts(w.job)' = Parts(w.job)
          /\ Delimiters(w.job)' = Delimiters(w.job)
      BY <1>1, <1>27, <3>1
    <3> QED
      BY <1>27, <3>1, <3>2 DEF SoFar
  <2>2. ASSUME NEW m \in Job', reply'[m] = "written" PROVE Cardinality(Good(m)') = Parts(m)' /\ InOrder(m)'
    <3>1. m \in Job
      BY <1>1, <1>2, <2>2
    <3> QED
      BY <1>0, <1>1, <1>27, <2>2, <3>1 DEF Counted
  <2> QED
    BY <1>0, <1>4, <2>1, <2>2 DEF Counted
<1>29. Writes(n)' = {}
  BY <1>1, <1>4, <1>6 DEF Writes
<1>30. Rejections'
  <2> SUFFICES ASSUME NEW m \in Job', RejectedFor(m)', Once(m)' PROVE reply'[m] # "pending" /\ Writes(m)' = {}
    BY DEF Rejections, Pending
  <2>1. CASE m = n
    BY <1>2, <1>29, <2>1
  <2>2. CASE m \in Job
    <3>1. m # n /\ accepted'[m] = accepted[m]
      BY <1>1, <2>2
    <3>2. accepted'[n].id # accepted[m].id
      BY <1>9, <3>1 DEF Once
    <3>3. RejectedFor(m)
      BY <1>2, <3>1, <3>2 DEF RejectedFor
    <3>4. Once(m)
      <4> SUFFICES ASSUME NEW j \in Job, accepted[j].id = accepted[m].id PROVE j = m
        BY DEF Once
      <4> QED
        BY <1>1, <3>1 DEF Once
    <3> QED
      BY <1>0, <1>1, <1>27, <2>2, <3>3, <3>4 DEF Rejections, Pending
  <2> QED
    BY <1>1, <2>1, <2>2
<1>31. InterruptBarrier'
  <2> SUFFICES ASSUME NEW i \in 1..Len(pty), NEW j \in 1..Len(pty), i < j,
                      pty[i].job > pty[j].job, pty[j].job # 0
               PROVE  JobOf(pty[j].job)'.priority /\ ~JobOf(pty[i].job)'.priority
    BY <1>4 DEF InterruptBarrier
  <2>1. pty[j].job \in Job /\ pty[i].job \in Job
    BY <1>6, <1>7
  <2>2. JobOf(pty[j].job).priority /\ ~JobOf(pty[i].job).priority
    BY <1>0 DEF InterruptBarrier
  <2>3. JobOf(pty[j].job)' = JobOf(pty[j].job) /\ JobOf(pty[i].job)' = JobOf(pty[i].job)
    BY <1>1, <1>4, <2>1
  <2> QED
    BY <2>2, <2>3
<1>32. AtMostOneLateWrite'
  BY <1>0, <1>1, <1>4, <1>27, <1>29 DEF AtMostOneLateWrite
<1> QED
  BY <1>1, <1>16, <1>17, <1>18, <1>19, <1>20, <1>21, <1>22, <1>23, <1>24, <1>25, <1>26, <1>28, <1>30,
     <1>31, <1>32
  DEF IInv, Placed, History, Shown

-----------------------------------------------------------------------------
\* Between chunks a paste yields, or the writer stays with what it has.
LEMMA NextChunkStep ==
  ASSUME IInv, NextChunk
  PROVE  IInv'
<1>0. WriterTypeOK /\ Issued /\ Held /\ Progress
  BY DEF IInv, Placed
<1>1. w.pc = "chunk" /\ w.job \in Job /\ w.result = "ok" /\ w.next \in Nat
  BY <1>0, WriterFacts, Bounds DEF NextChunk, Held, Hand, Progress
<1>2. JobOf(w.job).chunks \in Nat
  BY <1>0, <1>1, JobShape
<1>3. w = [pc |-> w.pc, job |-> w.job, next |-> w.next, open |-> w.open,
           urgent |-> w.urgent, result |-> w.result]
  BY <1>0, WriterFacts
<1>4. CASE w.next <= JobOf(w.job).chunks /\ JobOf(w.job).bulk /\ interrupt # << >>
  BY <1>4, YieldStep
<1>5. CASE ~(w.next <= JobOf(w.job).chunks /\ JobOf(w.job).bulk /\ interrupt # << >>)
  <2>1. /\ interrupt' = interrupt
        /\ w' = Fail("ok") \/ w' = Fail("refused") \/ w' = [w EXCEPT !.pc = "write"]
    BY <1>1, <1>2, <1>5 DEF NextChunk
  <2>2. w'.result # "canceled"
    BY <1>1, <1>3, <2>1 DEF Fail
  <2> QED
    BY <2>1, <2>2, StaySteps
<1> QED
  BY <1>4, <1>5

\* Every step keeps the invariant.
LEMMA NextIInv == IInv /\ [Next]_vars => IInv'
<1> SUFFICES ASSUME IInv, [Next]_vars PROVE IInv'
  OBVIOUS
<1>1. CASE WriterStep
  <2>1. CASE PollStop \/ NothingToDo \/ CheckEnter
    <3>1. CASE PollStop
      BY <3>1, StaySteps
    <3>2. CASE NothingToDo
      BY <3>2, StaySteps
    <3>3. CASE CheckEnter
      BY <3>3, StaySteps
    <3> QED
      BY <2>1, <3>1, <3>2, <3>3
  <2>2. CASE PollInterrupt
    BY <2>2, StaySteps, PollInterruptStep
  <2>3. CASE AnswerQuery
    BY <2>3, AnswerQueryStep
  <2>4. CASE TakeNormal
    BY <2>4, TakeNormalStep
  <2>5. CASE CancelQueued
    <3>1. CASE normal = << >>
      BY <2>5, <3>1, StaySteps
    <3>2. CASE normal # << >>
      BY <2>5, <3>2, CancelQueuedStep
    <3> QED
      BY <3>1, <3>2
  <2>6. CASE Begin
    BY <2>6, StaySteps, FinishSteps
  <2>7. CASE NextChunk
    BY <2>7, NextChunkStep
  <2>8. CASE WritePrefix \/ WriteChunk \/ WriteEnter
    BY <2>8, WriteSteps
  <2>9. CASE Suffix
    BY <2>9, StaySteps, WriteSteps
  <2>10. CASE FinishJob
    BY <2>10, FinishSteps
  <2>11. CASE DrainNormal
    BY <2>11, StaySteps, DrainStep
  <2>12. CASE DrainInterrupt
    BY <2>12, DrainStep, ExitStep
  <2> QED
    BY <1>1, <2>1, <2>2, <2>3, <2>4, <2>5, <2>6, <2>7, <2>8, <2>9, <2>10, <2>11, <2>12 DEF WriterStep
<1>2. ASSUME NEW h \in Handler, HandlerStep(h) PROVE IInv'
  BY <1>2, OutsideSteps, EnqueueStep DEF HandlerStep
<1>3. ASSUME NEW P \in SUBSET Principal, Withdraw(P) PROVE IInv'
  BY <1>3, OutsideSteps
<1>4. CASE (\E t \in Ender : EndStep(t)) \/ DropSession \/ AskTerminal \/ LeaseStep
  BY <1>4, OutsideSteps
<1>5. CASE UNCHANGED vars
  <2>1. UNCHANGED <<lease, ledger, accepted, who, reply, normal, interrupt, queries, w, pty, stop,
                    running, gone, ender, valid, request>>
    BY <1>5 DEF vars, inputVars, queueVars, sessionVars
  <2>2. WriterTypeOK' /\ \A n \in Job : Permitted(n)' => Permitted(n)
    BY <2>1 DEF IInv, WriterTypeOK, Permitted, Job
  <2>3. lease.epoch \in Nat /\ lease'.epoch = lease.epoch
    BY <2>1, LeaseFacts DEF IInv, WriterTypeOK
  <2>4. lease.epoch <= lease'.epoch
    BY <2>3
  <2> QED
    BY <2>1, <2>2, <2>4, OutsideStep
<1>6. \A c \in Client : {p \in Principal : ClientOf[p] = c} \in SUBSET Principal
  OBVIOUS
<1>7. \A p \in Principal : {p} \in SUBSET Principal
  OBVIOUS
<1> QED
  BY <1>1, <1>2, <1>3, <1>4, <1>5, <1>6, <1>7 DEF Next

\* The inductive invariant holds in every reachable state.
THEOREM Invariance == Spec => []IInv
BY InitIInv, NextIInv, PTL DEF Spec

\* The state keeps its types and limits: the queues never hold more than the
\* channels do, and a job never more chunks than a paste may have.
THEOREM WriterTyped == Spec => []WriterTypeOK
<1>1. IInv => WriterTypeOK
  BY DEF IInv
<1> QED
  BY <1>1, Invariance, PTL

\* After the lease, the device or the session is lost, at most the one write of
\* a job that was past its check goes out, and then only the closing delimiter
\* (write_job's permission checks).
THEOREM OneLate == Spec => []AtMostOneLateWrite
<1>1. IInv => AtMostOneLateWrite
  BY DEF IInv, Shown
<1> QED
  BY <1>1, Invariance, PTL

\* What was accepted before an interrupt is never written after it, and apart
\* from interrupts jobs are written in the order they were accepted
\* (writer_loop's cancellation of the queue).
THEOREM Barrier == Spec => []InterruptBarrier
<1>1. IInv => InterruptBarrier
  BY DEF IInv, Shown
<1> QED
  BY <1>1, Invariance, PTL

\* A paste that was opened is closed before anything else reaches the terminal
\* (write_job's suffix on every path).
THEOREM PasteWhole == Spec => []PasteUnbroken
<1>1. IInv => PasteUnbroken
  <2> SUFFICES ASSUME IInv, NEW i \in 1..Len(pty), NEW j \in 1..Len(pty), i < j,
                      pty[i].part = "open", pty[i].ok, pty[j].job # pty[i].job
               PROVE  \E m \in i..j : pty[m].job = pty[i].job /\ pty[m].part = "close"
    BY DEF PasteUnbroken
  <2>1. Closing /\ Len(pty) \in Nat
    BY WriterFacts DEF IInv, History
  <2>2. j \in i..Len(pty) /\ i \in i..Len(pty)
    BY <2>1
  <2>3. PICK m \in i..Len(pty) : pty[m].part = "close" /\ \A l \in i..m : pty[l].job = pty[i].job
    BY <2>1, <2>2 DEF Closing
  <2>4. ~(j \in i..m)
    BY <2>3
  <2>5. m \in i..j /\ m \in i..m
    BY <2>1, <2>4
  <2> QED
    BY <2>3, <2>5
<1> QED
  BY <1>1, Invariance, PTL

\* What a client is told is true: "written" is every part, once and in order,
\* and what was rejected left nothing in the terminal (finish and the replies).
THEOREM Honest == Spec => []OutcomeHonest
<1>1. IInv => OutcomeHonest
  <2> SUFFICES ASSUME IInv, NEW n \in Job
               PROVE  /\ reply[n] = "written" => Cardinality(Good(n)) = Parts(n) /\ InOrder(n)
                      /\ reply[n] = "rejected" => Writes(n) = {}
                      /\ (RejectedFor(n) /\ Once(n)) => Writes(n) = {}
    BY DEF OutcomeHonest, RejectedFor
  <2>1. Counted /\ Unwritten /\ Rejections /\ Held
    BY DEF IInv, History, Placed
  <2>2. reply[n] = "rejected" => Writes(n) = {}
    <3> SUFFICES ASSUME reply[n] = "rejected", NEW i \in 1..Len(pty), pty[i].job = n PROVE FALSE
      BY DEF Writes
    <3>1. n # 0
      BY DEF Job
    <3> QED
      BY <2>1, <3>1 DEF Unwritten, Held, Pending
  <2> QED
    BY <2>1, <2>2 DEF Counted, Rejections
<1> QED
  BY <1>1, Invariance, PTL

\* How often a job is in an increasing queue.
LEMMA TimesQueued ==
  ASSUME NEW q \in Seq(Nat), \A i, j \in 1..Len(q) : i < j => q[i] < q[j], NEW n
  PROVE  Cardinality({i \in 1..Len(q) : q[i] = n}) = IF \E i \in 1..Len(q) : q[i] = n THEN 1 ELSE 0
<1>1. CASE \E i \in 1..Len(q) : q[i] = n
  <2>1. PICK i \in 1..Len(q) : q[i] = n
    BY <1>1
  <2>2. ASSUME NEW j \in 1..Len(q), q[j] = n PROVE j = i
    <3>1. ~(i < j) /\ ~(j < i)
      BY <2>1, <2>2
    <3> QED
      BY <3>1
  <2>3. {j \in 1..Len(q) : q[j] = n} = {i}
    BY <2>1, <2>2
  <2>4. Cardinality({i}) = 1
    BY FS_Singleton
  <2> QED
    BY <1>1, <2>3, <2>4
<1>2. CASE ~ \E i \in 1..Len(q) : q[i] = n
  <2>1. {j \in 1..Len(q) : q[j] = n} = {}
    BY <1>2
  <2>2. Cardinality({}) = 0
    BY FS_EmptySet
  <2> QED
    BY <1>2, <2>1, <2>2
<1> QED
  BY <1>1, <1>2

\* Every accepted job is in exactly one place until it is settled, and nowhere
\* after that (the queues, the writer and the interrupt a paste yielded to).
THEOREM OnePlace == Spec => []ExactlyOnce
<1>1. IInv => ExactlyOnce
  <2> SUFFICES ASSUME IInv, NEW n \in Job
               PROVE  Owners(n) = IF reply[n] = "pending" THEN 1 ELSE 0
    BY DEF ExactlyOnce
  <2> DEFINE inNormal == \E i \in 1..Len(normal) : normal[i] = n
             inInterrupt == \E i \in 1..Len(interrupt) : interrupt[i] = n
             inHand == n \in {w.job, w.urgent}
  <2>1. /\ Queued /\ Held /\ Somewhere /\ normal \in Seq(Job) /\ interrupt \in Seq(Job) /\ n # 0
        /\ \A i, j \in 1..Len(normal) : i < j => normal[i] < normal[j]
        /\ \A i, j \in 1..Len(interrupt) : i < j => interrupt[i] < interrupt[j]
    BY Order DEF Job
  <2>2. normal \in Seq(Nat) /\ interrupt \in Seq(Nat)
    <3>1. Job \subseteq Nat
      BY DEF Job
    <3> QED
      BY <2>1, <3>1, SeqMono
  <2>3. Cardinality({i \in 1..Len(normal) : normal[i] = n}) = IF inNormal THEN 1 ELSE 0
    BY <2>1, <2>2, TimesQueued
  <2>4. Cardinality({i \in 1..Len(interrupt) : interrupt[i] = n}) = IF inInterrupt THEN 1 ELSE 0
    BY <2>1, <2>2, TimesQueued
  <2>5. /\ inNormal => Pending(n) /\ ~inInterrupt /\ ~inHand
        /\ inInterrupt => Pending(n) /\ ~inHand
        /\ inHand => Pending(n)
        /\ Pending(n) => inNormal \/ inInterrupt \/ inHand
    BY <2>1 DEF Queued, Held, Somewhere
  <2>6. Owners(n) = (IF inNormal THEN 1 ELSE 0) + (IF inInterrupt THEN 1 ELSE 0)
                    + (IF inHand THEN 1 ELSE 0)
    BY <2>3, <2>4 DEF Owners
  <2> HIDE DEF inNormal, inInterrupt, inHand
  <2> QED
    BY <2>5, <2>6 DEF Pending
<1> QED
  BY <1>1, Invariance, PTL
-----------------------------------------------------------------------------
\* A step of the session is a step of InputState or leaves it alone.
LEMMA NextImplements == IInv /\ [Next]_vars => [IS!Next]_IS!vars
<1> SUFFICES ASSUME IInv, [Next]_vars PROVE IS!Next \/ UNCHANGED <<lease, ledger, accepted>>
  BY DEF IS!vars
<1>0. WriterTypeOK /\ Held /\ normal \in Seq(Job) /\ (w.job # 0 => w.job \in Job)
  BY Order, WriterFacts
<1>1. ASSUME NEW n \in Job, NEW s \in {"rejected", "written", "delivery_unknown"},
             IS!Finish(accepted[n].id, s)
      PROVE  IS!Next
  <2>1. accepted[n].id \in InputId /\ s \in IS!Status \ {"accepted"}
    BY <1>0, JobFacts DEF IS!Status
  <2> QED
    BY <1>1, <2>1 DEF IS!Next
<1>2. CASE WriterStep
  <2>1. CASE CancelQueued
    <3>1. CASE normal # << >> /\ ~gone
      <4>1. Head(normal) \in Job
        BY <1>0, <3>1, TailFacts
      <4> QED
        BY <1>1, <2>1, <3>1, <4>1 DEF CancelQueued
    <3>2. CASE ~(normal # << >> /\ ~gone)
      BY <2>1, <3>2 DEF CancelQueued, inputVars
    <3> QED
      BY <3>1, <3>2
  <2>2. CASE FinishJob
    <3>1. w.job \in Job
      BY <1>0, <2>2 DEF FinishJob, Held, Hand
    <3> DEFINE s == IF w.result = "ok" THEN "written" ELSE "delivery_unknown"
    <3>2. s \in {"rejected", "written", "delivery_unknown"} /\ IS!Finish(accepted[w.job].id, s)
      BY <2>2 DEF FinishJob
    <3> HIDE DEF s
    <3> QED
      BY <1>1, <3>1, <3>2
  <2>3. CASE PollStop \/ PollInterrupt \/ AnswerQuery \/ TakeNormal \/ NothingToDo \/ Begin
    BY <2>3 DEF PollStop, PollInterrupt, AnswerQuery, TakeNormal, NothingToDo, Begin, writerOnly, inputVars
  <2>4. CASE WritePrefix \/ NextChunk \/ WriteChunk \/ CheckEnter \/ WriteEnter \/ DrainNormal
             \/ DrainInterrupt
    BY <2>4 DEF WritePrefix, NextChunk, WriteChunk, CheckEnter, WriteEnter, DrainNormal, DrainInterrupt,
                Write, writerOnly, inputVars
  <2>5. CASE Suffix
    BY <2>5 DEF Suffix, Write, writerOnly, inputVars
  <2> QED
    BY <1>2, <2>1, <2>2, <2>3, <2>4, <2>5 DEF WriterStep
<1>3. ASSUME NEW h \in Handler, Enqueue(h) PROVE IS!Next
  <2> DEFINE p  == Handles[h].principal
             k  == Handles[h].connection
             id == request[h].id
             e  == request[h].epoch
             sq == Shape[id].seq
             by == Shape[id].chunks
             mx == IF Shape[id].bulk THEN MaxPaste ELSE MaxInput
             st == IF HasRoom(id) THEN "accepted" ELSE "rejected"
  <2>1. request[h] # Idle /\ IS!Accept(ClientOf[p], k, e, id, sq, by, mx, st)
    BY <1>3 DEF Enqueue
  <2>2. id \in InputId /\ e \in IS!Epoch
    BY <1>0, <2>1 DEF WriterTypeOK, Request
  <2>3. k \in Connection /\ ClientOf[p] \in Client
    BY WriterAssumption
  <2>4. mx \in {MaxInput, MaxPaste} /\ st \in {"accepted", "rejected"} /\ mx \in Nat
    BY Bounds
  <2>5. by \in 1..mx /\ sq \in 1..MaxSeq
    BY <2>1 DEF IS!Accept, IS!WithinBounds
  <2> HIDE DEF p, k, id, e, sq, by, mx, st
  <2>6. by \in 0..mx + 1 /\ sq \in 0..MaxSeq + 1
    BY <2>4, <2>5, LedgerAssumption
  <2> QED
    BY <2>1, <2>2, <2>3, <2>4, <2>6 DEF IS!Next
<1>4. ASSUME NEW h \in Handler, HandlerStep(h) PROVE IS!Next \/ UNCHANGED <<lease, ledger, accepted>>
  BY <1>3, <1>4 DEF HandlerStep, Admit, Refuse, inputVars
<1>5. ASSUME NEW t \in Ender, EndStep(t) PROVE IS!Next \/ UNCHANGED <<lease, ledger, accepted>>
  BY <1>5 DEF EndStep, BeginEnd, EndLease, SignalStop, inputVars, IS!Next
<1>6. CASE LeaseStep
  BY <1>6 DEF LeaseStep, IS!Next
<1>7. ASSUME NEW P, Withdraw(P) PROVE UNCHANGED <<lease, ledger, accepted>>
  BY <1>7 DEF Withdraw, inputVars
<1>8. CASE DropSession \/ AskTerminal
  BY <1>8 DEF DropSession, AskTerminal, inputVars
<1>9. CASE UNCHANGED vars
  BY <1>9 DEF vars, inputVars
<1> QED
  BY <1>2, <1>4, <1>5, <1>6, <1>7, <1>8, <1>9 DEF Next

\* The session's input path implements InputState: every critical section of
\* the input lock is one of its actions, so its theorems hold here too.
THEOREM Implements == Spec => IS!Spec
<1>1. Init => IS!Init
  BY DEF Init
<1> QED
  BY <1>1, NextImplements, Invariance, PTL DEF Spec, IS!Spec
=============================================================================
