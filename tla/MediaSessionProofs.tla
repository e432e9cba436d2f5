------------------------- MODULE MediaSessionProofs --------------------------
(***************************************************************************)
(* Proofs about MediaSession for every set of streams, every bound and     *)
(* every capacity, as long as the map of proofs is no smaller than the     *)
(* leaky queue.                                                            *)
(***************************************************************************)
EXTENDS MediaSession, SequenceTheorems, FiniteSetTheorems, TLAPS

Helper == [at : {"none", "top", "push", "status", "exited"}, owner : Stream \cup {None},
           stop : BOOLEAN, latest : Serial, pts : Pts, last : Serial, queue : Seq(Buffer),
           encoder : SUBSET Buffer, proofs : SUBSET Proof, events : Seq(Message), out : Seq(Message)]

Elems(queue) == {queue[i] : i \in 1 .. Len(queue)}

\* The queue holds the last buffers pushed, one per PTS, and the encoder older ones (native.rs).
Recent(queue, encoder, n) ==
  /\ \A i \in 1 .. Len(queue) : queue[i].pts + Len(queue) + 1 = n + i
  /\ \A b \in encoder : b.pts + Len(queue) < n
  /\ \A a, b \in encoder : a.pts = b.pts => a = b

\* There is one proof per PTS, and it is for the buffer of its PTS (native.rs, FreshProofMap).
ProofsMatch(flight, proofs, n) ==
  /\ \A p \in proofs : p.pts < n
  /\ \A p, q \in proofs : p.pts = q.pts => p = q
  /\ \A p \in proofs : \A b \in flight : p.pts = b.pts => p.serial = b.serial

Kept(flight, proofs, n) ==
  \A b \in flight : b.new /\ n <= b.pts + MaxProofs => [pts |-> b.pts, serial |-> b.serial] \in proofs

Sound(queue, encoder, proofs, n) ==
  /\ Recent(queue, encoder, n)
  /\ ProofsMatch(Elems(queue) \cup encoder, proofs, n)
  /\ Kept(Elems(queue) \cup encoder, proofs, n)

\* What every step of the helper, a restart included, preserves.
Fits(h) ==
  /\ h \in Helper /\ Len(h.queue) <= QueueCap
  /\ IsFiniteSet(h.encoder) /\ Cardinality(h.encoder) <= EncoderCap
  /\ IsFiniteSet(h.proofs) /\ Cardinality(h.proofs) <= MaxProofs
  /\ Len(h.events) <= EventCap /\ Len(h.out) <= OutCap
  /\ Sound(h.queue, h.encoder, h.proofs, h.pts)

AgentTyped ==
  /\ approved \in BOOLEAN /\ active \in Stream \cup {None}
  /\ st \in [Stream -> Holding \cup {"socket", "got", "done"}]
  /\ cancel \subseteq Stream /\ seen \in Serial
  /\ honest \in BOOLEAN

IInv == AgentTyped /\ Fits(helper) /\ OneOwner /\ ProofHonest

-----------------------------------------------------------------------------
(* The operators of the helper. *)

\* The bounds, one by one.
LEMMA Bounds ==
  /\ MaxSerial \in Nat /\ MaxPts \in Nat
  /\ QueueCap \in Nat \ {0} /\ EncoderCap \in Nat \ {0} /\ MaxProofs \in Nat \ {0}
  /\ EventCap \in Nat \ {0} /\ OutCap \in Nat \ {0}
  /\ QueueCap <= MaxProofs /\ None \notin Stream
BY MediaBounds

\* A set of naturals that is not empty has a least member.
LEMMA LeastNatural ==
  ASSUME NEW T \in SUBSET Nat, T # {}
  PROVE  \E x \in T : \A y \in T : x <= y
<1> DEFINE R == OpToRel(<, Nat)
<1>1. IsWellFoundedOn(R, Nat)
  BY NatLessThanWellFounded
<1>2. R = {ss \in Nat \X Nat : ss[1] < ss[2]}
  BY DEF OpToRel
<1> HIDE DEF R
<1>3. \E x \in T : \A y \in T : ~(<<y, x>> \in R)
  BY <1>1, WFMin
<1>4. \A x, y \in Nat : ~(<<y, x>> \in R) => x <= y
  BY <1>2
<1> QED
  BY <1>3, <1>4

\* The first element of a sequence and the ones behind it.
LEMMA TailElements ==
  ASSUME NEW S, NEW s \in Seq(S), s # <<>>
  PROVE  /\ Len(s) \in Nat \ {0} /\ Head(s) = s[1] /\ Head(s) \in S
         /\ Tail(s) \in Seq(S) /\ Len(Tail(s)) = Len(s) - 1
         /\ \A i \in 1 .. Len(s) - 1 : Tail(s)[i] = s[i + 1]
BY HeadTailProperties, EmptySeq

\* The buffers of a sequence and their PTS.
LEMMA QueueTyped ==
  ASSUME NEW queue \in Seq(Buffer)
  PROVE  /\ Len(queue) \in Nat
         /\ \A i \in 1 .. Len(queue) : queue[i] \in Buffer /\ queue[i].pts \in Nat
<1>1. \A i \in 1 .. Len(queue) : queue[i] \in Buffer
  BY ElementOfSeq
<1>2. Len(queue) \in Nat
  BY LenProperties
<1> QED
  BY <1>1, <1>2, Bounds DEF Buffer, Pts

\* With fewer buffers on their way, the proofs match and are kept all the more.
LEMMA Fewer ==
  ASSUME NEW flight, NEW fewer \in SUBSET flight, NEW proofs, NEW n,
         ProofsMatch(flight, proofs, n), Kept(flight, proofs, n)
  PROVE  ProofsMatch(fewer, proofs, n) /\ Kept(fewer, proofs, n)
BY DEF ProofsMatch, Kept

\* The oldest buffer leaves the queue, dropped by a full queue or taken by the encoder.
LEMMA SoundTail ==
  ASSUME NEW queue \in Seq(Buffer), NEW encoder \in SUBSET Buffer, NEW proofs \in SUBSET Proof,
         NEW n \in Pts, Sound(queue, encoder, proofs, n), queue # <<>>
  PROVE  /\ Sound(Tail(queue), encoder, proofs, n)
         /\ Sound(Tail(queue), encoder \cup {Head(queue)}, proofs, n)
<1> DEFINE t == Tail(queue)
           b == Head(queue)
<1>1. /\ Len(queue) \in Nat \ {0} /\ t \in Seq(Buffer) /\ Len(t) = Len(queue) - 1 /\ b = queue[1]
      /\ \A i \in 1 .. Len(t) : t[i] = queue[i + 1] /\ i + 1 \in 1 .. Len(queue)
  BY TailElements
<1>2. /\ n \in Nat /\ 1 \in 1 .. Len(queue)
      /\ \A i \in 1 .. Len(queue) : queue[i] \in Buffer /\ queue[i].pts \in Nat
      /\ \A x \in encoder : x.pts \in Nat
  <2>1. \A i \in 1 .. Len(queue) : queue[i] \in Buffer /\ queue[i].pts \in Nat
    BY QueueTyped
  <2>2. n \in Nat /\ \A x \in encoder : x.pts \in Nat
    BY Bounds DEF Pts, Buffer
  <2> QED
    BY <1>1, <2>1, <2>2
<1> HIDE DEF t, b
<1>3. Recent(t, encoder, n) /\ Recent(t, encoder \cup {b}, n)
  <2>1. \A i \in 1 .. Len(t) : t[i].pts + Len(t) + 1 = n + i
    <3> SUFFICES ASSUME NEW i \in 1 .. Len(t) PROVE t[i].pts + Len(t) + 1 = n + i
      OBVIOUS
    <3>1. t[i] = queue[i + 1] /\ i + 1 \in 1 .. Len(queue) /\ t[i].pts \in Nat
      BY <1>1, <1>2
    <3>2. queue[i + 1].pts + Len(queue) + 1 = n + (i + 1)
      BY <3>1 DEF Sound, Recent
    <3>3. t[i].pts + Len(queue) + 1 = n + (i + 1)
      BY <3>1, <3>2
    <3>4. Len(queue) \in Nat /\ Len(t) = Len(queue) - 1 /\ n \in Nat /\ i \in Nat
      BY <1>1, <1>2
    <3> QED
      BY <3>1, <3>3, <3>4
  <2>2. b.pts \in Nat /\ b.pts + Len(queue) + 1 = n + 1
    BY <1>1, <1>2 DEF Sound, Recent
  <2>3. \A x \in encoder : x.pts + Len(queue) < n /\ x.pts + Len(t) < n /\ x.pts # b.pts
    <3> SUFFICES ASSUME NEW x \in encoder
                 PROVE  x.pts + Len(queue) < n /\ x.pts + Len(t) < n /\ x.pts # b.pts
      OBVIOUS
    <3>1. x.pts + Len(queue) < n /\ x.pts \in Nat
      BY <1>2 DEF Sound, Recent
    <3> QED
      BY <1>1, <1>2, <2>2, <3>1
  <2>4. b.pts + Len(t) < n
    BY <1>1, <1>2, <2>2
  <2>5. \A x, y \in encoder : x.pts = y.pts => x = y
    BY DEF Sound, Recent
  <2> QED
    BY <2>1, <2>3, <2>4, <2>5 DEF Recent
<1>4. Elems(t) \subseteq Elems(queue) /\ b \in Elems(queue)
  BY <1>1, <1>2 DEF Elems
<1>5. /\ Elems(t) \cup encoder \subseteq Elems(queue) \cup encoder
      /\ Elems(t) \cup (encoder \cup {b}) \subseteq Elems(queue) \cup encoder
  BY <1>4
<1> QED
  BY <1>3, <1>5, Fewer DEF Sound, t, b

\* The proofs that the encoding of buffer b leaves in the map.
Left(proofs, b) == proofs \ {p \in proofs : p.pts = b.pts}

\* A buffer that leaves the encoder, dropped or encoded, takes no other buffer's proof with it.
LEMMA SoundLeaves ==
  ASSUME NEW queue \in Seq(Buffer), NEW encoder \in SUBSET Buffer, NEW proofs \in SUBSET Proof,
         NEW n \in Pts, NEW b \in encoder, Sound(queue, encoder, proofs, n)
  PROVE  /\ Sound(queue, encoder \ {b}, proofs, n)
         /\ Sound(queue, encoder \ {b}, Left(proofs, b), n)
<1> DEFINE rest == Elems(queue) \cup (encoder \ {b})
           left == Left(proofs, b)
<1>1. Recent(queue, encoder \ {b}, n)
  BY DEF Sound, Recent
<1>2. ProofsMatch(rest, proofs, n) /\ Kept(rest, proofs, n)
  BY Fewer DEF Sound
<1>3. \A x \in rest : x.pts # b.pts
  <2>1. \A x \in encoder \ {b} : x.pts # b.pts
    BY DEF Sound, Recent
  <2>2. ASSUME NEW i \in 1 .. Len(queue) PROVE queue[i].pts # b.pts
    <3>0. Len(queue) \in Nat /\ queue[i].pts \in Nat
      BY QueueTyped
    <3>1. Len(queue) \in Nat /\ queue[i].pts \in Nat /\ n \in Nat /\ b.pts \in Nat
      BY <3>0, Bounds DEF Pts, Buffer
    <3>2. queue[i].pts + Len(queue) + 1 = n + i /\ b.pts + Len(queue) < n
      BY DEF Sound, Recent
    <3> QED
      BY <3>1, <3>2
  <2> QED
    BY <2>1, <2>2 DEF Elems
<1>4. ProofsMatch(rest, left, n)
  BY <1>2 DEF ProofsMatch, Left
<1>5. Kept(rest, left, n)
  <2> SUFFICES ASSUME NEW x \in rest, x.new, n <= x.pts + MaxProofs
               PROVE  [pts |-> x.pts, serial |-> x.serial] \in left
    BY DEF Kept
  <2>1. [pts |-> x.pts, serial |-> x.serial] \in proofs
    BY <1>2 DEF Kept
  <2> QED
    BY <1>3, <2>1 DEF Left
<1> QED
  BY <1>1, <1>2, <1>4, <1>5 DEF Sound

\* A full map whose oldest proof is of PTS k: at least MaxProofs buffers were pushed from k on.
LEMMA OldestIsOld ==
  ASSUME NEW proofs \in SUBSET Proof, NEW n \in Pts, \A p \in proofs : p.pts < n,
         \A p, q \in proofs : p.pts = q.pts => p = q,
         IsFiniteSet(proofs), NEW o \in proofs, \A q \in proofs : o.pts <= q.pts
  PROVE  o.pts + Cardinality(proofs) <= n
<1> DEFINE f == [q \in proofs |-> q.pts]
           T == o.pts .. n - 1
<1>1. /\ n \in Nat /\ o.pts \in Nat /\ o.pts < n /\ Cardinality(proofs) \in Nat
      /\ \A q \in proofs : q.pts \in Nat
  BY FS_CardinalityType, Bounds DEF Proof, Pts
<1>2. IsFiniteSet(T) /\ Cardinality(T) = n - o.pts
  <2>1. o.pts \in Int /\ n - 1 \in Int
    BY <1>1
  <2>2. IsFiniteSet(T) /\ Cardinality(T) = IF o.pts > n - 1 THEN 0 ELSE (n - 1) - o.pts + 1
    BY <2>1, FS_Interval
  <2> QED
    BY <1>1, <2>2
<1>3. f \in [proofs -> T]
  BY <1>1
<1> SUFFICES ASSUME ~(o.pts + Cardinality(proofs) <= n) PROVE FALSE
  OBVIOUS
<1>4. Cardinality(T) < Cardinality(proofs)
  BY <1>1, <1>2
<1> HIDE DEF T
<1>5. PICK x, y \in proofs : x # y /\ f[x] = f[y]
  <2> HIDE DEF f
  <2> QED
    BY <1>2, <1>3, <1>4, FS_PigeonHole
<1> QED
  BY <1>5

\* At the limit, Inserted drops a proof of a buffer that MaxProofs pushes followed.
LEMMA InsertedKeeps ==
  ASSUME NEW flight \in SUBSET Buffer, NEW proofs \in SUBSET Proof, NEW n \in Pts, NEW b \in Proof,
         ProofsMatch(flight, proofs, n), Kept(flight, proofs, n), IsFiniteSet(proofs),
         Cardinality(proofs) <= MaxProofs
  PROVE  /\ Inserted(proofs, b) \in SUBSET Proof
         /\ Inserted(proofs, b) \subseteq proofs \cup {b} /\ b \in Inserted(proofs, b)
         /\ IsFiniteSet(Inserted(proofs, b)) /\ Cardinality(Inserted(proofs, b)) <= MaxProofs
         /\ Kept(flight, Inserted(proofs, b), n + 1)
<1>0. /\ Cardinality(proofs) \in Nat /\ MaxProofs \in Nat \ {0} /\ n \in Nat
      /\ \A x \in flight : x.pts \in Nat
  BY FS_CardinalityType, Bounds DEF Pts, Buffer
<1>k. \A x \in flight : x.new /\ n + 1 <= x.pts + MaxProofs
        => [pts |-> x.pts, serial |-> x.serial] \in proofs
  BY <1>0 DEF Kept
<1>1. CASE Cardinality(proofs) < MaxProofs
  <2>1. Inserted(proofs, b) = proofs \cup {b}
    BY <1>0, <1>1 DEF Inserted
  <2>a. /\ IsFiniteSet(proofs \cup {b})
        /\ b \in proofs \/ Cardinality(proofs \cup {b}) = Cardinality(proofs) + 1
        /\ b \in proofs => proofs \cup {b} = proofs
    BY FS_AddElement
  <2>2. IsFiniteSet(proofs \cup {b}) /\ Cardinality(proofs \cup {b}) <= Cardinality(proofs) + 1
    <3> DEFINE u == proofs \cup {b}
    <3>1. /\ IsFiniteSet(u) /\ (b \in proofs \/ Cardinality(u) = Cardinality(proofs) + 1)
          /\ b \in proofs => u = proofs
      BY <2>a
    <3> HIDE DEF u
    <3>2. IsFiniteSet(u) /\ Cardinality(u) <= Cardinality(proofs) + 1
      BY <1>0, <3>1
    <3> QED
      BY <3>2 DEF u
  <2>3. Cardinality(proofs \cup {b}) \in Nat
    BY <2>2, FS_CardinalityType
  <2> QED
    BY <1>0, <1>1, <1>k, <2>1, <2>2, <2>3 DEF Kept
<1>2. CASE Cardinality(proofs) = MaxProofs
  <2> DEFINE o == CHOOSE p \in proofs : \A q \in proofs : p.pts <= q.pts
             ts == {p.pts : p \in proofs}
  <2>1. proofs # {}
    BY <1>0, <1>2, FS_EmptySet
  <2>2. ts \in SUBSET Nat /\ ts # {}
    BY <2>1, Bounds DEF Proof, Pts
  <2>3. \E x \in ts : \A y \in ts : x <= y
    BY <2>2, LeastNatural
  <2>4. \E p \in proofs : \A q \in proofs : p.pts <= q.pts
    BY <2>3
  <2>5. o \in proofs /\ \A q \in proofs : o.pts <= q.pts
    BY <2>4
  <2>6. Inserted(proofs, b) = (proofs \ {o}) \cup {b}
    BY <1>0, <1>2 DEF Inserted
  <2> HIDE DEF o, ts
  <2>7. IsFiniteSet(proofs \ {o}) /\ Cardinality(proofs \ {o}) = MaxProofs - 1
    BY <1>2, <2>5, FS_RemoveElement
  <2>a. /\ IsFiniteSet((proofs \ {o}) \cup {b})
        /\ b \in proofs \ {o} \/ Cardinality((proofs \ {o}) \cup {b}) = Cardinality(proofs \ {o}) + 1
        /\ b \in proofs \ {o} => (proofs \ {o}) \cup {b} = proofs \ {o}
    BY <2>7, FS_AddElement
  <2>8. /\ IsFiniteSet((proofs \ {o}) \cup {b})
        /\ Cardinality((proofs \ {o}) \cup {b}) \in {MaxProofs - 1, MaxProofs}
    <3> DEFINE u == (proofs \ {o}) \cup {b}
    <3>1. /\ IsFiniteSet(u) /\ (b \in proofs \ {o} \/ Cardinality(u) = Cardinality(proofs \ {o}) + 1)
          /\ b \in proofs \ {o} => u = proofs \ {o}
      BY <2>a
    <3>2. Cardinality(u) = MaxProofs - 1 \/ Cardinality(u) = (MaxProofs - 1) + 1
      BY <2>7, <3>1
    <3> HIDE DEF u
    <3>3. IsFiniteSet(u) /\ Cardinality(u) \in {MaxProofs - 1, MaxProofs}
      BY <1>0, <3>1, <3>2
    <3> QED
      BY <3>3 DEF u
  <2>9. o.pts + MaxProofs <= n
    BY <1>2, <2>5, OldestIsOld DEF ProofsMatch
  <2>10. Kept(flight, (proofs \ {o}) \cup {b}, n + 1)
    <3> SUFFICES ASSUME NEW x \in flight, x.new, n + 1 <= x.pts + MaxProofs
                 PROVE  [pts |-> x.pts, serial |-> x.serial] \in proofs \ {o}
      BY DEF Kept
    <3>1. [pts |-> x.pts, serial |-> x.serial] \in proofs
      BY <1>k
    <3>2. x.pts # o.pts
      BY <1>0, <2>9
    <3> QED
      BY <3>1, <3>2
  <2> QED
    BY <1>0, <2>5, <2>6, <2>8, <2>10
<1> QED
  BY <1>0, <1>1, <1>2

\* The proofs after the push of buffer b.
Added(proofs, b) == IF b.new THEN Inserted(proofs, [pts |-> b.pts, serial |-> b.serial]) ELSE proofs

\* A push: the buffer is the newest, and a new capture has its proof in the map.
LEMMA SoundPush ==
  ASSUME NEW queue \in Seq(Buffer), NEW encoder \in SUBSET Buffer, NEW proofs \in SUBSET Proof,
         NEW n \in Pts, NEW b \in Buffer, n < MaxPts, b.pts = n, Sound(queue, encoder, proofs, n),
         IsFiniteSet(proofs), Len(queue) < QueueCap, Cardinality(proofs) <= MaxProofs
  PROVE  /\ Added(proofs, b) \in SUBSET Proof /\ IsFiniteSet(Added(proofs, b))
         /\ Cardinality(Added(proofs, b)) <= MaxProofs
         /\ Append(queue, b) \in Seq(Buffer) /\ Len(Append(queue, b)) <= QueueCap
         /\ Sound(Append(queue, b), encoder, Added(proofs, b), n + 1)
<1> DEFINE p == [pts |-> b.pts, serial |-> b.serial]
           q == Append(queue, b)
           added == Added(proofs, b)
           flight == Elems(queue) \cup encoder
<1>0. /\ Len(queue) \in Nat /\ n \in Nat /\ n + 1 \in Pts /\ QueueCap \in Nat /\ MaxProofs \in Nat
      /\ \A i \in 1 .. Len(queue) : queue[i] \in Buffer /\ queue[i].pts \in Nat
      /\ \A x \in encoder : x.pts \in Nat
      /\ \A x \in proofs : x.pts \in Nat
  <2>1. Len(queue) \in Nat /\ \A i \in 1 .. Len(queue) : queue[i] \in Buffer /\ queue[i].pts \in Nat
    BY QueueTyped
  <2>2. /\ n \in Nat /\ n + 1 \in Pts /\ QueueCap \in Nat /\ MaxProofs \in Nat
        /\ \A x \in encoder : x.pts \in Nat
        /\ \A x \in proofs : x.pts \in Nat
    BY Bounds DEF Pts, Buffer, Proof
  <2> QED
    BY <2>1, <2>2
<1>1. p \in Proof /\ flight \in SUBSET Buffer
  BY <1>0 DEF Proof, Buffer, Elems
<1>2. /\ q \in Seq(Buffer) /\ Len(q) = Len(queue) + 1 /\ q[Len(q)] = b
      /\ \A i \in 1 .. Len(queue) : q[i] = queue[i]
  BY AppendProperties
<1>3. p.pts = n /\ p.serial = b.serial
  OBVIOUS
<1>4. /\ added \in SUBSET Proof /\ added \subseteq proofs \cup {p} /\ (b.new => p \in added)
      /\ IsFiniteSet(added) /\ Cardinality(added) <= MaxProofs /\ Kept(flight, added, n + 1)
  <2>1. CASE b.new
    <3>1. added = Inserted(proofs, p) /\ ProofsMatch(flight, proofs, n) /\ Kept(flight, proofs, n)
      BY <2>1 DEF Sound, Added
    <3> HIDE DEF p, flight, added
    <3>2. /\ Inserted(proofs, p) \in SUBSET Proof
          /\ Inserted(proofs, p) \subseteq proofs \cup {p} /\ p \in Inserted(proofs, p)
          /\ IsFiniteSet(Inserted(proofs, p)) /\ Cardinality(Inserted(proofs, p)) <= MaxProofs
          /\ Kept(flight, Inserted(proofs, p), n + 1)
      BY <1>1, <3>1, InsertedKeeps
    <3> QED
      BY <3>1, <3>2
  <2>2. CASE ~b.new
    <3>1. Kept(flight, proofs, n) /\ added = proofs
      BY <2>2 DEF Sound, Added
    <3>2. \A x \in flight : x.pts \in Nat
      BY <1>0 DEF Elems
    <3>3. Kept(flight, proofs, n + 1)
      BY <1>0, <3>1, <3>2 DEF Kept
    <3> QED
      BY <2>2, <3>1, <3>3
  <2> QED
    BY <2>1, <2>2
<1> HIDE DEF p, q, flight, added
<1>5. \A i \in 1 .. Len(q) : (i \in 1 .. Len(queue) /\ q[i] = queue[i]) \/ (i = Len(q) /\ q[i] = b)
  BY <1>0, <1>2
<1>6. Elems(q) \cup encoder \subseteq flight \cup {b}
  BY <1>5 DEF Elems, flight
<1>7. Recent(q, encoder, n + 1)
  <2>1. ASSUME NEW i \in 1 .. Len(q) PROVE q[i].pts + Len(q) + 1 = (n + 1) + i
    <3>1. CASE i = Len(q)
      <4>1. q[i].pts = n /\ Len(q) \in Nat
        BY <1>0, <1>2, <3>1
      <4> QED
        BY <1>0, <3>1, <4>1
    <3>2. CASE i # Len(q)
      <4>1. i \in 1 .. Len(queue) /\ q[i] = queue[i]
        BY <1>5, <3>2
      <4>2. queue[i].pts + Len(queue) + 1 = n + i
        BY <4>1 DEF Sound, Recent
      <4>3. q[i].pts + Len(queue) + 1 = n + i /\ q[i].pts \in Nat /\ i \in Nat
        BY <1>0, <4>1, <4>2
      <4>4. Len(q) = Len(queue) + 1 /\ Len(queue) \in Nat /\ n \in Nat
        BY <1>0, <1>2
      <4> QED
        BY <4>3, <4>4
    <3> QED
      BY <3>1, <3>2
  <2>2. ASSUME NEW x \in encoder PROVE x.pts + Len(q) < n + 1
    <3>1. x.pts + Len(queue) < n
      BY DEF Sound, Recent
    <3> QED
      BY <1>0, <1>2, <3>1
  <2>3. \A x, y \in encoder : x.pts = y.pts => x = y
    BY DEF Sound, Recent
  <2> QED
    BY <2>1, <2>2, <2>3 DEF Recent
<1>8. \A x \in flight : x.pts \in Nat /\ x.pts < n
  <2>1. ASSUME NEW i \in 1 .. Len(queue) PROVE queue[i].pts < n
    <3>1. queue[i].pts + Len(queue) + 1 = n + i
      BY DEF Sound, Recent
    <3> QED
      BY <1>0, <3>1
  <2>2. ASSUME NEW x \in encoder PROVE x.pts < n
    <3>1. x.pts + Len(queue) < n
      BY DEF Sound, Recent
    <3> QED
      BY <1>0, <3>1
  <2> QED
    BY <1>0, <2>1, <2>2 DEF Elems, flight
<1>9. ProofsMatch(flight \cup {b}, added, n + 1)
  <2>1. \A x \in added : x = p \/ (x \in proofs /\ x.pts < n)
    BY <1>4 DEF Sound, ProofsMatch
  <2>2. \A x \in added : x.pts < n + 1
    BY <1>0, <1>3, <2>1
  <2>3. \A x, y \in added : x.pts = y.pts => x = y
    <3>1. \A x, y \in proofs : x.pts = y.pts => x = y
      BY DEF Sound, ProofsMatch
    <3> QED
      BY <1>0, <1>3, <2>1, <3>1
  <2>4. ASSUME NEW x \in added, NEW y \in flight \cup {b}, x.pts = y.pts
        PROVE  x.serial = y.serial
    <3>1. CASE x = p
      BY <1>0, <1>3, <1>8, <2>4, <3>1
    <3>2. CASE x \in proofs /\ x.pts < n
      <4>1. y \in flight
        BY <1>0, <1>3, <2>4, <3>2
      <4> QED
        BY <2>4, <3>2, <4>1 DEF Sound, ProofsMatch, flight
    <3> QED
      BY <2>1, <3>1, <3>2
  <2> QED
    BY <2>2, <2>3, <2>4 DEF ProofsMatch
<1>10. Kept(flight \cup {b}, added, n + 1)
  BY <1>3, <1>4 DEF Kept, p
<1>11. ProofsMatch(Elems(q) \cup encoder, added, n + 1) /\ Kept(Elems(q) \cup encoder, added, n + 1)
  BY <1>6, <1>9, <1>10, Fewer
<1>12. Len(q) <= QueueCap
  BY <1>0, <1>2
<1> QED
  BY <1>2, <1>4, <1>7, <1>11, <1>12 DEF Sound, q, added

\* An empty pipeline without proofs, as a helper starts and ends, is sound.
LEMMA SoundEmpty ==
  ASSUME NEW n \in Pts
  PROVE  /\ Sound(<<>>, {}, {}, n) /\ IsFiniteSet({})
         /\ Cardinality({}) <= MaxProofs /\ Cardinality({}) <= EncoderCap
<1>1. IsFiniteSet({}) /\ Cardinality({}) = 0
  BY FS_EmptySet
<1>2. Elems(<<>>) \cup {} = {}
  BY DEF Elems
<1>3. Sound(<<>>, {}, {}, n)
  BY <1>2 DEF Sound, Recent, ProofsMatch, Kept
<1> QED
  BY <1>1, <1>3, Bounds

\* A buffer enters or leaves the encoder.
LEMMA EncoderCounts ==
  ASSUME NEW encoder, IsFiniteSet(encoder), Cardinality(encoder) <= EncoderCap, NEW b
  PROVE  /\ IsFiniteSet(encoder \ {b}) /\ Cardinality(encoder \ {b}) <= EncoderCap
         /\ Cardinality(encoder) < EncoderCap
              => IsFiniteSet(encoder \cup {b}) /\ Cardinality(encoder \cup {b}) <= EncoderCap
<1>1. Cardinality(encoder) \in Nat /\ EncoderCap \in Nat
  BY FS_CardinalityType, Bounds
<1> DEFINE less == encoder \ {b}
           more == encoder \cup {b}
<1>2. IsFiniteSet(less) /\ Cardinality(less) <= Cardinality(encoder) /\ Cardinality(less) \in Nat
  BY FS_Subset, FS_CardinalityType
<1>3. /\ IsFiniteSet(more)
      /\ (b \in encoder /\ more = encoder) \/ Cardinality(more) = Cardinality(encoder) + 1
  BY FS_AddElement
<1> HIDE DEF less, more
<1>4. Cardinality(less) <= EncoderCap
  BY <1>1, <1>2
<1>5. Cardinality(encoder) < EncoderCap => Cardinality(more) <= EncoderCap
  BY <1>1, <1>3
<1> QED
  BY <1>2, <1>3, <1>4, <1>5 DEF less, more

\* event() touches the event channel or the stop flag and nothing else.
LEMMA EmitKeeps ==
  ASSUME NEW h \in Helper, NEW m \in Message, Len(h.events) <= EventCap
  PROVE  /\ Emit(h, m) \in Helper /\ Len(Emit(h, m).events) <= EventCap
         /\ Emit(h, m).queue = h.queue /\ Emit(h, m).encoder = h.encoder
         /\ Emit(h, m).proofs = h.proofs /\ Emit(h, m).pts = h.pts /\ Emit(h, m).out = h.out
<1>0. Len(h.events) \in Nat /\ EventCap \in Nat /\ h.events \in Seq(Message)
  BY LenProperties, Bounds DEF Helper
<1>1. CASE Len(h.events) < EventCap
  <2>1. Append(h.events, m) \in Seq(Message) /\ Len(Append(h.events, m)) = Len(h.events) + 1
    BY <1>0, AppendProperties
  <2>2. Emit(h, m) = [h EXCEPT !.events = Append(h.events, m)]
    BY <1>1 DEF Emit
  <2> HIDE DEF Emit
  <2>3. Len(Append(h.events, m)) <= EventCap
    BY <1>0, <1>1, <2>1
  <2> QED
    BY <2>1, <2>2, <2>3 DEF Helper
<1>2. CASE ~(Len(h.events) < EventCap)
  BY <1>0, <1>2 DEF Emit, Helper
<1> QED
  BY <1>1, <1>2
-----------------------------------------------------------------------------
(* The initial states and the steps of the agent. *)

\* The inductive invariant gives the types, and the property of the map.
LEMMA Strong == IInv => TypeOK /\ ProofKept
<1> SUFFICES ASSUME IInv PROVE TypeOK /\ ProofKept
  OBVIOUS
<1>1. TypeOK
  BY DEF IInv, AgentTyped, Fits, Helper, TypeOK
<1>2. ProofKept
  <2> SUFFICES ASSUME NEW b \in Queued \cup helper.encoder, b.new,
                      b \in Queued \/ helper.pts <= b.pts + MaxProofs
               PROVE  [pts |-> b.pts, serial |-> b.serial] \in helper.proofs
    BY DEF ProofKept
  <2>1. /\ helper.queue \in Seq(Buffer) /\ helper.pts \in Nat /\ Len(helper.queue) <= QueueCap
        /\ Sound(helper.queue, helper.encoder, helper.proofs, helper.pts)
    BY Bounds DEF IInv, Fits, Helper, Pts
  <2>2. ASSUME NEW i \in 1 .. Len(helper.queue)
        PROVE  helper.pts <= helper.queue[i].pts + MaxProofs
    <3>1. helper.queue[i].pts + Len(helper.queue) + 1 = helper.pts + i
      BY <2>1 DEF Sound, Recent
    <3>2. Len(helper.queue) \in Nat /\ helper.queue[i].pts \in Nat
      BY <2>1, QueueTyped
    <3>3. helper.queue[i].pts + Len(helper.queue) >= helper.pts
      BY <2>1, <3>1, <3>2
    <3> QED
      BY <2>1, <3>2, <3>3, Bounds
  <2>3. helper.pts <= b.pts + MaxProofs
    BY <2>2 DEF Queued
  <2>4. Queued = Elems(helper.queue)
    BY DEF Queued, Elems
  <2> QED
    BY <2>1, <2>3, <2>4 DEF Sound, Kept
<1> QED
  BY <1>1, <1>2

\* A helper that is started, or none, fits.
LEMMA StartFits ==
  ASSUME NEW a \in {"none", "top"}, NEW o \in Stream \cup {None}
  PROVE  Fits([Idle EXCEPT !.at = a, !.owner = o]) /\ Fits(Idle)
<1>1. 0 \in Serial /\ 0 \in Pts /\ 0 <= QueueCap /\ 0 <= EventCap /\ 0 <= OutCap
  BY Bounds DEF Serial, Pts
<1>2. /\ Sound(<<>>, {}, {}, 0) /\ IsFiniteSet({})
      /\ Cardinality({}) <= MaxProofs /\ Cardinality({}) <= EncoderCap
  BY <1>1, SoundEmpty
<1>3. <<>> \in Seq(Buffer) /\ <<>> \in Seq(Message) /\ Len(<<>>) = 0
  OBVIOUS
<1>4. [Idle EXCEPT !.at = a, !.owner = o] \in Helper /\ Idle \in Helper
  BY <1>1, <1>3 DEF Idle, Helper
<1> QED
  BY <1>1, <1>2, <1>3, <1>4 DEF Fits, Idle

\* A helper that has ended fits.
LEMMA ExitedFits ==
  ASSUME helper.owner \in Stream \cup {None}, NEW out \in Seq(Message), Len(out) <= OutCap
  PROVE  Fits(Exited(out))
<1>1. 0 \in Serial /\ 0 \in Pts /\ 0 <= QueueCap /\ 0 <= EventCap
  BY Bounds DEF Serial, Pts
<1>2. /\ Sound(<<>>, {}, {}, 0) /\ IsFiniteSet({})
      /\ Cardinality({}) <= MaxProofs /\ Cardinality({}) <= EncoderCap
  BY <1>1, SoundEmpty
<1>3. <<>> \in Seq(Buffer) /\ <<>> \in Seq(Message) /\ Len(<<>>) = 0
  OBVIOUS
<1>4. Exited(out) \in Helper
  BY <1>1, <1>3 DEF Exited, Idle, Helper
<1> QED
  BY <1>1, <1>2, <1>3, <1>4 DEF Fits, Exited, Idle

\* The agent starts with a free slot and no helper.
LEMMA InitIInv == Init => IInv
<1> SUFFICES ASSUME Init PROVE IInv
  BY DEF Init
<1>1. Fits(helper)
  BY StartFits DEF Init
<1>2. AgentTyped
  BY Bounds DEF Init, AgentTyped, Serial
<1>3. OneOwner /\ ProofHonest
  BY DEF Init, OneOwner, ProofHonest, Holding
<1> QED
  BY <1>1, <1>2, <1>3 DEF IInv

\* A step of a stream task.
LEMMA StreamStep ==
  ASSUME IInv, NEW s \in Stream, StreamNext(s)
  PROVE  IInv'
<1> USE DEF IInv, AgentTyped, OneOwner, ProofHonest, Go, manager, Holding
<1>0. 0 \in Serial /\ None \notin Stream
  BY Bounds DEF Serial
<1>1. CASE Get(s)
  BY <1>1 DEF Get
<1>2. CASE Begin(s)
  <2>1. CASE active = None
    BY <1>0, <1>2, <2>1 DEF Begin
  <2>2. CASE active # None
    BY <1>2, <2>2 DEF Begin
  <2> QED
    BY <2>1, <2>2
<1>3. CASE Start(s)
  <2>1. Fits(helper')
    BY <1>3, StartFits DEF Start
  <2> QED
    BY <1>3, <2>1 DEF Start
<1>4. CASE StartFails(s)
  BY <1>0, <1>4 DEF StartFails
<1>5. CASE Receive(s)
  <2>1. helper.out \in Seq(Message) /\ helper.out # <<>> /\ Len(helper.out) <= OutCap
    BY <1>5 DEF Receive, Fits, Helper
  <2>2. /\ Head(helper.out) \in Message /\ Tail(helper.out) \in Seq(Message)
        /\ Len(helper.out) \in Nat /\ Len(Tail(helper.out)) = Len(helper.out) - 1
    BY <2>1, TailElements
  <2>3. Len(Tail(helper.out)) <= OutCap
    BY <2>1, <2>2, Bounds
  <2>4. Fits(helper')
    BY <1>5, <2>2, <2>3 DEF Receive, Fits, Helper
  <2>5. seen' \in Serial
    BY <1>5, <2>2 DEF Receive, Message
  <2> QED
    BY <1>5, <2>4, <2>5 DEF Receive
<1>6. CASE Leave(s)
  BY <1>6 DEF Leave
<1>7. CASE Reap(s)
  <2>1. Fits(helper')
    BY <1>7, StartFits DEF Reap
  <2> QED
    BY <1>0, <1>7, <2>1 DEF Reap
<1>8. CASE Finish(s)
  BY <1>0, <1>8 DEF Finish
<1>9. CASE Ping(s)
  BY <1>9 DEF Ping
<1>10. CASE PongSent(s)
  BY <1>10 DEF PongSent
<1> QED
  BY <1>1, <1>2, <1>3, <1>4, <1>5, <1>6, <1>7, <1>8, <1>9, <1>10 DEF StreamNext

\* A step of the media manager.
LEMMA ManagerStep ==
  ASSUME IInv, Approve \/ ClearSources \/ CancelActive
  PROVE  IInv'
<1> USE DEF IInv, AgentTyped, OneOwner, ProofHonest, manager
<1>1. CASE Approve
  BY <1>1 DEF Approve
<1>2. CASE ClearSources
  <2>1. cancel' \subseteq Stream /\ approved' \in BOOLEAN
    BY <1>2 DEF ClearSources
  <2> QED
    BY <1>2, <2>1 DEF ClearSources
<1>3. CASE CancelActive
  BY <1>3 DEF CancelActive
<1> QED
  BY <1>1, <1>2, <1>3

-----------------------------------------------------------------------------
(* The steps of the helper. *)

\* What the helper does leaves the agent alone.
LEMMA AgentUntouched ==
  ASSUME IInv, Fits(helper'), UNCHANGED agent, honest' \in BOOLEAN, ProofHonest'
  PROVE  IInv'
BY DEF IInv, AgentTyped, OneOwner, agent

\* A step of the main loop.
LEMMA LoopStep ==
  ASSUME IInv, Select \/ Push \/ WriteStatus \/ Exit
  PROVE  Fits(helper')
<1> USE DEF IInv, Fits
<1>0. /\ helper \in Helper /\ helper.out \in Seq(Message) /\ helper.events \in Seq(Message)
      /\ helper.queue \in Seq(Buffer) /\ helper.proofs \in SUBSET Proof
      /\ helper.encoder \in SUBSET Buffer
      /\ Len(helper.out) \in Nat /\ Len(helper.events) \in Nat /\ Len(helper.queue) \in Nat
      /\ helper.latest \in Serial /\ helper.last \in Serial /\ helper.pts \in Pts
  BY LenProperties DEF Helper
<1>1. ASSUME NEW m \in Message, Len(helper.out) < OutCap
      PROVE  Append(helper.out, m) \in Seq(Message) /\ Len(Append(helper.out, m)) <= OutCap
  <2>1. Append(helper.out, m) \in Seq(Message) /\ Len(Append(helper.out, m)) = Len(helper.out) + 1
    BY <1>0, AppendProperties
  <2> QED
    BY <1>0, <1>1, <2>1, Bounds
<1>2. CASE Select
  <2>1. ASSUME helper.events # <<>>, Len(helper.out) < OutCap,
               helper' = [helper EXCEPT !.at = "push", !.events = Tail(@),
                                        !.out = Append(@, Head(helper.events))]
        PROVE  Fits(helper')
    <3>1. /\ Head(helper.events) \in Message /\ Tail(helper.events) \in Seq(Message)
          /\ Len(Tail(helper.events)) = Len(helper.events) - 1
      BY <1>0, <2>1, TailElements
    <3>2. Len(Tail(helper.events)) <= EventCap
      BY <1>0, <3>1, Bounds
    <3>3. /\ Append(helper.out, Head(helper.events)) \in Seq(Message)
          /\ Len(Append(helper.out, Head(helper.events))) <= OutCap
      BY <1>1, <2>1, <3>1
    <3> QED
      BY <1>0, <2>1, <3>1, <3>2, <3>3 DEF Helper
  <2>2. ASSUME helper' = [helper EXCEPT !.at = "push"]
        PROVE  Fits(helper')
    BY <1>0, <2>2 DEF Helper
  <2> QED
    BY <1>2, <2>1, <2>2 DEF Select
<1>3. CASE Push
  <2> DEFINE new == Fresh(helper.latest)
             kept == IF Len(helper.queue) < QueueCap THEN helper.queue ELSE Tail(helper.queue)
             q == Append(kept, [pts |-> helper.pts, serial |-> helper.latest, new |-> new])
             added == IF new THEN Inserted(helper.proofs, [pts |-> helper.pts, serial |-> helper.latest])
                             ELSE helper.proofs
  <2>1. CASE helper' = [helper EXCEPT !.at = "status"]
    BY <1>0, <2>1 DEF Helper
  <2>2. ASSUME helper.pts < MaxPts,
               helper' = [helper EXCEPT !.at = "status", !.pts = @ + 1, !.last = helper.latest,
                                        !.queue = q, !.proofs = added]
        PROVE  Fits(helper')
    <3>1. kept \in Seq(Buffer) /\ Len(kept) < QueueCap /\ Sound(kept, helper.encoder, helper.proofs, helper.pts)
      <4>1. CASE Len(helper.queue) < QueueCap
        BY <1>0, <4>1
      <4>2. CASE ~(Len(helper.queue) < QueueCap)
        <5>1. helper.queue # <<>> /\ Len(helper.queue) = QueueCap /\ QueueCap \in Nat
          BY <1>0, <4>2, Bounds, EmptySeq
        <5>2. Tail(helper.queue) \in Seq(Buffer) /\ Len(Tail(helper.queue)) = Len(helper.queue) - 1
          BY <1>0, <5>1, TailElements
        <5>3. Sound(Tail(helper.queue), helper.encoder, helper.proofs, helper.pts)
          BY <1>0, <5>1, SoundTail
        <5>4. kept = Tail(helper.queue)
          BY <4>2
        <5> HIDE DEF kept
        <5> QED
          BY <5>1, <5>2, <5>3, <5>4
      <4> QED
        BY <4>1, <4>2
    <3>2. new \in BOOLEAN
      BY DEF Fresh
    <3> HIDE DEF kept, new
    <3>3. /\ added \in SUBSET Proof /\ IsFiniteSet(added) /\ Cardinality(added) <= MaxProofs
          /\ q \in Seq(Buffer) /\ Len(q) <= QueueCap /\ Sound(q, helper.encoder, added, helper.pts + 1)
      <4> DEFINE e == helper.encoder
                 p == helper.proofs
                 n == helper.pts
                 b == [pts |-> n, serial |-> helper.latest, new |-> new]
      <4>1. /\ e \in SUBSET Buffer /\ p \in SUBSET Proof /\ n \in Pts /\ n < MaxPts
            /\ Sound(kept, e, p, n) /\ IsFiniteSet(p) /\ Cardinality(p) <= MaxProofs
        BY <1>0, <2>2, <3>1
      <4>2. b \in Buffer /\ b.pts = n
        BY <1>0, <3>2 DEF Buffer
      <4>3. q = Append(kept, b) /\ added = Added(p, b)
        BY DEF Added
      <4> HIDE DEF e, p, n, b, q, added, IInv, Fits
      <4>4. /\ Added(p, b) \in SUBSET Proof /\ IsFiniteSet(Added(p, b)) /\ Cardinality(Added(p, b)) <= MaxProofs
            /\ Append(kept, b) \in Seq(Buffer) /\ Len(Append(kept, b)) <= QueueCap
            /\ Sound(Append(kept, b), e, Added(p, b), n + 1)
        BY <3>1, <4>1, <4>2, SoundPush
      <4> QED
        BY <4>3, <4>4 DEF e, n
    <3> HIDE DEF q, added
    <3>4. helper.pts + 1 \in Pts
      BY <1>0, <2>2, Bounds DEF Pts
    <3> QED
      BY <1>0, <2>2, <3>3, <3>4 DEF Helper
  <2> QED
    BY <1>3, <2>1, <2>2 DEF Push
<1>4. CASE WriteStatus
  <2>1. ASSUME helper' = [helper EXCEPT !.at = "top"]
        PROVE  Fits(helper')
    BY <1>0, <2>1 DEF Helper
  <2>2. ASSUME Len(helper.out) < OutCap,
               helper' = [helper EXCEPT !.at = "top", !.out = Append(@, [type |-> "Signal"])]
        PROVE  Fits(helper')
    <3>1. [type |-> "Signal"] \in Message
      BY DEF Message
    <3>2. /\ Append(helper.out, [type |-> "Signal"]) \in Seq(Message)
          /\ Len(Append(helper.out, [type |-> "Signal"])) <= OutCap
      BY <1>1, <2>2, <3>1
    <3> QED
      BY <1>0, <2>2, <3>2 DEF Helper
  <2> QED
    BY <1>4, <2>1, <2>2 DEF WriteStatus
<1>5. CASE Exit
  <2>1. [type |-> "Stopped"] \in Message
    BY DEF Message
  <2>2. /\ Append(helper.out, [type |-> "Stopped"]) \in Seq(Message)
        /\ Len(Append(helper.out, [type |-> "Stopped"])) <= OutCap
    BY <1>1, <1>5, <2>1 DEF Exit
  <2> QED
    BY <1>0, <1>5, <2>2, ExitedFits DEF Exit, Helper
<1> QED
  BY <1>2, <1>3, <1>4, <1>5

\* A step of a callback, of the pipeline or of the process.
LEMMA CallbackStep ==
  ASSUME IInv, Capture \/ StdinEnds \/ Feed \/ EncoderDrop \/ Negotiate \/ BusMessage \/ Abort
  PROVE  Fits(helper')
<1> USE DEF IInv, Fits
<1>0. /\ helper \in Helper /\ helper.queue \in Seq(Buffer) /\ helper.proofs \in SUBSET Proof
      /\ helper.encoder \in SUBSET Buffer /\ Len(helper.queue) \in Nat /\ helper.latest \in Serial /\ helper.pts \in Pts
  BY LenProperties DEF Helper
<1>1. CASE Capture
  <2>1. helper.latest + 1 \in Serial
    BY <1>0, <1>1, Bounds DEF Capture, Serial
  <2> QED
    BY <1>0, <1>1, <2>1 DEF Capture, Helper
<1>2. CASE StdinEnds
  BY <1>0, <1>2 DEF StdinEnds, Helper
<1>3. CASE EncoderDrop
  <2>1. PICK b \in helper.encoder : helper' = [helper EXCEPT !.encoder = @ \ {b}]
    BY <1>3 DEF EncoderDrop
  <2>2. Sound(helper.queue, helper.encoder \ {b}, helper.proofs, helper.pts)
    BY <1>0, SoundLeaves
  <2>3. IsFiniteSet(helper.encoder \ {b}) /\ Cardinality(helper.encoder \ {b}) <= EncoderCap
    BY EncoderCounts
  <2> QED
    BY <1>0, <2>1, <2>2, <2>3 DEF Helper
<1>a. CASE Feed
  <2> DEFINE b == Head(helper.queue)
  <2>1. /\ Tail(helper.queue) \in Seq(Buffer) /\ Len(Tail(helper.queue)) = Len(helper.queue) - 1
        /\ b \in Buffer
    BY <1>0, <1>a, TailElements DEF Feed
  <2>2. Sound(Tail(helper.queue), helper.encoder \cup {b}, helper.proofs, helper.pts)
    BY <1>0, <1>a, SoundTail DEF Feed
  <2>3. Len(Tail(helper.queue)) <= QueueCap
    BY <1>0, <2>1, Bounds
  <2>4. IsFiniteSet(helper.encoder \cup {b}) /\ Cardinality(helper.encoder \cup {b}) <= EncoderCap
    BY <1>a, EncoderCounts DEF Feed
  <2>5. helper' = [helper EXCEPT !.queue = Tail(@), !.encoder = @ \cup {b}]
    BY <1>a DEF Feed
  <2> HIDE DEF b
  <2> QED
    BY <1>0, <2>1, <2>2, <2>3, <2>4, <2>5 DEF Helper
<1>4. ASSUME NEW m \in Message
      PROVE  Fits(Emit(helper, m)) /\ Fits([Emit(helper, m) EXCEPT !.stop = TRUE])
  <2> DEFINE e == Emit(helper, m)
  <2>1. /\ e \in Helper /\ Len(e.events) <= EventCap /\ e.queue = helper.queue
        /\ e.encoder = helper.encoder /\ e.proofs = helper.proofs /\ e.pts = helper.pts /\ e.out = helper.out
    BY <1>0, EmitKeeps
  <2> HIDE DEF e
  <2>2. Fits(e) /\ Fits([e EXCEPT !.stop = TRUE])
    BY <2>1 DEF Helper
  <2> QED
    BY <2>2 DEF e
<1>5. [type |-> "Signal"] \in Message /\ [type |-> "Error"] \in Message
  BY DEF Message
<1>6. Fits([helper EXCEPT !.stop = TRUE])
  BY <1>0 DEF Helper
<1>7. CASE Negotiate
  BY <1>4, <1>5, <1>7 DEF Negotiate
<1>8. CASE BusMessage
  BY <1>4, <1>5, <1>6, <1>8 DEF BusMessage
<1>9. CASE Abort
  <2>1. helper.out \in Seq(Message) /\ helper.owner \in Stream \cup {None}
    BY <1>0 DEF Helper
  <2> QED
    BY <1>9, <2>1, ExitedFits DEF Abort
<1> QED
  BY <1>1, <1>2, <1>3, <1>a, <1>7, <1>8, <1>9

\* The pad probe: the serial it proves is the encoded buffer's.
LEMMA EncodedStep ==
  ASSUME IInv, Encoded
  PROVE  Fits(helper') /\ honest' \in BOOLEAN /\ ProofHonest'
<1> USE DEF IInv, Fits
<1>p. PICK b \in helper.encoder :
        LET mine == {p \in helper.proofs : p.pts = b.pts}
            h == [helper EXCEPT !.encoder = @ \ {b}, !.proofs = @ \ mine]
        IN  IF mine = {} THEN helper' = h /\ UNCHANGED honest
            ELSE \E p \in mine :
                   /\ helper' = Emit(h, [type |-> "Frame", serial |-> p.serial])
                   /\ honest' = (honest /\ p.serial = b.serial)
  BY DEF Encoded
<1> DEFINE mine == {p \in helper.proofs : p.pts = b.pts}
           h == [helper EXCEPT !.encoder = @ \ {b}, !.proofs = @ \ mine]
<1>0. /\ helper \in Helper /\ helper.queue \in Seq(Buffer) /\ helper.proofs \in SUBSET Proof
      /\ helper.encoder \in SUBSET Buffer /\ helper.pts \in Pts
  BY DEF Helper
<1>1. b \in Buffer
  BY <1>0
<1>2. IsFiniteSet(helper.encoder \ {b}) /\ Cardinality(helper.encoder \ {b}) <= EncoderCap
  BY EncoderCounts
<1>3. /\ Sound(helper.queue, helper.encoder \ {b}, helper.proofs \ mine, helper.pts)
      /\ \A p \in mine : p.serial = b.serial
  <2> DEFINE u == helper.queue
             e == helper.encoder
             x == helper.proofs
             n == helper.pts
  <2>1. /\ u \in Seq(Buffer) /\ e \in SUBSET Buffer /\ x \in SUBSET Proof /\ n \in Pts /\ b \in e
        /\ Sound(u, e, x, n)
    BY <1>0
  <2> HIDE DEF u, e, x, n, IInv, Fits
  <2>2. Sound(u, e \ {b}, Left(x, b), n)
    BY <2>1, SoundLeaves
  <2>3. \A p \in x : p.pts = b.pts => p.serial = b.serial
    BY <2>1 DEF Sound, ProofsMatch
  <2> QED
    BY <2>2, <2>3 DEF u, e, x, n, Left
<1>4. IsFiniteSet(helper.proofs \ mine) /\ Cardinality(helper.proofs \ mine) <= MaxProofs
  <2>1. /\ IsFiniteSet(helper.proofs \ mine)
        /\ Cardinality(helper.proofs \ mine) <= Cardinality(helper.proofs)
    BY FS_Subset
  <2>2. Cardinality(helper.proofs \ mine) \in Nat /\ Cardinality(helper.proofs) \in Nat
    BY <2>1, FS_CardinalityType
  <2> QED
    BY <2>1, <2>2, Bounds
<1>5. mine \in SUBSET Proof /\ helper.proofs \ mine \in SUBSET Proof
  BY <1>0
<1> HIDE DEF mine
<1>6. Fits(h) /\ h \in Helper
  BY <1>0, <1>1, <1>2, <1>3, <1>4, <1>5 DEF Helper
<1>7. CASE mine = {} /\ helper' = h /\ UNCHANGED honest
  BY <1>6, <1>7 DEF AgentTyped, ProofHonest
<1>8. ASSUME NEW p \in mine, helper' = Emit(h, [type |-> "Frame", serial |-> p.serial]),
             honest' = (honest /\ p.serial = b.serial)
      PROVE  Fits(helper') /\ honest' \in BOOLEAN /\ ProofHonest'
  <2>1. p.serial \in Serial /\ b.serial \in Serial /\ p.serial = b.serial
    BY <1>1, <1>3, <1>5 DEF Proof, Buffer
  <2>2. [type |-> "Frame", serial |-> p.serial] \in Message
    BY <2>1 DEF Message
  <2> HIDE DEF h
  <2>3. /\ helper' \in Helper /\ Len(helper'.events) <= EventCap /\ helper'.queue = h.queue
        /\ helper'.encoder = h.encoder /\ helper'.proofs = h.proofs /\ helper'.pts = h.pts /\ helper'.out = h.out
    BY <1>6, <1>8, <2>2, EmitKeeps
  <2>4. Fits(helper')
    BY <1>6, <2>3
  <2> QED
    BY <1>8, <2>1, <2>4 DEF ProofHonest
<1> QED
  BY <1>p, <1>7, <1>8 DEF mine, h

-----------------------------------------------------------------------------
(* The theorems. *)

\* Every step preserves the inductive invariant (media.rs, native.rs, pump.rs).
THEOREM Invariance == Spec => []IInv
<1>1. IInv /\ [Next]_vars => IInv'
  <2> SUFFICES ASSUME IInv, [Next]_vars PROVE IInv'
    OBVIOUS
  <2>1. CASE \E s \in Stream : StreamNext(s)
    BY <2>1, StreamStep
  <2>2. CASE Approve \/ ClearSources \/ CancelActive
    BY <2>2, ManagerStep
  <2>3. CASE HelperNext
    <3>1. CASE Encoded
      BY <3>1, EncodedStep, AgentUntouched DEF Encoded
    <3>2. CASE HelperNext /\ ~Encoded
      <4>1. Fits(helper')
        BY <3>2, LoopStep, CallbackStep DEF HelperNext
      <4>2. UNCHANGED <<agent, honest>>
        BY <3>2 DEF HelperNext, Capture, Select, StdinEnds, Push, Feed, WriteStatus, EncoderDrop,
                    Negotiate, BusMessage, Exit, Abort
      <4>3. honest' \in BOOLEAN /\ ProofHonest'
        BY <4>2 DEF IInv, AgentTyped, ProofHonest
      <4> QED
        BY <4>1, <4>2, <4>3, AgentUntouched
    <3> QED
      BY <2>3, <3>1, <3>2
  <2>4. CASE UNCHANGED vars
    BY <2>4 DEF IInv, AgentTyped, OneOwner, ProofHonest, vars
  <2> QED
    BY <2>1, <2>2, <2>3, <2>4 DEF Next
<1> QED
  BY <1>1, InitIInv, PTL DEF Spec

\* Every variable keeps its type, and every queue and map its limit.
THEOREM TypeCorrect == Spec => []TypeOK
BY Invariance, Strong, PTL

\* The media slot has one owner, which every stream past begin is (media.rs: begin, finish).
THEOREM SlotOwned == Spec => []OneOwner
<1>1. IInv => OneOwner
  BY DEF IInv
<1> QED
  BY <1>1, Invariance, PTL

\* A Frame message proves the serial of the buffer that was encoded (native.rs, pad probe).
THEOREM FramesHonest == Spec => []ProofHonest
<1>1. IInv => ProofHonest
  BY DEF IInv
<1> QED
  BY <1>1, Invariance, PTL

\* The bounded map keeps the proof of every buffer in the leaky queue, and of a buffer in the
\* encoder as long as at most MaxProofs buffers were pushed from it on (FreshProofMap).
THEOREM ProofsKept == Spec => []ProofKept
BY Invariance, Strong, PTL
=============================================================================
