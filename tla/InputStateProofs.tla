-------------------------- MODULE InputStateProofs ---------------------------
(***************************************************************************)
(* Proofs about InputState for every set of devices, connections and ids,  *)
(* every lease length, epoch width, sequence bound and ledger limit.       *)
(***************************************************************************)
EXTENDS InputState, SequenceTheorems, TLAPS

\* Every lease operation yields a lease value (lease.rs).
LEMMA LeaseClosed ==
  ASSUME NEW l \in LeaseValue, NEW c \in Client, NEW k \in Connection
  PROVE  /\ Clear(l) \in LeaseValue
         /\ Live(l) => Extend(l) \in LeaseValue
         /\ (l.epoch < MaxEpoch \/ (Live(l) /\ HeldBy(l, c, k)))
              => Acquired(l, c, k) \in LeaseValue
         /\ ConnectionRevoked(l, k) \in LeaseValue
         /\ ClientRevoked(l, c) \in LeaseValue
         /\ Elapse(l) \in LeaseValue
<1> USE LeaseAssumption DEF LeaseValue, Owner, Live
<1>1. Clear(l) \in LeaseValue
  BY DEF Clear
<1>2. Live(l) => Extend(l) \in LeaseValue
  BY DEF Extend
<1>3. (l.epoch < MaxEpoch \/ (Live(l) /\ HeldBy(l, c, k)))
        => Acquired(l, c, k) \in LeaseValue
  BY <1>2 DEF Acquired, HeldBy
<1>4. ConnectionRevoked(l, k) \in LeaseValue
  BY <1>1 DEF ConnectionRevoked
<1>5. ClientRevoked(l, c) \in LeaseValue
  BY <1>1 DEF ClientRevoked
<1>6. Elapse(l) \in LeaseValue
  BY DEF Elapse
<1> QED
  BY <1>1, <1>2, <1>3, <1>4, <1>5, <1>6

\* A grant keeps its epoch or is issued under the next one; nothing else
\* changes the epoch, and no operation brings an owner back (lease.rs).
LEMMA LeaseSteps ==
  ASSUME NEW l \in LeaseValue, NEW c \in Client, NEW k \in Connection
  PROVE  /\ Clear(l).epoch = l.epoch /\ Clear(l).owner = NoOwner
         /\ Live(l) => /\ Extend(l).epoch = l.epoch
                       /\ Extend(l).owner # NoOwner
                       /\ Extend(l).owner.client = l.owner.client
                       /\ Extend(l).owner.connection = l.owner.connection
         /\ Elapse(l).epoch = l.epoch
         /\ Elapse(l).owner = NoOwner <=> l.owner = NoOwner
         /\ l.owner # NoOwner => /\ Elapse(l).owner.client = l.owner.client
                                 /\ Elapse(l).owner.connection = l.owner.connection
         /\ ConnectionRevoked(l, k) \in {l, Clear(l)}
         /\ ClientRevoked(l, c) \in {l, Clear(l)}
<1> USE LeaseAssumption DEF LeaseValue, Owner, Live
<1>1. Clear(l).epoch = l.epoch /\ Clear(l).owner = NoOwner
  BY DEF Clear
<1>2. Live(l) => /\ Extend(l).epoch = l.epoch
                 /\ Extend(l).owner # NoOwner
                 /\ Extend(l).owner.client = l.owner.client
                 /\ Extend(l).owner.connection = l.owner.connection
  <2>1. SUFFICES ASSUME Live(l)
                 PROVE  /\ Extend(l).epoch = l.epoch
                        /\ Extend(l).owner = [l.owner EXCEPT !.left = Ttl]
                        /\ Extend(l).owner \in Owner
    BY <2>1
  <2> QED
    BY <2>1 DEF Extend
<1>3. /\ Elapse(l).epoch = l.epoch
      /\ Elapse(l).owner = NoOwner <=> l.owner = NoOwner
      /\ l.owner # NoOwner => /\ Elapse(l).owner.client = l.owner.client
                              /\ Elapse(l).owner.connection = l.owner.connection
  <2>1. CASE Live(l)
    <3>1. /\ Elapse(l).epoch = l.epoch
          /\ Elapse(l).owner = [l.owner EXCEPT !.left = @ - 1]
          /\ Elapse(l).owner \in Owner
      BY <2>1 DEF Elapse
    <3> QED
      BY <2>1, <3>1
  <2>2. CASE ~Live(l)
    BY <2>2 DEF Elapse
  <2> QED
    BY <2>1, <2>2
<1>4. ConnectionRevoked(l, k) \in {l, Clear(l)} /\ ClientRevoked(l, c) \in {l, Clear(l)}
  BY DEF ConnectionRevoked, ClientRevoked
<1> QED
  BY <1>1, <1>2, <1>3, <1>4

LEMMA InitInv == Init => IInv
<1> SUFFICES ASSUME Init PROVE IInv
  OBVIOUS
<1>1. lease \in LeaseValue
  BY LeaseAssumption DEF Init, NewLease, LeaseValue
<1>2. Len(accepted) = 0 /\ accepted \in Seq(InputRecord)
  BY DEF Init
<1>3. LedgerTypeOK
  <2>1. /\ ledger = [highest |-> << >>, ids |-> << >>, outcomes |-> << >>]
        /\ DOMAIN ledger.highest = {}
        /\ DOMAIN ledger.outcomes = {}
        /\ Len(ledger.ids) = 0
    BY DEF Init, NewLedger
  <2> QED
    BY <2>1, LedgerAssumption DEF LedgerTypeOK
<1>4. IdsAreRecent
  BY <1>2 DEF IdsAreRecent, Init, NewLedger
<1> QED
  BY <1>1, <1>2, <1>3, <1>4 DEF IInv, TypeOK, IssuedEpochs, OwnerCovered, NoReplay,
     OneWriterPerEpoch, IdWindow

\* The entries of the history are input records.
LEMMA AcceptedRecords ==
  ASSUME TypeOK, NEW i \in 1..Len(accepted)
  PROVE  /\ accepted[i] \in InputRecord
         /\ accepted[i].lease \in Nat
         /\ accepted[i].seq \in Nat
<1>1. accepted[i] \in InputRecord
  BY DEF TypeOK
<1>2. accepted[i].lease \in Epoch /\ accepted[i].seq \in 1..MaxSeq
  BY <1>1 DEF InputRecord
<1> QED
  BY <1>1, <1>2, LeaseAssumption, LedgerAssumption DEF Epoch

LEMMA UnchangedStep ==
  ASSUME IInv, lease' = lease, ledger' = ledger, accepted' = accepted
  PROVE  IInv'
<1> USE DEF IInv
<1>1. TypeOK'
  BY DEF TypeOK, LedgerTypeOK
<1>2. IssuedEpochs' /\ OwnerCovered' /\ IdsAreRecent'
  BY DEF IssuedEpochs, OwnerCovered, IdsAreRecent
<1>3. NoReplay' /\ OneWriterPerEpoch' /\ IdWindow'
  BY DEF NoReplay, OneWriterPerEpoch, IdWindow
<1> QED
  BY <1>1, <1>2, <1>3

\* A step that touches only the lease preserves the invariant when it clears
\* the owner, keeps the owner and the epoch, or issues a new epoch.
LEMMA LeaseOnlyStep ==
  ASSUME IInv, lease' \in LeaseValue, ledger' = ledger, accepted' = accepted,
         \/ lease'.epoch = lease.epoch /\ lease'.owner = NoOwner
         \/ /\ lease'.epoch = lease.epoch
            /\ lease.owner # NoOwner
            /\ lease'.owner.client = lease.owner.client
            /\ lease'.owner.connection = lease.owner.connection
         \/ lease'.epoch = lease.epoch + 1
  PROVE  IInv'
<1> USE DEF IInv
<1>1. lease.epoch \in Nat /\ lease'.epoch \in Nat
  BY LeaseAssumption DEF TypeOK, LeaseValue
<1>2. \A i \in 1..Len(accepted) : accepted[i].lease \in Nat
  BY AcceptedRecords
<1>3. TypeOK'
  BY DEF TypeOK, LedgerTypeOK
<1>4. IssuedEpochs'
  BY <1>1, <1>2 DEF IssuedEpochs
<1>5. OwnerCovered'
  BY <1>1, <1>2 DEF OwnerCovered, IssuedEpochs
<1>6. IdsAreRecent' /\ NoReplay' /\ OneWriterPerEpoch' /\ IdWindow'
  BY DEF IdsAreRecent, NoReplay, OneWriterPerEpoch, IdWindow
<1> QED
  BY <1>3, <1>4, <1>5, <1>6

\* Recording an outcome changes neither the ids nor the sequences
\* (InputLedger::finish).
LEMMA FinishStep ==
  ASSUME IInv, NEW id \in InputId, NEW status \in Status, Finish(id, status)
  PROVE  IInv'
<1> USE DEF IInv, Finish
<1>1. CASE id \notin DOMAIN ledger.outcomes
  <2>1. lease' = lease /\ ledger' = ledger /\ accepted' = accepted
    BY <1>1 DEF Finished
  <2> QED
    BY <2>1, UnchangedStep
<1>2. CASE id \in DOMAIN ledger.outcomes
  <2>1. lease' = lease /\ accepted' = accepted
        /\ ledger' = [ledger EXCEPT !.outcomes = [ledger.outcomes EXCEPT ![id] = status]]
    BY <1>2 DEF Finished
  <2>2. /\ DOMAIN ledger' = {"highest", "ids", "outcomes"}
        /\ ledger'.highest = ledger.highest
        /\ ledger'.ids = ledger.ids
        /\ ledger'.outcomes = [ledger.outcomes EXCEPT ![id] = status]
    BY <2>1 DEF TypeOK, LedgerTypeOK
  <2>3. /\ DOMAIN ledger'.outcomes = DOMAIN ledger.outcomes
        /\ \A i \in DOMAIN ledger'.outcomes : ledger'.outcomes[i] \in Status
    BY <2>2 DEF TypeOK, LedgerTypeOK
  <2>4. TypeOK'
    BY <2>1, <2>2, <2>3 DEF TypeOK, LedgerTypeOK
  <2>5. IssuedEpochs' /\ OwnerCovered' /\ IdsAreRecent'
    BY <2>1, <2>2 DEF IssuedEpochs, OwnerCovered, IdsAreRecent
  <2>6. NoReplay' /\ OneWriterPerEpoch' /\ IdWindow'
    BY <2>1 DEF NoReplay, OneWriterPerEpoch, IdWindow
  <2> QED
    BY <2>4, <2>5, <2>6
<1> QED
  BY <1>1, <1>2

\* The queue of ids after a push: one longer, or as long with its oldest id
\* dropped when the ledger is full (accept_limit, the push and the eviction).
LEMMA PushedIds ==
  ASSUME LedgerTypeOK, NEW id \in InputId
  PROVE  /\ Pushed(ledger, id) \in Seq(InputId)
         /\ Len(Pushed(ledger, id)) <= LedgerLimit
         /\ Len(ledger.ids) < LedgerLimit =>
              /\ Len(Pushed(ledger, id)) = Len(ledger.ids) + 1
              /\ \A i \in 1..Len(ledger.ids) : Pushed(ledger, id)[i] = ledger.ids[i]
              /\ Pushed(ledger, id)[Len(ledger.ids) + 1] = id
         /\ Len(ledger.ids) = LedgerLimit =>
              /\ Len(Pushed(ledger, id)) = Len(ledger.ids)
              /\ \A i \in 1..Len(ledger.ids) - 1 : Pushed(ledger, id)[i] = ledger.ids[i + 1]
              /\ Pushed(ledger, id)[Len(ledger.ids)] = id
<1>1. /\ ledger.ids \in Seq(InputId) /\ Len(ledger.ids) \in Nat
      /\ LedgerLimit \in Nat \ {0} /\ Len(ledger.ids) <= LedgerLimit
  BY LedgerAssumption DEF LedgerTypeOK
<1>2. CASE Len(ledger.ids) < LedgerLimit
  <2>1. Pushed(ledger, id) = Append(ledger.ids, id)
    BY <1>2 DEF Pushed
  <2> QED
    BY <1>1, <1>2, <2>1
<1>3. CASE Len(ledger.ids) = LedgerLimit
  <2>1. Pushed(ledger, id) = Append(Tail(ledger.ids), id) /\ ledger.ids # << >>
    BY <1>1, <1>3 DEF Pushed
  <2>2. /\ Tail(ledger.ids) \in Seq(InputId)
        /\ Len(Tail(ledger.ids)) = Len(ledger.ids) - 1
        /\ \A i \in 1..Len(ledger.ids) - 1 : Tail(ledger.ids)[i] = ledger.ids[i + 1]
    BY <1>1, <2>1
  <2> QED
    BY <1>1, <1>3, <2>1, <2>2
<1> QED
  BY <1>1, <1>2, <1>3

\* An accepted input preserves the invariant: verify pins it to the current
\* owner and epoch, and the ledger entry of that owner bounds every earlier
\* sequence of the epoch (Session::enqueue, lines 395-397).
LEMMA AcceptStep ==
  ASSUME IInv, NEW c \in Client, NEW k \in Connection, NEW e \in Epoch,
         NEW id \in InputId, NEW seq, NEW bytes, NEW max, NEW status \in Status,
         Accept(c, k, e, id, seq, bytes, max, status)
  PROVE  IInv'
<1> DEFINE n == Len(accepted)
           m == Len(ledger.ids)
           new == [client |-> c, connection |-> k, lease |-> e, id |-> id, seq |-> seq]
<1>1. /\ TypeOK /\ LedgerTypeOK /\ IssuedEpochs /\ OwnerCovered
      /\ IdsAreRecent /\ NoReplay /\ OneWriterPerEpoch /\ IdWindow
  BY DEF IInv, TypeOK
<1>2. /\ seq \in 1..MaxSeq
      /\ lease.owner # NoOwner /\ lease.owner.client = c /\ lease.owner.connection = k
      /\ lease.epoch = e
      /\ id \notin DOMAIN ledger.outcomes
      /\ <<k, e>> \in DOMAIN ledger.highest => ~(seq <= ledger.highest[<<k, e>>])
      /\ lease' = lease
  BY DEF Accept, Verify, Live, HeldBy, WithinBounds, Duplicate
<1>3. new \in InputRecord /\ new.client = c /\ new.connection = k /\ new.lease = e
      /\ new.id = id /\ new.seq = seq
  BY <1>2 DEF InputRecord
<1>4. accepted' = Append(accepted, new) /\ accepted \in Seq(InputRecord)
  BY <1>1 DEF Accept, TypeOK
<1>5. /\ ledger'.highest = [key \in {<<k, e>>} |-> seq]
      /\ ledger'.ids = Pushed(ledger, id)
      /\ ledger'.outcomes = [i \in Remembered(ledger, id) |->
                              IF i = id THEN status ELSE ledger.outcomes[i]]
      /\ DOMAIN ledger' = {"highest", "ids", "outcomes"}
  BY DEF Accept, Accepted
<1> HIDE DEF new
<1>6. /\ n \in Nat
      /\ accepted' \in Seq(InputRecord)
      /\ Len(accepted') = n + 1
      /\ \A i \in 1..n : accepted'[i] = accepted[i]
      /\ accepted'[n + 1] = new
  BY <1>3, <1>4
<1>7. /\ m \in Nat /\ m <= n /\ m <= LedgerLimit /\ LedgerLimit \in Nat \ {0}
      /\ m < LedgerLimit => m = n
      /\ \A i \in 1..m : ledger.ids[i] = accepted[n - m + i].id
  BY <1>1, LedgerAssumption DEF LedgerTypeOK, IdsAreRecent
<1>8. \A i \in 1..n : /\ accepted[i].lease \in Nat /\ accepted[i].seq \in Nat
                       /\ accepted[i] \in InputRecord
  BY <1>1, AcceptedRecords
<1>9. e \in Nat /\ seq \in Nat /\ MaxSeq \in Nat
  BY <1>2, LeaseAssumption, LedgerAssumption DEF Epoch
<1> HIDE DEF n, m
<1>10. \A i \in 1..n + 1 : i \in 1..n \/ i = n + 1
  BY <1>6
<1>11. IssuedEpochs'
  BY <1>1, <1>2, <1>3, <1>6, <1>9, <1>10 DEF IssuedEpochs, n
<1>12. \A i \in 1..n : accepted[i].lease = e =>
         /\ accepted[i].client = c
         /\ accepted[i].connection = k
         /\ accepted[i].seq < seq
  <2> SUFFICES ASSUME NEW i \in 1..n, accepted[i].lease = e
               PROVE  /\ accepted[i].client = c
                      /\ accepted[i].connection = k
                      /\ accepted[i].seq < seq
    OBVIOUS
  <2>1. /\ accepted[i].client = c
        /\ accepted[i].connection = k
        /\ <<k, e>> \in DOMAIN ledger.highest
        /\ accepted[i].seq <= ledger.highest[<<k, e>>]
    BY <1>1, <1>2 DEF OwnerCovered, n
  <2>2. ledger.highest[<<k, e>>] \in Nat
    BY <1>1, <1>9, <2>1 DEF LedgerTypeOK
  <2> QED
    BY <1>2, <1>8, <1>9, <2>1, <2>2
<1>13. /\ <<k, e>> \in DOMAIN ledger'.highest
       /\ ledger'.highest[<<k, e>>] = seq
       /\ DOMAIN ledger'.highest = {<<k, e>>}
  BY <1>5
<1>14. OwnerCovered'
  <2> SUFFICES ASSUME NEW i \in 1..n + 1, accepted'[i].lease = e
               PROVE  /\ accepted'[i].client = c
                      /\ accepted'[i].connection = k
                      /\ accepted'[i].seq <= seq
    BY <1>2, <1>6, <1>13 DEF OwnerCovered, n
  <2>1. CASE i \in 1..n
    BY <1>6, <1>8, <1>9, <1>12, <2>1
  <2>2. CASE i = n + 1
    BY <1>3, <1>6, <1>9, <2>2
  <2> QED
    BY <1>10, <2>1, <2>2
<1>15. NoReplay'
  <2> SUFFICES ASSUME NEW i \in 1..n + 1, NEW j \in 1..n + 1, i < j,
                      accepted'[i].connection = accepted'[j].connection,
                      accepted'[i].lease = accepted'[j].lease
               PROVE  accepted'[i].seq < accepted'[j].seq
    BY <1>6 DEF NoReplay, n
  <2>1. i \in 1..n
    BY <1>6
  <2>2. CASE j \in 1..n
    BY <1>1, <1>6, <2>1, <2>2 DEF NoReplay, n
  <2>3. CASE j = n + 1
    BY <1>3, <1>6, <1>12, <2>1, <2>3
  <2> QED
    BY <1>10, <2>2, <2>3
<1>16. OneWriterPerEpoch'
  <2> SUFFICES ASSUME NEW i \in 1..n + 1, NEW j \in 1..n + 1, i < j
               PROVE  /\ accepted'[i].lease <= accepted'[j].lease
                      /\ accepted'[i].lease = accepted'[j].lease =>
                           /\ accepted'[i].client = accepted'[j].client
                           /\ accepted'[i].connection = accepted'[j].connection
    BY <1>6 DEF OneWriterPerEpoch, n
  <2>1. i \in 1..n
    BY <1>6
  <2>2. CASE j \in 1..n
    BY <1>1, <1>6, <2>1, <2>2 DEF OneWriterPerEpoch, n
  <2>3. CASE j = n + 1
    <3>1. accepted[i].lease <= e
      BY <1>1, <1>2, <2>1 DEF IssuedEpochs, n
    <3> QED
      BY <1>3, <1>6, <1>12, <2>1, <2>3, <3>1
  <2> QED
    BY <1>10, <2>2, <2>3
<1>17. \A i \in 1..n : accepted[i].id = id => (n + 1) - i > LedgerLimit
  <2> SUFFICES ASSUME NEW i \in 1..n, accepted[i].id = id, (n + 1) - i <= LedgerLimit
               PROVE  FALSE
    BY <1>6, <1>7
  <2>1. i - (n - m) \in 1..m /\ n - m + (i - (n - m)) = i
    BY <1>6, <1>7
  <2>2. ledger.ids[i - (n - m)] = id
    BY <1>7, <2>1
  <2>3. id \in DOMAIN ledger.outcomes
    BY <1>1, <2>1, <2>2 DEF LedgerTypeOK, m
  <2> QED
    BY <1>2, <2>3
<1>18. IdWindow'
  <2> SUFFICES ASSUME NEW i \in 1..n + 1, NEW j \in 1..n + 1, i < j,
                      accepted'[i].id = accepted'[j].id
               PROVE  j - i > LedgerLimit
    BY <1>6 DEF IdWindow, n
  <2>1. i \in 1..n
    BY <1>6
  <2>2. CASE j \in 1..n
    BY <1>1, <1>6, <2>1, <2>2 DEF IdWindow, n
  <2>3. CASE j = n + 1
    BY <1>3, <1>6, <1>17, <2>1, <2>3
  <2> QED
    BY <1>10, <2>2, <2>3
<1>19. /\ ledger'.ids \in Seq(InputId)
       /\ Len(ledger'.ids) <= LedgerLimit
       /\ m < LedgerLimit =>
            /\ Len(ledger'.ids) = m + 1
            /\ \A i \in 1..m : ledger'.ids[i] = ledger.ids[i]
            /\ ledger'.ids[m + 1] = id
       /\ m = LedgerLimit =>
            /\ Len(ledger'.ids) = m
            /\ \A i \in 1..m - 1 : ledger'.ids[i] = ledger.ids[i + 1]
            /\ ledger'.ids[m] = id
  <2>1. ledger'.ids = Pushed(ledger, id)
    BY <1>5
  <2>2. LedgerTypeOK /\ id \in InputId
    BY <1>1
  <2> QED
    BY ONLY <2>1, <2>2, PushedIds DEF m
<1>20. IdsAreRecent'
  <2>1. CASE m < LedgerLimit
    <3>1. ASSUME NEW i \in 1..m + 1
          PROVE  ledger'.ids[i] = accepted'[(n + 1) - (m + 1) + i].id
      <4>1. n = m /\ (n + 1) - (m + 1) + i = i /\ n - m + i = i
        BY <1>7, <2>1
      <4>2. CASE i = m + 1
        BY <1>3, <1>6, <1>19, <2>1, <4>1, <4>2
      <4>3. CASE i \in 1..m
        BY <1>6, <1>7, <1>19, <2>1, <4>1, <4>3
      <4> QED
        BY <1>7, <4>2, <4>3
    <3>2. Len(ledger'.ids) = m + 1 /\ Len(accepted') = n + 1 /\ m = n
      BY <1>6, <1>7, <1>19, <2>1
    <3>3. \A i \in 1..Len(ledger'.ids) :
            ledger'.ids[i] = accepted'[Len(accepted') - Len(ledger'.ids) + i].id
      BY <3>1, <3>2
    <3> QED
      BY <1>6, <3>2, <3>3 DEF IdsAreRecent
  <2>2. CASE m = LedgerLimit
    <3>1. ASSUME NEW i \in 1..m
          PROVE  ledger'.ids[i] = accepted'[(n + 1) - m + i].id
      <4>1. CASE i = m
        <5>1. (n + 1) - m + i = n + 1
          BY <1>6, <1>7, <4>1
        <5> QED
          BY <1>3, <1>6, <1>19, <2>2, <4>1, <5>1
      <4>2. CASE i \in 1..m - 1
        <5>1. i + 1 \in 1..m /\ n - m + (i + 1) \in 1..n /\ (n + 1) - m + i = n - m + (i + 1)
          <6>1. n \in Nat /\ m \in Nat /\ m <= n /\ i \in Nat /\ 1 <= i /\ i <= m - 1
            BY <1>6, <1>7, <4>2
          <6>2. i + 1 \in 1..m
            BY ONLY <6>1
          <6>3. n - m + (i + 1) \in 1..n
            BY ONLY <6>1
          <6>4. (n + 1) - m + i = n - m + (i + 1)
            BY ONLY <6>1
          <6> QED
            BY ONLY <6>2, <6>3, <6>4
        <5>2. ledger'.ids[i] = ledger.ids[i + 1]
          BY <1>19, <2>2, <4>2
        <5>3. ledger.ids[i + 1] = accepted[n - m + (i + 1)].id
          BY <1>7, <5>1
        <5> QED
          BY <1>6, <5>1, <5>2, <5>3
      <4> QED
        BY <1>7, <4>1, <4>2
    <3>2. Len(ledger'.ids) = m /\ Len(accepted') = n + 1
      BY <1>6, <1>7, <1>19, <2>2
    <3>3. \A i \in 1..Len(ledger'.ids) :
            ledger'.ids[i] = accepted'[Len(accepted') - Len(ledger'.ids) + i].id
      BY <3>1, <3>2
    <3>4. Len(ledger'.ids) <= Len(accepted') /\ ~(Len(ledger'.ids) < LedgerLimit)
      BY <1>6, <1>7, <2>2, <3>2
    <3> QED
      BY <3>3, <3>4 DEF IdsAreRecent
  <2> QED
    BY <1>7, <2>1, <2>2
<1>21. Remembered(ledger, id) = {ledger'.ids[i] : i \in 1..Len(ledger'.ids)}
  <2>1. DOMAIN ledger.outcomes = {ledger.ids[i] : i \in 1..m}
    BY <1>1 DEF LedgerTypeOK, m
  <2>2. CASE m < LedgerLimit
    <3>1. Remembered(ledger, id) = {ledger.ids[i] : i \in 1..m} \cup {id}
      BY <2>1, <2>2 DEF Remembered, m
    <3>2. \A i \in 1..m + 1 : i \in 1..m \/ i = m + 1
      BY <1>7
    <3>3. Len(ledger'.ids) = m + 1 /\ ledger'.ids[m + 1] = id /\ 1..m \subseteq 1..m + 1
          /\ m + 1 \in 1..m + 1
      BY <1>7, <1>19, <2>2
    <3>4. \A i \in 1..m : ledger'.ids[i] = ledger.ids[i]
      BY <1>19, <2>2
    <3>5. {ledger'.ids[i] : i \in 1..m + 1} = {ledger.ids[i] : i \in 1..m} \cup {id}
      BY <3>2, <3>3, <3>4
    <3> QED
      BY <3>1, <3>3, <3>5
  <2>3. CASE m = LedgerLimit
    <3>1. Remembered(ledger, id) = ({ledger.ids[i] : i \in 1..m} \ {Head(ledger.ids)}) \cup {id}
      BY <1>7, <2>1, <2>3 DEF Remembered, m
    <3>2. Head(ledger.ids) = ledger.ids[1] /\ 1 \in 1..m
      BY <1>1, <1>7, <2>3 DEF LedgerTypeOK, m
    <3>3. \A i \in 2..m : ledger.ids[i] # ledger.ids[1]
      <4> SUFFICES ASSUME NEW i \in 2..m, ledger.ids[i] = ledger.ids[1]
                   PROVE  FALSE
        OBVIOUS
      <4>1. /\ n - m + 1 \in 1..n /\ n - m + i \in 1..n /\ n - m + 1 < n - m + i
            /\ (n - m + i) - (n - m + 1) <= LedgerLimit /\ i \in 1..m
        BY <1>6, <1>7, <2>3
      <4>2. accepted[n - m + 1].id = accepted[n - m + i].id
        BY <1>7, <3>2, <4>1
      <4>3. (n - m + i) - (n - m + 1) > LedgerLimit
        BY <1>1, <4>1, <4>2 DEF IdWindow, n
      <4> QED
        BY <1>6, <1>7, <4>1, <4>3
    <3>4. {ledger.ids[i] : i \in 1..m} \ {Head(ledger.ids)} = {ledger.ids[i] : i \in 2..m}
      BY <1>7, <3>2, <3>3
    <3>5. {ledger.ids[i] : i \in 2..m} = {ledger'.ids[i] : i \in 1..m - 1}
      <4>1. \A i \in 2..m : i - 1 \in 1..m - 1 /\ ledger'.ids[i - 1] = ledger.ids[(i - 1) + 1]
                            /\ (i - 1) + 1 = i
        BY <1>7, <1>19, <2>3
      <4>2. \A i \in 1..m - 1 : i + 1 \in 2..m /\ ledger'.ids[i] = ledger.ids[i + 1]
        BY <1>7, <1>19, <2>3
      <4> QED
        BY <4>1, <4>2
    <3>6. \A i \in 1..m : i \in 1..m - 1 \/ i = m
      BY <1>7
    <3>7. Len(ledger'.ids) = m /\ ledger'.ids[m] = id /\ 1..m - 1 \subseteq 1..m /\ m \in 1..m
      BY <1>7, <1>19, <2>3
    <3>8. {ledger'.ids[i] : i \in 1..m} = {ledger'.ids[i] : i \in 1..m - 1} \cup {id}
      BY <3>6, <3>7
    <3> QED
      BY <3>1, <3>4, <3>5, <3>7, <3>8
  <2> QED
    BY <1>7, <2>2, <2>3
<1>22. /\ DOMAIN ledger'.outcomes = Remembered(ledger, id)
       /\ \A i \in Remembered(ledger, id) : i = id \/ i \in DOMAIN ledger.outcomes
       /\ \A i \in DOMAIN ledger'.outcomes : ledger'.outcomes[i] \in Status
  <2>1. \A i \in Remembered(ledger, id) : i = id \/ i \in DOMAIN ledger.outcomes
    BY DEF Remembered
  <2>2. \A i \in DOMAIN ledger.outcomes : ledger.outcomes[i] \in Status
    BY <1>1 DEF LedgerTypeOK
  <2> QED
    BY <1>5, <2>1, <2>2
<1>23. LedgerTypeOK'
  <2>1. DOMAIN ledger'.highest \subseteq Connection \X Epoch
    BY <1>13
  <2>2. \A key \in DOMAIN ledger'.highest : ledger'.highest[key] \in 1..MaxSeq
    BY <1>2, <1>13
  <2>3. DOMAIN ledger'.outcomes = {ledger'.ids[i] : i \in 1..Len(ledger'.ids)}
    BY <1>21, <1>22
  <2> QED
    BY <1>5, <1>19, <1>22, <2>1, <2>2, <2>3 DEF LedgerTypeOK
<1>24. TypeOK'
  BY <1>1, <1>2, <1>6, <1>23 DEF TypeOK
<1> QED
  BY <1>11, <1>14, <1>15, <1>16, <1>18, <1>20, <1>24 DEF IInv

LEMMA NextInv == IInv /\ [Next]_vars => IInv'
<1> SUFFICES ASSUME IInv, [Next]_vars PROVE IInv'
  OBVIOUS
<1>0. lease \in LeaseValue
  BY DEF IInv, TypeOK
<1>1. ASSUME NEW c \in Client, NEW k \in Connection, NEW takeover \in BOOLEAN,
             Acquire(c, k, takeover)
      PROVE  IInv'
  <2>1. lease' = Acquired(lease, c, k) /\ ledger' = ledger /\ accepted' = accepted
    BY <1>1 DEF Acquire
  <2>2. CASE Live(lease) /\ HeldBy(lease, c, k)
    <3>1. lease' = Extend(lease) /\ lease' \in LeaseValue
      BY <1>0, <2>1, <2>2, LeaseClosed DEF Acquired
    <3> QED
      BY <1>0, <2>1, <2>2, <3>1, LeaseSteps, LeaseOnlyStep DEF Live
  <2>3. CASE ~(Live(lease) /\ HeldBy(lease, c, k))
    <3>1. lease.epoch < MaxEpoch
      BY <1>1, <2>3 DEF Acquire, CanAcquire
    <3>2. lease' \in LeaseValue
      BY <1>0, <2>1, <3>1, LeaseClosed
    <3>3. lease'.epoch = lease.epoch + 1
      BY <2>1, <2>3 DEF Acquired
    <3> QED
      BY <2>1, <3>2, <3>3, LeaseOnlyStep
  <2> QED
    BY <2>2, <2>3
<1>2. ASSUME NEW c \in Client, NEW k \in Connection, NEW e \in Epoch, Renew(c, k, e)
      PROVE  IInv'
  <2>1. lease' = Extend(lease) /\ ledger' = ledger /\ accepted' = accepted /\ Live(lease)
    BY <1>2 DEF Renew, Verify
  <2>2. lease' \in LeaseValue
    BY <1>0, <2>1, LeaseClosed
  <2> QED
    BY <1>0, <2>1, <2>2, LeaseSteps, LeaseOnlyStep DEF Live
<1>3. ASSUME ledger' = ledger, accepted' = accepted, lease' = Clear(lease)
      PROVE  IInv'
  <2>1. Clear(lease) \in LeaseValue /\ Clear(lease).epoch = lease.epoch
        /\ Clear(lease).owner = NoOwner
    BY <1>0, LeaseAssumption DEF Clear, LeaseValue
  <2> QED
    BY <1>3, <2>1, LeaseOnlyStep
<1>4. ASSUME ledger' = ledger, accepted' = accepted, lease' \in {lease, Clear(lease)}
      PROVE  IInv'
  BY <1>3, <1>4, UnchangedStep
<1>5. ASSUME NEW k \in Connection, RevokeConnection(k) PROVE IInv'
  BY <1>4, <1>5 DEF RevokeConnection, ConnectionRevoked
<1>6. ASSUME NEW c \in Client, RevokeClient(c) PROVE IInv'
  BY <1>4, <1>6 DEF RevokeClient, ClientRevoked
<1>7. CASE Tick
  <2>1. lease' = Elapse(lease) /\ ledger' = ledger /\ accepted' = accepted
    BY <1>7 DEF Tick
  <2>2. CASE Live(lease)
    <3>1. /\ lease' = [lease EXCEPT !.owner = [lease.owner EXCEPT !.left = @ - 1]]
          /\ lease.owner \in Owner
      BY <1>0, <2>1, <2>2 DEF Elapse, Live, LeaseValue
    <3>2. /\ lease' \in LeaseValue /\ lease'.epoch = lease.epoch /\ lease.owner # NoOwner
          /\ lease'.owner.client = lease.owner.client
          /\ lease'.owner.connection = lease.owner.connection
      BY <1>0, <2>2, <3>1, LeaseAssumption DEF Live, LeaseValue, Owner
    <3> QED
      BY <2>1, <3>2, LeaseOnlyStep
  <2>3. CASE ~Live(lease)
    BY <2>1, <2>3, UnchangedStep DEF Elapse
  <2> QED
    BY <2>2, <2>3
<1>8. CASE UNCHANGED vars
  BY <1>8, UnchangedStep DEF vars
<1>9. ASSUME NEW c \in Client, NEW k \in Connection, NEW e \in Epoch, Release(c, k, e)
      PROVE  IInv'
  BY <1>3, <1>9 DEF Release
<1>10. CASE RevokeAll
  BY <1>3, <1>10 DEF RevokeAll
<1>11. {"accepted", "rejected"} \subseteq Status
  BY DEF Status
<1> QED
  BY <1>1, <1>2, <1>5, <1>6, <1>7, <1>8, <1>9, <1>10, <1>11, AcceptStep, FinishStep DEF Next

THEOREM Invariance == Spec => []IInv
BY InitInv, NextInv, PTL DEF Spec

\* The lease and the ledger always have their types, and the outcome map
\* covers exactly the bounded queue of ids (input.rs).
THEOREM TypeCorrect == Spec => []TypeOK
<1>1. IInv => TypeOK
  BY DEF IInv
<1> QED
  BY <1>1, Invariance, PTL

\* No input is accepted twice under one connection and lease epoch, although
\* the ledger keeps a single (connection, epoch) entry (input.rs accept_limit).
THEOREM ReplayFree == Spec => []NoReplay
<1>1. IInv => NoReplay
  BY DEF IInv
<1> QED
  BY <1>1, Invariance, PTL

\* Each lease epoch has one writer, and an older epoch never follows a newer
\* one among the accepted inputs (lease.rs acquire, verify).
THEOREM SingleWriter == Spec => []OneWriterPerEpoch
<1>1. IInv => OneWriterPerEpoch
  BY DEF IInv
<1> QED
  BY <1>1, Invariance, PTL

\* The last LedgerLimit accepted ids are never accepted again (input.rs).
THEOREM IdsWithinWindow == Spec => []IdWindow
<1>1. IInv => IdWindow
  BY DEF IInv
<1> QED
  BY <1>1, Invariance, PTL

\* A lease that no longer verifies for a device, a connection and an epoch
\* already issued never verifies for them again (lease.rs).
THEOREM LostForGood == Spec => LostLeaseStaysLost
<1> DEFINE Step ==
             \A c \in Client, k \in Connection, e \in Epoch :
             (e <= lease.epoch /\ ~Verify(lease, c, k, e)) => ~Verify(lease, c, k, e)'
<1>1. TypeOK /\ [Next]_vars => [Step]_vars
  <2> SUFFICES ASSUME TypeOK, [Next]_vars,
                      NEW c \in Client, NEW k \in Connection, NEW e \in Epoch,
                      e <= lease.epoch, ~Verify(lease, c, k, e), Verify(lease, c, k, e)'
               PROVE  FALSE
    OBVIOUS
  <2>1. /\ lease'.owner # NoOwner /\ lease'.owner.left > 0
        /\ lease'.owner.client = c /\ lease'.owner.connection = k /\ lease'.epoch = e
    BY DEF Verify, Live, HeldBy
  <2>2. lease \in LeaseValue /\ lease.epoch \in Nat /\ e \in Nat
    BY LeaseAssumption DEF TypeOK, LeaseValue, Epoch
  <2>3. CASE lease' = lease
    BY <2>1, <2>3 DEF Verify, Live, HeldBy
  <2>4. CASE lease' = Clear(lease)
    BY <2>1, <2>2, <2>4 DEF Clear, LeaseValue
  <2>5. CASE lease' = Extend(lease) /\ Live(lease)
    <3>1. lease'.epoch = lease.epoch /\ lease'.owner.client = lease.owner.client
          /\ lease'.owner.connection = lease.owner.connection
      BY <2>2, <2>5, LeaseAssumption DEF Extend, Live, LeaseValue, Owner
    <3> QED
      BY <2>1, <2>5, <3>1 DEF Verify, HeldBy
  <2>6. CASE lease'.epoch = lease.epoch + 1
    BY <2>1, <2>2, <2>6
  <2>7. CASE lease' = Elapse(lease)
    <3>1. CASE Live(lease)
      <4>1. lease'.epoch = lease.epoch /\ lease'.owner.client = lease.owner.client
            /\ lease'.owner.connection = lease.owner.connection
        BY <2>2, <2>7, <3>1, LeaseAssumption DEF Elapse, Live, LeaseValue, Owner
      <4> QED
        BY <2>1, <3>1, <4>1 DEF Verify, HeldBy
    <3>2. CASE ~Live(lease)
      BY <2>3, <2>7, <3>2 DEF Elapse
    <3> QED
      BY <3>1, <3>2
  <2>8. \/ lease' = lease \/ lease' = Clear(lease) \/ lease' = Elapse(lease)
        \/ lease' = Extend(lease) /\ Live(lease)
        \/ lease'.epoch = lease.epoch + 1
    <3>1. ASSUME NEW d \in Client, NEW j \in Connection, NEW takeover \in BOOLEAN,
                 Acquire(d, j, takeover)
          PROVE  (lease' = Extend(lease) /\ Live(lease)) \/ lease'.epoch = lease.epoch + 1
      BY <3>1 DEF Acquire, Acquired
    <3>2. ASSUME NEW d \in Client, NEW j \in Connection, NEW f \in Epoch,
                 Renew(d, j, f) \/ Release(d, j, f)
          PROVE  (lease' = Extend(lease) /\ Live(lease)) \/ lease' = Clear(lease)
      BY <3>2 DEF Renew, Release, Verify
    <3>3. ASSUME NEW j \in Connection, RevokeConnection(j)
          PROVE  lease' = lease \/ lease' = Clear(lease)
      BY <3>3 DEF RevokeConnection, ConnectionRevoked
    <3>4. ASSUME NEW d \in Client, RevokeClient(d)
          PROVE  lease' = lease \/ lease' = Clear(lease)
      BY <3>4 DEF RevokeClient, ClientRevoked
    <3>5. RevokeAll => lease' = Clear(lease)
      BY DEF RevokeAll
    <3>6. ASSUME NEW d, NEW j, NEW f, NEW id, NEW seq, NEW bytes, NEW max, NEW status,
                 Accept(d, j, f, id, seq, bytes, max, status)
          PROVE  lease' = lease
      BY <3>6 DEF Accept
    <3>7. ASSUME NEW id, NEW status, Finish(id, status) PROVE lease' = lease
      BY <3>7 DEF Finish
    <3>8. Tick => lease' = Elapse(lease)
      BY DEF Tick
    <3>9. UNCHANGED vars => lease' = lease
      BY DEF vars
    <3> QED
      BY <3>1, <3>2, <3>3, <3>4, <3>5, <3>6, <3>7, <3>8, <3>9 DEF Next
  <2> QED
    BY <2>3, <2>4, <2>5, <2>6, <2>7, <2>8
<1>2. Spec => []TypeOK
  BY TypeCorrect
<1> QED
  BY <1>1, <1>2, PTL DEF Spec, LostLeaseStaysLost
=============================================================================
