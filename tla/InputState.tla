----------------------------- MODULE InputState ------------------------------
(***************************************************************************)
(* What one session keeps behind its `input` mutex                         *)
(* (crates/rc-agent/src/session.rs, struct InputState): the writer lease   *)
(* and the replay ledger.  Every action is one critical section of that    *)
(* mutex; nothing else in the program touches this state.  An input is     *)
(* accepted by Lease::verify, InputLedger::accept and, when the writer's   *)
(* queue is full, InputLedger::finish(id, "rejected"), all under one lock  *)
(* (Session::enqueue, Session::enqueue_paste).                             *)
(*                                                                         *)
(* The callers are as general as possible: any device may call with any    *)
(* connection, epoch, id and sequence.  `accepted` is a history variable,  *)
(* the inputs accepted so far in order.  MaxAccepted bounds it.            *)
(***************************************************************************)
EXTENDS Lease, InputLedger

CONSTANTS
  MaxInput,     \* MAX_INPUT, in units of bytes that matter here
  MaxPaste,     \* MAX_PASTE
  MaxAccepted   \* bound: inputs accepted in one behaviour

ASSUME InputStateAssumption ==
  /\ MaxInput \in Nat \ {0}
  /\ MaxPaste \in Nat \ {0}
  /\ MaxAccepted \in Nat

VARIABLES lease, ledger, accepted

vars == <<lease, ledger, accepted>>

Epoch == 0..MaxEpoch

InputRecord ==
  [client : Client, connection : Connection, lease : Epoch,
   id : InputId, seq : 1..MaxSeq]

Init ==
  /\ lease = NewLease
  /\ ledger = NewLedger
  /\ accepted = << >>
-----------------------------------------------------------------------------
Acquire(c, k, takeover) ==
  /\ CanAcquire(lease, c, k, takeover)
  /\ lease' = Acquired(lease, c, k)
  /\ UNCHANGED <<ledger, accepted>>

\* Faulty variant: a renewal that does not look at the clock.
RenewExpired(c, k, e) ==
  /\ lease.owner # NoOwner /\ HeldBy(lease, c, k) /\ lease.epoch = e
  /\ lease' = Extend(lease)
  /\ UNCHANGED <<ledger, accepted>>

Renew(c, k, e) ==
  /\ Verify(lease, c, k, e)
  /\ lease' = Extend(lease)
  /\ UNCHANGED <<ledger, accepted>>

Release(c, k, e) ==
  /\ Verify(lease, c, k, e)
  /\ lease' = Clear(lease)
  /\ UNCHANGED <<ledger, accepted>>

RevokeConnection(k) ==
  /\ lease' = ConnectionRevoked(lease, k)
  /\ UNCHANGED <<ledger, accepted>>

RevokeClient(c) ==
  /\ lease' = ClientRevoked(lease, c)
  /\ UNCHANGED <<ledger, accepted>>

RevokeAll ==
  /\ lease' = Clear(lease)
  /\ UNCHANGED <<ledger, accepted>>

\* bytes is the payload length, max the limit of the call (input or paste),
\* status whether the writer's queue had room for the job.
Accept(c, k, e, id, seq, bytes, max, status) ==
  /\ Len(accepted) < MaxAccepted
  /\ Verify(lease, c, k, e)
  /\ WithinBounds(seq, bytes, max)
  /\ ~Duplicate(ledger, k, e, id, seq)
  /\ ledger' = Accepted(ledger, k, e, id, seq, status)
  /\ accepted' = Append(accepted, [client |-> c, connection |-> k, lease |-> e,
                                   id |-> id, seq |-> seq])
  /\ UNCHANGED lease

Finish(id, status) ==
  /\ ledger' = Finished(ledger, id, status)
  /\ UNCHANGED <<lease, accepted>>

Tick ==
  /\ lease' = Elapse(lease)
  /\ UNCHANGED <<ledger, accepted>>

Next ==
  \/ \E c \in Client, k \in Connection, takeover \in BOOLEAN : Acquire(c, k, takeover)
  \/ \E c \in Client, k \in Connection, e \in Epoch :
       Renew(c, k, e) \/ Release(c, k, e)
  \/ \E k \in Connection : RevokeConnection(k)
  \/ \E c \in Client : RevokeClient(c)
  \/ RevokeAll
  \/ \E c \in Client, k \in Connection, e \in Epoch, id \in InputId, seq \in 0..MaxSeq + 1 :
       \E max \in {MaxInput, MaxPaste}, status \in {"accepted", "rejected"} :
         \E bytes \in 0..max + 1 : Accept(c, k, e, id, seq, bytes, max, status)
  \/ \E id \in InputId, status \in Status \ {"accepted"} : Finish(id, status)
  \/ Tick

Spec == Init /\ [][Next]_vars
-----------------------------------------------------------------------------
\* The ledger's own consistency: the outcome map covers exactly the queue of
\* ids, and the queue is bounded.
LedgerTypeOK ==
  /\ DOMAIN ledger = {"highest", "ids", "outcomes"}
  /\ DOMAIN ledger.highest \subseteq Connection \X Epoch
  /\ \A key \in DOMAIN ledger.highest : ledger.highest[key] \in 1..MaxSeq
  /\ ledger.ids \in Seq(InputId)
  /\ Len(ledger.ids) <= LedgerLimit
  /\ DOMAIN ledger.outcomes = {ledger.ids[i] : i \in 1..Len(ledger.ids)}
  /\ \A id \in DOMAIN ledger.outcomes : ledger.outcomes[id] \in Status

TypeOK ==
  /\ lease \in LeaseValue
  /\ LedgerTypeOK
  /\ accepted \in Seq(InputRecord)

\* No input is replayed: under one connection and one lease epoch the accepted
\* sequences strictly increase, although the ledger forgets every
\* (connection, epoch) but the last one it wrote (input.rs, retain in
\* accept_limit) and leans on the lease to refuse the forgotten ones.
NoReplay ==
  \A i, j \in 1..Len(accepted) :
    (/\ i < j
     /\ accepted[i].connection = accepted[j].connection
     /\ accepted[i].lease = accepted[j].lease)
    => accepted[i].seq < accepted[j].seq

\* Single writer: one lease epoch has one device and one connection, and once
\* an input of a newer epoch is accepted no input of an older epoch is
\* (lease.rs acquire and verify; two tabs of one device are two writers).
OneWriterPerEpoch ==
  \A i, j \in 1..Len(accepted) :
    i < j =>
      /\ accepted[i].lease <= accepted[j].lease
      /\ accepted[i].lease = accepted[j].lease =>
           /\ accepted[i].client = accepted[j].client
           /\ accepted[i].connection = accepted[j].connection

\* An id is refused while any of the last LedgerLimit accepted inputs carries
\* it (input.rs, outcomes and the eviction loop).
IdWindow ==
  \A i, j \in 1..Len(accepted) :
    (i < j /\ accepted[i].id = accepted[j].id) => j - i > LedgerLimit

\* A grant that expired, was released, revoked or taken over never verifies
\* again: no renewal, re-acquisition or takeover revives the epoch it was
\* issued under (lease.rs verify, renew, acquire).
LostLeaseStaysLost ==
  [][\A c \in Client, k \in Connection, e \in Epoch :
       (e <= lease.epoch /\ ~Verify(lease, c, k, e)) => ~Verify(lease, c, k, e)']_vars

-----------------------------------------------------------------------------
(***************************************************************************)
(* The strengthening that makes the invariants inductive.                  *)
(***************************************************************************)

\* No input carries an epoch that has not been issued yet.
IssuedEpochs == \A i \in 1..Len(accepted) : accepted[i].lease <= lease.epoch

\* While the current epoch has an owner, every input of that epoch is the
\* owner's and is covered by the ledger entry of its connection and epoch.
OwnerCovered ==
  lease.owner # NoOwner =>
    \A i \in 1..Len(accepted) :
      accepted[i].lease = lease.epoch =>
        /\ accepted[i].client = lease.owner.client
        /\ accepted[i].connection = lease.owner.connection
        /\ <<lease.owner.connection, lease.epoch>> \in DOMAIN ledger.highest
        /\ accepted[i].seq <= ledger.highest[<<lease.owner.connection, lease.epoch>>]

\* The ledger's queue of ids is the end of the accepted inputs.
IdsAreRecent ==
  /\ Len(ledger.ids) <= Len(accepted)
  /\ Len(ledger.ids) < LedgerLimit => Len(ledger.ids) = Len(accepted)
  /\ \A i \in 1..Len(ledger.ids) :
       ledger.ids[i] = accepted[Len(accepted) - Len(ledger.ids) + i].id

IInv ==
  /\ TypeOK
  /\ IssuedEpochs
  /\ OwnerCovered
  /\ IdsAreRecent
  /\ NoReplay
  /\ OneWriterPerEpoch
  /\ IdWindow
=============================================================================
