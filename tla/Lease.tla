-------------------------------- MODULE Lease --------------------------------
(***************************************************************************)
(* The single-writer input lease of one terminal session                   *)
(* (crates/rc-core/src/lease.rs), as operators on a lease value.           *)
(*                                                                         *)
(* A lease value is [epoch, owner].  The code stores the instant `until`   *)
(* at which an owner's grant ends and compares it with `now`; the model    *)
(* stores left = until - now, cut off at 0, so `until > now` is left > 0   *)
(* and the passing of time is the operator Elapse.  An expired owner stays *)
(* in the lease value, exactly as it stays in `self.owner`.                *)
(***************************************************************************)
EXTENDS Integers

CONSTANTS
  Client,      \* device identities (client_id)
  Connection,  \* control-socket identities (connection_id)
  Ttl,         \* LEASE_TTL, in ticks
  MaxEpoch,    \* the largest epoch the counter can hold (u64::MAX)
  NoOwner      \* None

Owner == [client : Client, connection : Connection, left : 0..Ttl]

LeaseValue == [epoch : 0..MaxEpoch, owner : Owner \cup {NoOwner}]

ASSUME LeaseAssumption ==
  /\ Ttl \in Nat \ {0}
  /\ MaxEpoch \in Nat
  /\ NoOwner \notin Owner
-----------------------------------------------------------------------------
NewLease == [epoch |-> 0, owner |-> NoOwner]

Live(l) == l.owner # NoOwner /\ l.owner.left > 0

HeldBy(l, c, k) == l.owner.client = c /\ l.owner.connection = k

\* verify: a live owner, the same device, the same socket, the same epoch.
Verify(l, c, k, e) == Live(l) /\ HeldBy(l, c, k) /\ l.epoch = e

Extend(l) == [l EXCEPT !.owner.left = Ttl]

Clear(l) == [l EXCEPT !.owner = NoOwner]

\* acquire succeeds: the live owner asks again, or the lease is free or taken
\* over and the epoch counter has room.
CanAcquire(l, c, k, takeover) ==
  \/ Live(l) /\ HeldBy(l, c, k)
  \/ (Live(l) => takeover) /\ l.epoch < MaxEpoch

\* Faulty variant: a takeover replaces the owner and keeps the epoch.
AcquiredSameEpoch(l, c, k) ==
  [epoch |-> l.epoch, owner |-> [client |-> c, connection |-> k, left |-> Ttl]]

Acquired(l, c, k) ==
  IF Live(l) /\ HeldBy(l, c, k)
  THEN Extend(l)
  ELSE [epoch |-> l.epoch + 1,
        owner |-> [client |-> c, connection |-> k, left |-> Ttl]]

ConnectionRevoked(l, k) ==
  IF l.owner # NoOwner /\ l.owner.connection = k THEN Clear(l) ELSE l

ClientRevoked(l, c) ==
  IF l.owner # NoOwner /\ l.owner.client = c THEN Clear(l) ELSE l

\* One tick of the clock.
Elapse(l) == IF Live(l) THEN [l EXCEPT !.owner.left = @ - 1] ELSE l
=============================================================================
