----------------------------- MODULE InputLedger -----------------------------
(***************************************************************************)
(* The per-session replay guard (crates/rc-core/src/input.rs), as          *)
(* operators on a ledger value [highest, ids, outcomes].                   *)
(*                                                                         *)
(* highest  maps (connection, lease epoch) to the last sequence accepted   *)
(*          under it; accept retains only the key it writes;               *)
(* ids      the accepted input ids, oldest first, at most LedgerLimit;     *)
(* outcomes maps every id still in ids to its last known status.           *)
(***************************************************************************)
EXTENDS Integers, Sequences

CONSTANTS
  InputId,      \* client-chosen input ids
  MaxSeq,       \* MAX_JS_INTEGER
  LedgerLimit   \* 1024 in the code

ASSUME LedgerAssumption ==
  /\ MaxSeq \in Nat \ {0}
  /\ LedgerLimit \in Nat \ {0}

Status == {"accepted", "rejected", "written", "delivery_unknown"}
-----------------------------------------------------------------------------
NewLedger == [highest |-> << >>, ids |-> << >>, outcomes |-> << >>]

\* The size and sequence bounds of accept_limit (FrameTooLarge otherwise).
WithinBounds(seq, bytes, max) == bytes \in 1..max /\ seq \in 1..MaxSeq

\* Faulty variants: the last sequence is accepted again; ids are not consulted.
DuplicateBelowHighest(g, k, e, id, seq) ==
  \/ id \in DOMAIN g.outcomes
  \/ <<k, e>> \in DOMAIN g.highest /\ seq < g.highest[<<k, e>>]

DuplicateBySequence(g, k, e, id, seq) ==
  <<k, e>> \in DOMAIN g.highest /\ seq <= g.highest[<<k, e>>]

\* A known id, or a sequence not above the last one of this connection and
\* lease epoch (DuplicateInput).
Duplicate(g, k, e, id, seq) ==
  \/ id \in DOMAIN g.outcomes
  \/ <<k, e>> \in DOMAIN g.highest /\ seq <= g.highest[<<k, e>>]

\* The ids after a push that keeps at most LedgerLimit of them.
Pushed(g, id) ==
  IF Len(g.ids) < LedgerLimit THEN Append(g.ids, id)
                              ELSE Append(Tail(g.ids), id)

\* The ids whose outcome the ledger still knows after that push.
Remembered(g, id) ==
  IF Len(g.ids) < LedgerLimit THEN DOMAIN g.outcomes \cup {id}
                              ELSE (DOMAIN g.outcomes \ {Head(g.ids)}) \cup {id}

\* accept, and the status its critical section leaves: "accepted", or
\* "rejected" when the job then found its queue full.
Accepted(g, k, e, id, seq, status) ==
  [highest  |-> [key \in {<<k, e>>} |-> seq],
   ids      |-> Pushed(g, id),
   outcomes |-> [i \in Remembered(g, id) |->
                   IF i = id THEN status ELSE g.outcomes[i]]]

\* finish: an id that was evicted is ignored.
Finished(g, id, status) ==
  IF id \in DOMAIN g.outcomes THEN [g EXCEPT !.outcomes[id] = status] ELSE g
=============================================================================
