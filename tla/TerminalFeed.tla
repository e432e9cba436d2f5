---------------------------- MODULE TerminalFeed -----------------------------
(***************************************************************************)
(* What a terminal view promises its user (SPEC.md 10.5), without saying   *)
(* how: the screen always shows the effect of a prefix of the session's    *)
(* output events.  `seq` events have been emitted; the screen shows the    *)
(* first `view` of them.  While `ready` is FALSE the view is being         *)
(* restored and takes no input.                                            *)
(***************************************************************************)
EXTENDS Integers

CONSTANT MaxEvents  \* bound: output events in one behaviour

VARIABLES seq, ready, view

feed == <<seq, ready, view>>

Init == seq = 0 /\ ready = FALSE /\ view = 0

Emit ==
  /\ seq < MaxEvents
  /\ seq' = seq + 1
  /\ UNCHANGED <<ready, view>>

\* Events are applied one by one; none is skipped or repeated.
Apply ==
  /\ view < seq
  /\ view' = view + 1
  /\ UNCHANGED <<seq, ready>>

Lose ==
  /\ ready
  /\ ready' = FALSE
  /\ UNCHANGED <<seq, view>>

\* A snapshot replaces the screen and never takes it back in time.
Restore ==
  /\ ~ready
  /\ ready' = TRUE
  /\ view' \in view..seq
  /\ UNCHANGED seq

Next == Emit \/ Apply \/ Lose \/ Restore

Spec == Init /\ [][Next]_feed
=============================================================================
