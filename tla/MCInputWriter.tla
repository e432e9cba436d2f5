--------------------------- MODULE MCInputWriter -----------------------------
(***************************************************************************)
(* TLC instances of InputWriter: one device with one control socket sends  *)
(* a bracketed paste, a key press and Ctrl+C.  A takeover by somebody else *)
(* is, for these jobs, the loss of the lease and a new epoch, which the    *)
(* socket's own re-acquisition after a loss already gives.                 *)
(***************************************************************************)
EXTENDS InputWriter, TLC

CONSTANTS c1, k1, p1, task, key, intr, paste

SoleClient == p1 :> c1

\* One request at a time, of any kind.
OneHandler == task :> [principal |-> p1, connection |-> k1, ids |-> InputId]

Typed(seq, priority) ==
  [seq |-> seq, chunks |-> 1, bulk |-> FALSE, bracketed |-> FALSE, enter |-> FALSE,
   priority |-> priority]

Pasted(seq, chunks, bracketed, enter) ==
  [seq |-> seq, chunks |-> chunks, bulk |-> TRUE, bracketed |-> bracketed, enter |-> enter,
   priority |-> FALSE]

PasteKeyInterrupt ==
  (paste :> Pasted(1, 2, TRUE, TRUE)) @@ (key :> Typed(2, FALSE)) @@ (intr :> Typed(3, TRUE))

PasteInterrupt == (paste :> Pasted(1, 1, FALSE, FALSE)) @@ (intr :> Typed(2, TRUE))
=============================================================================
