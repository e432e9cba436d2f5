---------------------------- MODULE MCInputState -----------------------------
(***************************************************************************)
(* TLC instance of InputState.  Devices, connections and input ids are     *)
(* only compared for equality, so permuting each of them is a symmetry.    *)
(***************************************************************************)
EXTENDS InputState, TLC

Symmetry ==
  Permutations(Client) \cup Permutations(Connection) \cup Permutations(InputId)
=============================================================================
