------------------------------ MODULE MCAccess -------------------------------
(***************************************************************************)
(* TLC instances of Access.  Tasks are alike, so permuting them is a       *)
(* symmetry, used where no liveness is checked.                            *)
(***************************************************************************)
EXTENDS Access, TLC

Symmetry == Permutations(Task)
=============================================================================
