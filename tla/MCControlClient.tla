--------------------------- MODULE MCControlClient ---------------------------
(* TLC instance of ControlClient: the constants get their values in the cfg. *)
EXTENDS ControlClient
=============================================================================
