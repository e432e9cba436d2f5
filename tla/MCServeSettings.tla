--------------------------- MODULE MCServeSettings ---------------------------
(* TLC instance of ServeSettings: the constants get their values in the cfg. *)
EXTENDS ServeSettings
=============================================================================
