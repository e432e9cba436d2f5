--------------------------- MODULE MCMediaSession ----------------------------
(* The TLC instance of MediaSession. *)
EXTENDS MediaSession
=============================================================================
