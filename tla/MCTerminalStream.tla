-------------------------- MODULE MCTerminalStream ---------------------------
(***************************************************************************)
(* TLC instances of TerminalStream.                                        *)
(***************************************************************************)
EXTENDS TerminalStream
=============================================================================
