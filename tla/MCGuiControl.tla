---------------------------- MODULE MCGuiControl -----------------------------
(* The TLC instance of GuiControl. *)
EXTENDS GuiControl
=============================================================================
