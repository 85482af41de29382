------------------------------- MODULE MCGui -------------------------------
(* Two names for a stick and an internal disk, two writes. *)
EXTENDS GuiClaims
=============================================================================
