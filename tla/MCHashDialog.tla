---------------------------- MODULE MCHashDialog ----------------------------
(* Three workers; the image goes away and comes back. *)
EXTENDS HashDialog
=============================================================================
