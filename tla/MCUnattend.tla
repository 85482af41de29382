----------------------------- MODULE MCUnattend -----------------------------
(* Two bypasses; a caller sets no flag, one, or all of them. *)
EXTENDS Unattend

MCPlace == [b \in Bypasses |-> IF b = "tpm" THEN 1 ELSE 2]
MCCallerSettings ==
  {s \in [flags : SUBSET Flags, name : {"none", "plain", "ampersand"}] :
     Cardinality(s.flags) <= 1 \/ s.flags = Flags}
=============================================================================
