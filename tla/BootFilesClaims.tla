--------------------------- MODULE BootFilesClaims ---------------------------
(* What linux_boot.h says of the copies. *)
EXTENDS BootFiles

\* setup_grub2_boot "Copies grub.cfg and GRUB2 BIOS modules (*.mod files)"
\* (linux_boot.h:112, 116): after a success they are there with their data.
GrubIsCopied ==
  ret = "ok" /\ grubOk =>
    \A r \in {"grubcfg", "modbios", "modefi"} : Found(r) => data[Canon(r)] = r
=============================================================================
