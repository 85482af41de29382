---------------------------- MODULE MCBootFiles ----------------------------
(* Images as their makers build them, and poorer ones. *)
EXTENDS BootFilesClaims

LOCAL Image(canon, other) ==
  [r \in Roles |-> IF r \in canon THEN "canon"
                   ELSE IF r \in other THEN "other" ELSE "absent"]

LOCAL Grub == {"kernel", "grubcfg"}
LOCAL Syslinux == {"kernel", "syscfg", "ldlinux", "vesamenu"}

MCImages ==
  {Image({"bootmgr"}, {"bootx64", "bcd", "wim"}),
   Image({}, {"bootx64", "bootia32", "bootaa64"}),
   Image({"bootx64", "bootmgr"}, {"bcd", "bootia32"}),
   Image({"autounattend"}, {"bootmgr", "bcd", "wim"}),
   Image({"bootmgr"}, {"bootia32"}),
   Image({"wim"}, {"bootaa64"}),
   Image({"bootx64", "shim", "modefi"} \union Grub, {}),
   Image({"shim", "grubefi", "modefi"} \union Grub, {}),
   Image({"modbios"} \union Grub, {}),
   Image({"modbios", "c32"} \union Grub \union Syslinux, {}),
   Image({"modefi"} \union Grub \union Syslinux, {}),
   Image({"c32"} \union Syslinux, {}),
   Image({"kernel", "syscfg"}, {"grubcfg"}),
   Image({"grubefi"}, {})}
=============================================================================
