-------------------------------- MODULE MCCli --------------------------------
(* An instance of Cli for TLC. *)
EXTENDS CliClaims

CONSTANTS d1, d2, sda, sdb, win, odd

Use(p, k) == {[place |-> p, kind |-> k]}

\* A free disk, and a root file system behind a volume manager.
MCLayouts == {{}, Use("p2", "sysholder")}

\* In units of 100 MB: each disk holds the image.
MCCapacity == [d \in Disks |-> 3]
MCSize == [i \in ISOs |-> 3]
MCOs == [i \in ISOs |-> IF i = win THEN "windows" ELSE "other"]
=============================================================================
