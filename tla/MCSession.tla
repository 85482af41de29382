----------------------------- MODULE MCSession -----------------------------
(* Instances of Session for TLC.                                           *)
EXTENDS Session, TLC

CONSTANTS d1, d2, d3, sda, sdb, win, lin, odd

Use(p, k) == {[place |-> p, kind |-> k]}

\* Layouts: a free disk, a system disk of each kind, mounts the checks see by
\* name or not at all, a disk another program holds.
AllLayouts == {{}, Use("p1", "sysfs"), Use("p2", "sysholder"), Use("p2", "swap"),
               Use("p1", "fs"), Use("disk", "fs"), Use("p1", "aliasfs"),
               Use("disk", "aliasfs"), Use("p1", "holder")}
FewLayouts == {{}, Use("p2", "sysholder"), Use("p1", "fs")}

\* Only in runs that check no liveness.
NameSymmetry == Permutations(Names)

OneDisk == {d1}
TwoDisks == {d1, d2}
ThreeDisks == {d1, d2, d3}

\* Sizes in units of 100 MB: the second disk holds the images exactly, a third
\* is too small.
MCCapacity == [d \in Disks |-> IF d = d1 THEN 4 ELSE IF d = d2 THEN 3 ELSE 2]
MCSize == [i \in ISOs |-> 3]
MCOs == [i \in ISOs |-> IF i = win THEN "windows"
                        ELSE IF i = lin THEN "linux" ELSE "other"]
=============================================================================
