--------------------------- MODULE PartitionLayout ---------------------------
(***************************************************************************)
(* partition_wipe_and_create after its guard: the arithmetic of the layout *)
(* and what libparted makes of it, and the two planners                    *)
(* (partition.c:41-402).  Extents are in sectors of the device, and the    *)
(* sizes of the code's macros are constants.                               *)
(***************************************************************************)
EXTENDS Integers, Sequences

CONSTANTS
  Sizes,      \* sizes a disk may have, in sectors of 512 bytes
  Units,      \* how many of them are a sector of the device: 1, or 8
  BootSizes,  \* requested sizes of the boot partition, in sectors of 512
  MinDevice,  \* MIN_DEVICE_SIZE, in sectors
  Align,      \* PARTITION_ALIGNMENT_SECTORS
  MinBoot,    \* MIN_BOOT_SIZE_SECTORS
  MaxBoot,    \* MAX_BOOT_SIZE_SECTORS
  TableMax,   \* the largest sector number or length an MBR holds
  Slack       \* how far libparted may pull in an end to align it

ASSUME SizesAssumption == Sizes \subseteq Nat /\ BootSizes \subseteq Nat
ASSUME UnitsAssumption == Units \subseteq Nat \ {0}
\* The last partition of a GPT plan ends a sector before the end of its share,
\* so a share must have two.
ASSUME MacrosAssumption ==
  /\ Align \in Nat \ {0, 1}
  /\ MinBoot \in Nat \ {0} /\ MaxBoot \in Nat /\ MinBoot <= MaxBoot
  /\ MinDevice \in Nat /\ TableMax \in Nat /\ Slack \in Nat

VARIABLES
  total,     \* the listed size of the disk, in sectors of 512
  length,    \* the size of the disk that has the name now, in its sectors
  unit,      \* how many of the former make one of the latter
  asked,     \* the boot partition asked for
  pc,        \* the next call
  layout,    \* partition_layout_t, in sectors
  label,     \* libparted's partitions in memory
  table,     \* those on the disk, once they are written
  ret        \* what partition_wipe_and_create returned

vars == <<total, length, unit, asked, pc, layout, label, table, ret>>

NoLayout == [boot |-> 0, dataStart |-> 0, dataSize |-> 0]
Extents == [first : Nat, last : Nat]

\* Every variable has its type; memory and disk hold no partition, the boot
\* partition or both.
TypeOK ==
  /\ total \in Sizes /\ length \in Nat /\ unit \in Units /\ asked \in BootSizes
  /\ pc \in {"calculate", "add boot", "add data", "set flag", "commit", "done"}
  /\ layout \in [boot : Nat, dataStart : Nat, dataSize : Nat]
  /\ label \in Seq(Extents) /\ Len(label) <= 2
  /\ table \in Seq(Extents) /\ Len(table) \in {0, 2}
  /\ ret \in {"none", "ok", "failed"}

-----------------------------------------------------------------------------
\* partition_calculate_layout.
Clamped(boot) == IF boot < MinBoot THEN MinBoot
                 ELSE IF boot > MaxBoot THEN MaxBoot ELSE boot
TooSmall(boot, size) == size < Clamped(boot) + Align
Layout(boot, size) ==
  [boot |-> Clamped(boot),
   dataStart |-> Clamped(boot) + Align,
   dataSize |-> size - (Clamped(boot) + Align)]

Extent(first, last) == [first |-> first, last |-> last]
Sectors(e) == e.last - e.first + 1

\* What libparted accepts: a partition that is not empty, on the disk, within
\* what an MBR can say, and over no other.
Disjoint(e, f) == e.last < f.first \/ f.last < e.first
Accepted(e) ==
  /\ e.first <= e.last /\ e.last < length
  /\ e.first <= TableMax /\ Sectors(e) <= TableMax
  /\ \A i \in 1..Len(label) : Disjoint(e, label[i])

Init ==
  /\ total \in Sizes /\ unit \in Units /\ asked \in BootSizes
  /\ \E size \in Sizes : length = size \div unit
  /\ pc = "calculate" /\ layout = NoLayout /\ label = <<>> /\ table = <<>>
  /\ ret = "none"

\* A mutant: the space before the boot partition is forgotten.
CalculateUnaligned ==
  /\ pc = "calculate"
  /\ IF TooSmall(asked, total)
     THEN pc' = "done" /\ ret' = "failed" /\ UNCHANGED layout
     ELSE /\ pc' = "add boot" /\ UNCHANGED ret
          /\ layout' = [Layout(asked, total) EXCEPT !.dataStart = Clamped(asked)]
  /\ UNCHANGED <<total, length, unit, asked, label, table>>

\* The layout of the listed size; the size the disk has is not looked at.
Calculate ==
  /\ pc = "calculate"
  /\ \/ /\ TooSmall(asked, total)
        /\ pc' = "done" /\ ret' = "failed" /\ UNCHANGED layout
     \/ /\ ~TooSmall(asked, total)
        /\ pc' = "add boot" /\ layout' = Layout(asked, total) /\ UNCHANGED ret
  /\ UNCHANGED <<total, length, unit, asked, label, table>>

\* Any call of libparted may fail: nothing is written, memory is freed.
Refuse ==
  /\ pc \in {"add boot", "add data", "set flag", "commit"}
  /\ pc' = "done" /\ ret' = "failed"
  /\ UNCHANGED <<total, length, unit, asked, layout, label, table>>

\* The numbers of 512-byte sectors are used as numbers of device sectors.
Boot == Extent(Align, Align + layout.boot - 1)

\* A mutant: each partition is written as soon as it is added.
AddBootCommitted ==
  /\ pc = "add boot" /\ Accepted(Boot)
  /\ label' = <<Boot>> /\ table' = <<Boot>> /\ pc' = "add data"
  /\ UNCHANGED <<total, length, unit, asked, layout, ret>>

AddBoot ==
  /\ pc = "add boot" /\ Accepted(Boot)
  /\ label' = <<Boot>> /\ pc' = "add data"
  /\ UNCHANGED <<total, length, unit, asked, layout, table, ret>>

\* A mutant: the data partition begins where the boot partition ends, and
\* nobody looks at the sum.
AddDataOnEnd ==
  /\ pc = "add data"
  /\ label' = Append(label, Extent(Boot.last, length - 1))
  /\ length > Boot.last /\ length <= TableMax
  /\ pc' = "set flag"
  /\ UNCHANGED <<total, length, unit, asked, layout, table, ret>>

\* The data partition takes the rest of the disk as it is now.
Data(slack) == Extent(Boot.last + 1, length - 1 - slack)
AddData ==
  /\ pc = "add data"
  /\ \E slack \in 0..Slack :
       Accepted(Data(slack)) /\ label' = Append(label, Data(slack))
  /\ pc' = "set flag"
  /\ UNCHANGED <<total, length, unit, asked, layout, table, ret>>

SetFlag ==
  /\ pc = "set flag" /\ pc' = "commit"
  /\ UNCHANGED <<total, length, unit, asked, layout, label, table, ret>>

\* A mutant: nobody looks at the result of the commit.
CommitUnlooked ==
  /\ pc = "commit" /\ table' \in {label, table} /\ pc' = "done" /\ ret' = "ok"
  /\ UNCHANGED <<total, length, unit, asked, layout, label>>

\* ped_disk_commit: the table is on the disk even if telling the kernel fails,
\* which fails the call.
Commit ==
  /\ pc = "commit" /\ table' = label /\ pc' = "done" /\ ret' \in {"ok", "failed"}
  /\ UNCHANGED <<total, length, unit, asked, layout, label>>

Done == pc = "done" /\ UNCHANGED vars

Next == Calculate \/ Refuse \/ AddBoot \/ AddData \/ SetFlag \/ Commit \/ Done

Spec == Init /\ [][Next]_vars

-----------------------------------------------------------------------------
(* plan_mbr_partition and plan_gpt_partition: n partitions of equal size,  *)
(* the last with the remainder.                                            *)

MbrShare(sectors, n) == (sectors - 2 * Align) \div n
MbrRefused(sectors, n) ==
  \/ n \notin 1..4 \/ sectors < MinDevice \/ sectors <= 2 * Align
  \/ MbrShare(sectors, n) < Align
MbrPlan(sectors, n) ==
  [i \in 1..n |->
     LET first == Align + (i - 1) * MbrShare(sectors, n)
     IN  Extent(first, IF i = n THEN sectors - 1
                       ELSE first + MbrShare(sectors, n) - 1)]

GptFirst == 34 + Align
GptShare(sectors, n) == (sectors - GptFirst - 33) \div n
GptRefused(sectors, n) ==
  \/ n < 1 \/ sectors < MinDevice \/ sectors <= 34 + 33 + Align
  \/ GptShare(sectors, n) < Align

GptPlan(sectors, n) ==
  [i \in 1..n |->
     LET first == GptFirst + (i - 1) * GptShare(sectors, n)
     IN  Extent(first, IF i = n THEN sectors - 34 - 1
                       ELSE first + GptShare(sectors, n) - 1)]

-----------------------------------------------------------------------------
(* partition_wipe_and_create as what a session sees of it: the step of     *)
(* execute between the guard and the wait for the nodes.                   *)

Over == pc = "done"
Failed == ret = "failed"

Stage == IF ~Over THEN "commit" ELSE IF Failed THEN "cleanup" ELSE "nodes"
Content == IF table = <<>> THEN "original" ELSE "wiped"

Stick == {"stick"}

S == INSTANCE Session WITH
       Disks <- Stick, NoDisk <- "nodisk", Names <- {"sdx"}, Layouts <- {{}},
       HotPlug <- FALSE, MaxEvents <- 0, ISOs <- {"image"}, NoIso <- "noiso",
       OsOf <- [i \in {"image"} |-> "linux"], SizeOf <- [i \in {"image"} |-> 0],
       CapacityOf <- [d \in Stick |-> 0], NodeTries <- 1, MaxRuns <- 1,
       MaxCrashes <- 0,
       at <- [n \in {"sdx"} |-> "stick"], claims <- [d \in Stick |-> {}],
       isRoot <- TRUE, events <- 0,
       state <- IF Failed THEN "ERROR" ELSE "EXECUTING", cancelled <- FALSE,
       error <- IF Failed THEN "E-20-A" ELSE "none",
       iso <- "image", devices <- [n \in {"sdx"} |-> "stick"],
       selected <- "sdx", stage <- Stage, tries <- IF Over THEN 1 ELSE 0,
       fatMp <- "none", ntfsMp <- "none", dirs <- "none",
       content <- [d \in Stick |-> Content], dirty <- {},
       nodes <- ~Over, isoThere <- {"image"}, runs <- 1, crashes <- 0

\* Whatever is asked for, whatever disk has the name by now and whichever call
\* of libparted fails, the session is told of a success only with a table on the
\* disk, and goes to its error label with E-20-A otherwise, with or without one
\* (partition.c:243-402, session.c:530-534).
CommitsForSession == [][S!Commit]_(S!vars)

-----------------------------------------------------------------------------
(* Properties.                                                             *)

\* Whatever was listed and whatever disk answers to the name, a table that is
\* written has a boot partition behind the gap for the MBR and a data
\* partition behind it, both on the disk (partition.c:293-402).
TableSound ==
  table # <<>> =>
    /\ table[1].first = Align /\ table[1].last = Align + layout.boot - 1
    /\ MinBoot <= layout.boot /\ layout.boot <= MaxBoot
    /\ table[2].first = table[1].last + 1
    /\ table[2].first <= table[2].last /\ table[2].last < length

\* If the disk is the listed one, with sectors of 512 bytes, the data
\* partition is the one that was calculated, but for what libparted needs to
\* align its end: the two computations agree (partition.c:222-234, 338-341).
LayoutKept ==
  table # <<>> /\ length = total =>
    /\ table[2].first = layout.dataStart
    /\ Sectors(table[2]) \in layout.dataSize - Slack..layout.dataSize

\* Planned partitions follow each other and stay clear of both ends
\* (partition.c:88-108, 156-176).
Follow(plan, n, from, to) ==
  /\ plan[1].first >= from /\ plan[n].last <= to
  /\ \A i \in 1..n : plan[i].first <= plan[i].last
  /\ \A i \in 1..n - 1 : plan[i + 1].first = plan[i].last + 1

PlansSound ==
  \A n \in 1..4 :
    /\ ~MbrRefused(total, n) => Follow(MbrPlan(total, n), n, Align, total - 1)
    /\ ~GptRefused(total, n) => Follow(GptPlan(total, n), n, 34, total - 34 - 1)
=============================================================================
