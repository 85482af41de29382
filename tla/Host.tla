-------------------------------- MODULE Host --------------------------------
(***************************************************************************)
(* The machine as Winafi sees it: which disk answers to which device name, *)
(* and what every disk is being used for.  On top of that state, the       *)
(* checks of device.c and device_validate.c that stand between a device    *)
(* name and a destructive write, each as a predicate over the host.        *)
(*                                                                         *)
(* A use of a disk is a claim [place, kind]: place is the whole disk or a  *)
(* partition, kind tells how the use shows up to the checks.               *)
(*   "sysfs"     file system mounted at /, /boot, /home, ... (a protected  *)
(*               mount point); /proc/mounts may name it otherwise          *)
(*   "sysholder" device-mapper or md volume that carries a protected mount *)
(*   "swap"      active swap                                               *)
(*   "fs"        file system mounted elsewhere, listed in /proc/mounts     *)
(*               under the name of its partition                           *)
(*   "aliasfs"   the same, listed under another name of its partition      *)
(*   "holder"    device-mapper or md volume, or another exclusive opener   *)
(*   "ours"      file system mounted by the running session                *)
(*   "syncing"   file system kept alive by a sync child that outlived the  *)
(*               session's wait for it                                     *)
(***************************************************************************)
EXTENDS Integers, FiniteSets

CONSTANTS
  Disks,      \* the physical disks
  NoDisk,     \* no disk answers to a name
  Names,      \* device names (/dev/sda, ...)
  Layouts,    \* the uses a disk may have when the program starts
  HotPlug,    \* TRUE: disks that are not the system's come and go
  MaxEvents   \* bound on the events of the environment

Places == {"disk", "p1", "p2"}
Kinds == {"sysfs", "sysholder", "swap", "fs", "aliasfs", "holder",
          "ours", "syncing"}
Claim == [place : Places, kind : Kinds]

SystemKinds == {"sysfs", "sysholder", "swap"}

ASSUME HostAssumption ==
  /\ NoDisk \notin Disks
  /\ Layouts \subseteq SUBSET {c \in Claim : c.kind \notin {"ours", "syncing"}}
  /\ HotPlug \in BOOLEAN
  /\ MaxEvents \in Nat

VARIABLES
  at,         \* the disk each name stands for
  claims,     \* the uses of each disk
  isRoot,     \* geteuid() == 0
  events      \* environment events so far

hostVars == <<at, claims, isRoot, events>>

HostTypeOK ==
  /\ at \in [Names -> Disks \union {NoDisk}]
  /\ claims \in [Disks -> SUBSET Claim]
  /\ isRoot \in BOOLEAN
  /\ events \in 0..MaxEvents

-----------------------------------------------------------------------------
HasKind(d, kinds) == \E c \in claims[d] : c.kind \in kinds
Attached(d) == \E n \in Names : at[n] = d
IsSystem(d) == HasKind(d, SystemKinds)
SystemDisks == {d \in Disks : IsSystem(d)}

\* Present(n): stat() finds a block device at the name.
Present(n) == at[n] # NoDisk

\* A mount is found by name only if /proc/mounts lists it under that name.
MountedByName(d, places) ==
  \E c \in claims[d] : c.place \in places /\ c.kind \in {"fs", "ours"}

\* device_is_mounted: exact match on the name of the whole disk.
DeviceIsMounted(n) == Present(n) /\ MountedByName(at[n], {"disk"})

\* validate_not_system_drive: a protected mount point (found by device number)
\* or active swap on the disk or one of its partitions.
NotSystemDrive(n) == ~HasKind(at[n], {"sysfs", "swap"})

\* validate_device_not_locked: open(O_EXCL) fails while anyone claims the disk
\* or a partition of it, however the claim is named.
NotLocked(n) == claims[at[n]] = {}

\* A mutant: device_validate without the try at the lock.
DeviceValidateLockless(n) == Present(n) /\ NotSystemDrive(n)

\* device_validate: the lock is tried by root only.
DeviceValidate(n) ==
  /\ Present(n)
  /\ NotSystemDrive(n)
  /\ isRoot => NotLocked(n)

\* final_wipe_guard: mounts by name, swap and protected mounts; no lock.
FinalWipeGuard(n) ==
  /\ Present(n)
  /\ ~MountedByName(at[n], Places)
  /\ NotSystemDrive(n)

-----------------------------------------------------------------------------
(* The environment.  The disks the system runs from keep their uses and    *)
(* their names while the program runs.                                     *)

HostInit ==
  /\ at \in [Names -> Disks \union {NoDisk}]
  /\ \A m, n \in Names : Present(m) /\ at[m] = at[n] => m = n
  /\ claims \in [Disks -> Layouts]
  /\ \A d \in Disks : ~Attached(d) => claims[d] = {}
  /\ isRoot \in BOOLEAN
  /\ events = 0

Event == events < MaxEvents /\ events' = events + 1 /\ UNCHANGED isRoot

CanClaim(d, p) ==
  \A c \in claims[d] : c.place # p /\ c.place # "disk" /\ p # "disk"

\* A desktop automounter mounts a file system found on a disk.
AutoMount(d, p) ==
  /\ Event
  /\ Attached(d) /\ CanClaim(d, p)
  /\ claims' = [claims EXCEPT ![d] = @ \union {[place |-> p, kind |-> "fs"]}]
  /\ UNCHANGED at

\* Somebody unmounts a file system, possibly one the session has mounted.
ExternalUnmount(d, c) ==
  /\ Event
  /\ c \in claims[d] /\ c.kind \in {"fs", "aliasfs", "ours"}
  /\ claims' = [claims EXCEPT ![d] = @ \ {c}]
  /\ UNCHANGED at

\* The disk behind a name is pulled out; its uses end.
Unplug(n) ==
  /\ HotPlug
  /\ Event
  /\ Present(n) /\ ~IsSystem(at[n])
  /\ at' = [at EXCEPT ![n] = NoDisk]
  /\ claims' = [claims EXCEPT ![at[n]] = {}]

\* A disk is plugged in and takes a free name.
Plug(n, d) ==
  /\ HotPlug
  /\ Event
  /\ ~Present(n) /\ ~Attached(d)
  /\ at' = [at EXCEPT ![n] = d]
  /\ UNCHANGED claims
=============================================================================
