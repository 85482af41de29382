------------------------------- MODULE Session -------------------------------
(***************************************************************************)
(* One write session (session.c) over the host of module Host.             *)
(*                                                                         *)
(* The caller may make any sequence of API calls; each call but execute    *)
(* runs to its end as one step.  execute() is a sequence of steps, one per *)
(* call it makes, because the host changes under it: disks are mounted,    *)
(* unmounted, pulled out and swapped, the cancel flag is set by another    *)
(* thread, and the process may be killed, which no code handles.           *)
(***************************************************************************)
EXTENDS Host

CONSTANTS
  ISOs,        \* the image files a caller may name
  NoIso,       \* iso_path is empty
  OsOf,        \* the os_type iso_detect_os finds in each image
  SizeOf,      \* the size of each image
  CapacityOf,  \* the capacity of each disk
  NodeTries,   \* how often execute looks for the partition nodes (5)
  MaxRuns,     \* bound on the calls of execute that get past their guard
  MaxCrashes   \* bound on the times the process is killed

ASSUME SessionAssumption ==
  /\ NoIso \notin ISOs
  /\ OsOf \in [ISOs -> {"windows", "linux", "other"}]
  /\ SizeOf \in [ISOs -> Nat]
  /\ CapacityOf \in [Disks -> Nat]
  /\ NodeTries \in Nat
  /\ MaxRuns \in Nat
  /\ MaxCrashes \in Nat

Dead == "dead"           \* a mount whose disk was pulled out
Unmounted == "none"      \* nothing is mounted there
NoDevice == "nodevice"   \* selected_device is empty

ASSUME ValueAssumption ==
  Dead \notin Disks /\ Unmounted \notin Disks /\ NoDevice \notin Names

States == {"CREATED", "ISO_LOADED", "DEVICES_ENUMERATED", "DEVICE_SELECTED",
           "PREPARED", "EXECUTING", "COMPLETED", "ERROR"}

Errors == {"none", "E-00-A", "E-00-C", "E-00-D", "E-00-G",
           "E-01-A", "E-01-C", "E-01-D",
           "E-10-A", "E-10-C", "E-20-A", "E-21-A", "E-21-B", "E-22-A",
           "E-22-B", "E-30-A", "E-30-C", "E-40-A", "E-40-B", "E-40-C",
           "E-40-D", "E-41-A", "E-50-B", "E-51-B"}

\* Where execute stands; "idle" between calls.
Stages == {"idle", "validate", "mountcheck", "guard", "commit", "nodes",
           "fat", "ntfs", "dirs", "mountfat", "mountntfs", "extract",
           "customize", "boot", "loader", "syncfat", "syncntfs", "unmount",
           "cleanup"}

\* What a disk holds: what its owner put there, fresh partitions, part of an
\* image, a whole extraction, one the boot set-up then ran over, or the remains
\* of a write whose cached data was lost with the disk.
Contents == {"original", "wiped", "partial", "extracted", "setup", "torn"}

VARIABLES
  \* the session
  state,       \* current_state
  cancelled,   \* the cancel flag
  error,       \* error_code
  iso,         \* iso_path (with iso_info)
  devices,     \* the device list: the disk listed under each name, or NoDisk
  selected,    \* selected_device
  \* the call of execute in progress
  stage,
  tries,       \* looks for the partition nodes still left
  fatMp,       \* what is mounted at mount_ctx.fat_mount
  ntfsMp,      \* what is mounted at mount_ctx.ntfs_mount
  dirs,        \* the temporary directories of mount_ctx: "spilled" once files
               \* were written there with nothing mounted on them
  \* the world
  content,     \* what each disk holds
  dirty,       \* <<disk, place>> with data not yet on the disk
  nodes,       \* the partition nodes of the selected device exist
  isoThere,    \* the image files that exist
  runs,
  crashes

apiVars == <<iso, devices, selected>>
mountVars == <<fatMp, ntfsMp, dirs>>
diskVars == <<content, dirty>>
boundVars == <<runs, crashes>>
vars == <<at, claims, isRoot, events, state, cancelled, error, iso, devices,
          selected, stage, tries, fatMp, ntfsMp, dirs, content, dirty, nodes,
          isoThere, runs, crashes>>

\* The session's fields hold what session.c ever stores in them.
TypeOK ==
  /\ HostTypeOK
  /\ state \in States
  /\ cancelled \in BOOLEAN
  /\ error \in Errors
  /\ iso \in ISOs \union {NoIso}
  /\ devices \in [Names -> Disks \union {NoDisk}]
  /\ selected \in Names \union {NoDevice}
  /\ stage \in Stages
  /\ tries \in 0..NodeTries
  /\ fatMp \in Disks \union {Dead, Unmounted}
  /\ ntfsMp \in Disks \union {Dead, Unmounted}
  /\ dirs \in {"none", "empty", "spilled"}
  /\ content \in [Disks -> Contents]
  /\ dirty \subseteq Disks \X {"p1", "p2"}
  /\ nodes \in BOOLEAN
  /\ isoThere \subseteq ISOs
  /\ runs \in 0..MaxRuns
  /\ crashes \in 0..MaxCrashes

NewSession ==
  /\ state = "CREATED" /\ cancelled = FALSE /\ error = "none"
  /\ iso = NoIso /\ devices = [n \in Names |-> NoDisk]
  /\ selected = NoDevice
  /\ stage = "idle" /\ tries = 0
  /\ fatMp = Unmounted /\ ntfsMp = Unmounted /\ dirs = "none"

Renewed ==
  /\ state' = "CREATED" /\ cancelled' = FALSE /\ error' = "none"
  /\ iso' = NoIso /\ devices' = [n \in Names |-> NoDisk]
  /\ selected' = NoDevice
  /\ stage' = "idle" /\ tries' = 0
  /\ fatMp' = Unmounted /\ ntfsMp' = Unmounted /\ dirs' = "none"

Init ==
  /\ HostInit
  /\ NewSession
  /\ content = [d \in Disks |-> "original"]
  /\ dirty = {}
  /\ nodes = FALSE
  /\ isoThere = ISOs
  /\ runs = 0 /\ crashes = 0

-----------------------------------------------------------------------------
(* Helpers of the API calls.                                               *)

Listed(n) == devices[n] # NoDisk

\* session_set_error, outside execute.
Refuse(code) == state' = "ERROR" /\ error' = code

Enter(s) == state' = s /\ UNCHANGED error

\* An API call that is not execute: the caller is outside execute, which blocks.
Call == stage = "idle" /\ UNCHANGED <<hostVars, cancelled, stage, tries,
                                      mountVars, diskVars, nodes, isoThere,
                                      boundVars>>

\* A mutant: a failed enumeration drops the list and not the state.
EnumerateSilently ==
  /\ Call
  /\ \/ devices' = at /\ Enter("DEVICES_ENUMERATED")
     \/ devices' = [n \in Names |-> NoDisk] /\ UNCHANGED <<state, error>>
  /\ UNCHANGED <<iso, selected>>

\* winafi_enumerate_devices: the old list goes first; no state is excluded.
EnumerateDevices ==
  /\ Call
  /\ \/ devices' = at /\ Enter("DEVICES_ENUMERATED")
     \/ devices' = [n \in Names |-> NoDisk] /\ Refuse("E-00-A")
  /\ UNCHANGED <<iso, selected>>

\* winafi_session_load_iso.
LoadIso(i) ==
  /\ Call
  /\ \/ /\ state \notin {"CREATED", "DEVICES_ENUMERATED"}
        /\ Refuse("E-51-B") /\ UNCHANGED iso
     \/ /\ state \in {"CREATED", "DEVICES_ENUMERATED"}
        /\ \/ i \notin isoThere /\ Refuse("E-10-A") /\ UNCHANGED iso
           \/ /\ i \in isoThere /\ OsOf[i] = "other"
              /\ Refuse("E-10-C") /\ UNCHANGED iso
           \/ /\ i \in isoThere /\ OsOf[i] # "other"
              /\ Enter("ISO_LOADED") /\ iso' = i
  /\ UNCHANGED <<devices, selected>>

\* winafi_session_select_device: the guard compares the numbers of the states,
\* and only CREATED is below ISO_LOADED.
SelectDevice(n) ==
  /\ Call
  /\ \/ state = "CREATED" /\ Refuse("E-51-B") /\ UNCHANGED selected
     \/ /\ state # "CREATED" /\ ~Listed(n)
        /\ Refuse("E-00-A") /\ UNCHANGED selected
     \/ /\ state # "CREATED" /\ Listed(n) /\ ~DeviceValidate(n)
        /\ Refuse("E-00-G") /\ UNCHANGED selected
     \/ /\ state # "CREATED" /\ Listed(n) /\ DeviceValidate(n)
        /\ Enter("DEVICE_SELECTED") /\ selected' = n
  /\ UNCHANGED <<iso, devices>>

\* winafi_session_prepare: the capacity is that of the disk in the list.
Fits == CapacityOf[devices[selected]] >= SizeOf[iso]

Prepare ==
  /\ Call
  /\ IF state # "DEVICE_SELECTED" THEN Refuse("E-51-B")
     ELSE IF ~isRoot THEN Refuse("E-01-C")
     ELSE IF ~Present(selected) THEN Refuse("E-01-A")
     ELSE IF iso \notin isoThere THEN Refuse("E-10-A")
     ELSE IF ~Listed(selected) THEN Refuse("E-00-D")
     ELSE IF ~Fits THEN Refuse("E-00-C")
     ELSE Enter("PREPARED")
  /\ UNCHANGED apiVars

\* winafi_session_destroy, and winafi_session_create for the next session.
Renew ==
  /\ stage = "idle" /\ Renewed
  /\ UNCHANGED <<hostVars, diskVars, nodes, isoThere, boundVars>>

\* winafi_session_cancel, from any thread.
Cancel ==
  /\ ~cancelled /\ cancelled' = TRUE
  /\ UNCHANGED <<hostVars, state, error, apiVars, stage, tries, mountVars,
                 diskVars, nodes, isoThere, boundVars>>

-----------------------------------------------------------------------------
(* winafi_session_execute, one action per call it makes.                   *)

\* Steps of execute leave these alone.
Step == UNCHANGED <<at, isRoot, events, cancelled, apiVars, isoThere,
                    boundVars>>

At(s) == stage = s /\ Step
Goto(s) == stage' = s /\ UNCHANGED <<state, error>>
Fail(code) == stage' = "cleanup" /\ state' = "ERROR" /\ error' = code

\* A call that does not touch the disks: it succeeds or fails.
Quiet == UNCHANGED <<claims, mountVars, diskVars, nodes>>

ExecuteRefused ==
  /\ Call /\ state # "PREPARED"
  /\ Refuse("E-51-B") /\ UNCHANGED apiVars

ExecuteStart ==
  /\ stage = "idle" /\ state = "PREPARED" /\ runs < MaxRuns
  /\ runs' = runs + 1
  /\ state' = "EXECUTING" /\ stage' = "validate"
  /\ UNCHANGED <<hostVars, cancelled, error, apiVars, tries, mountVars,
                 diskVars, nodes, isoThere, crashes>>

\* device_validate, once more.
Validate ==
  /\ At("validate") /\ Quiet /\ UNCHANGED tries
  /\ IF DeviceValidate(selected) THEN Goto("mountcheck") ELSE Fail("E-00-G")

\* device_is_mounted; the capacity is known and the partition names fit.
MountCheck ==
  /\ At("mountcheck") /\ Quiet /\ UNCHANGED tries
  /\ IF DeviceIsMounted(selected) THEN Fail("E-01-D") ELSE Goto("guard")

\* partition_wipe_and_create up to the commit.
WipeGuard ==
  /\ At("guard") /\ Quiet /\ UNCHANGED tries
  /\ \/ FinalWipeGuard(selected) /\ Goto("commit")
     \/ Fail("E-20-A")

Overwrite(m, c) ==
  content' = IF m \in Disks THEN [content EXCEPT ![m] = c] ELSE content

\* ped_disk_commit opens the device by name.  It may fail before or after the
\* table reached the disk; on success the kernel drops the old nodes.
Commit ==
  /\ At("commit")
  /\ \/ /\ Present(selected) /\ Overwrite(at[selected], "wiped")
        /\ Goto("nodes") \/ Fail("E-20-A")
     \/ Fail("E-20-A") /\ UNCHANGED content
  /\ nodes' = FALSE /\ tries' = NodeTries
  /\ UNCHANGED <<claims, mountVars, dirty>>

\* Mutants: a wait for the nodes that counts past its end, and one that does
\* not count.
AwaitNodesPastEnd ==
  /\ At("nodes") /\ Quiet
  /\ IF nodes THEN Goto("fat") /\ UNCHANGED tries
     ELSE tries' = tries - 1 /\ UNCHANGED <<stage, state, error>>

AwaitNodesForever ==
  /\ At("nodes") /\ Quiet /\ UNCHANGED tries
  /\ IF nodes THEN Goto("fat") ELSE UNCHANGED <<stage, state, error>>

\* Up to five looks for the partition nodes, a second apart.
AwaitNodes ==
  /\ At("nodes") /\ Quiet
  /\ IF nodes \/ tries = 0 THEN Goto("fat") /\ UNCHANGED tries
     ELSE tries' = tries - 1 /\ UNCHANGED <<stage, state, error>>

\* mkfs refuses a partition that is in use; that check is the tool's own.
CanFormat(p) ==
  /\ nodes /\ Present(selected)
  /\ \A c \in claims[at[selected]] : c.place \notin {p, "disk"}

Format(p, next, code) ==
  /\ \/ /\ CanFormat(p) /\ Overwrite(at[selected], "wiped")
        /\ Goto(next) \/ Fail(code)
     \/ Fail(code) /\ UNCHANGED content
  /\ UNCHANGED <<claims, mountVars, dirty, nodes, tries>>

FormatFat == At("fat") /\ Format("p1", "ntfs", "E-21-A")
FormatNtfs == At("ntfs") /\ Format("p2", "dirs", "E-21-B")

\* mount_create_temp_dirs, which removes what it made when it fails.
CreateDirs ==
  /\ At("dirs")
  /\ \/ Goto("mountfat") /\ dirs' = "empty"
     \/ Fail("E-50-B") /\ dirs' = "none"
  /\ UNCHANGED <<claims, fatMp, ntfsMp, diskVars, nodes, tries>>

Ours(p) == [place |-> p, kind |-> "ours"]
CanMount == nodes /\ Present(selected)
TakeClaim(p) == claims' = [claims EXCEPT ![at[selected]] = @ \union {Ours(p)}]

\* mount_fat32.
MountFat ==
  /\ At("mountfat")
  /\ \/ CanMount /\ TakeClaim("p1") /\ fatMp' = at[selected] /\ Goto("mountntfs")
     \/ Fail("E-22-A") /\ UNCHANGED <<claims, fatMp>>
  /\ UNCHANGED <<ntfsMp, dirs, diskVars, nodes, tries>>

\* mount_ntfs: the last of its three drivers decides.
MountNtfs ==
  /\ At("mountntfs")
  /\ \/ CanMount /\ TakeClaim("p2") /\ ntfsMp' = at[selected] /\ Goto("extract")
     \/ Fail("E-22-A") /\ UNCHANGED <<claims, ntfsMp>>
  /\ UNCHANGED <<fatMp, dirs, diskVars, nodes, tries>>
\* Data goes to the disk mounted at m, or into the bare directory.
Write(m, p) ==
  /\ dirty' = IF m \in Disks THEN dirty \union {<<m, p>>} ELSE dirty
  /\ dirs' = IF m = Unmounted THEN "spilled" ELSE dirs

WriteFails == UNCHANGED <<dirty, dirs>>

InExtract == At("extract") /\ UNCHANGED <<claims, fatMp, ntfsMp, nodes, tries>>

AfterExtract == IF OsOf[iso] = "windows" THEN "customize" ELSE "boot"

\* iso_extract_to_mountpoint writes an entry.  The callback looks at the cancel
\* flag after an entry or, while cp runs, every five seconds, so some may
\* still be written after a cancel.  What was extracted stays on the disk.
ExtractEntry ==
  /\ InExtract
  /\ Overwrite(ntfsMp, "partial") /\ Write(ntfsMp, "p2")
  /\ \/ UNCHANGED <<stage, state, error>>
     \/ cancelled /\ Fail("E-30-C")

\* A mutant: the result of the extraction is not looked at.
ExtractEndUnchecked ==
  /\ InExtract
  /\ \E c \in {"partial", "extracted"} : Overwrite(ntfsMp, c)
  /\ Write(ntfsMp, "p2") /\ Goto(AfterExtract)

\* The extraction ends: with the last entry, whatever the flag says since the
\* last callback, or with an error.
ExtractEnd ==
  /\ InExtract
  /\ \/ /\ Overwrite(ntfsMp, "extracted") /\ Write(ntfsMp, "p2")
        /\ Goto(AfterExtract)
     \/ /\ Overwrite(ntfsMp, "partial") /\ Write(ntfsMp, "p2")
        /\ Fail(IF cancelled THEN "E-30-C" ELSE "E-30-A")

\* wue_inject_autounattend, then wue_inject_xml for Windows To Go.
Customize ==
  /\ At("customize")
  /\ Write(ntfsMp, "p2")
  /\ Goto("boot") \/ Fail("E-40-D") \/ Fail("E-40-C")
  /\ UNCHANGED <<claims, fatMp, ntfsMp, content, nodes, tries>>

\* setup_windows_boot or setup_linux_boot.  When the Windows files are not
\* recognised the set-up is skipped and the run goes on.
BootSetup ==
  /\ At("boot")
  /\ LET windows == OsOf[iso] = "windows"
         next == IF windows THEN "loader" ELSE "syncfat"
     IN \/ /\ Write(ntfsMp, "p2") /\ Goto(next)
           /\ IF ntfsMp \in Disks /\ content[ntfsMp] = "extracted"
              THEN Overwrite(ntfsMp, "setup") ELSE UNCHANGED content
        \/ windows /\ Goto(next) /\ WriteFails /\ UNCHANGED content
        \/ /\ Fail(IF windows THEN "E-40-A" ELSE "E-40-B")
           /\ Write(ntfsMp, "p2") /\ UNCHANGED content
  /\ UNCHANGED <<claims, fatMp, ntfsMp, nodes, tries>>

\* bootloader_setup_uefi_ntfs, for Windows images.
InstallLoader ==
  /\ At("loader")
  /\ \/ Write(fatMp, "p1") /\ Goto("syncfat")
     \/ Fail("E-41-A") /\ Write(fatMp, "p1")
  /\ UNCHANGED <<claims, fatMp, ntfsMp, content, nodes, tries>>

\* mount_sync_path_timeout: the child flushes the file system, or fails, or is
\* still at it after 30 seconds and left alone.  The caller ignores the result.
Sync(s, next, m, p) ==
  /\ At(s) /\ Goto(next)
  /\ \/ dirty' = dirty \ {<<m, p>>} /\ UNCHANGED claims
     \/ UNCHANGED <<dirty, claims>>
     \/ /\ <<m, p>> \in dirty
        /\ claims' = [claims EXCEPT ![m] =
                        @ \union {[place |-> p, kind |-> "syncing"]}]
        /\ UNCHANGED dirty
  /\ UNCHANGED <<content, mountVars, nodes, tries>>

SyncFat == Sync("syncfat", "syncntfs", fatMp, "p1")
SyncNtfs == Sync("syncntfs", "unmount", ntfsMp, "p2")

\* A file system stays alive without our mount while others use it.
Held(d, p) == \E c \in claims[d] : c.place = p /\ c.kind # "ours"

\* The <<disk, place>> our two mounts sit on.
OurMounts == {x \in {<<fatMp, "p1">>, <<ntfsMp, "p2">>} : x[1] \in Disks}

\* A mutant: the clean-up stops at the first unmount that fails.
UnmountUntilError ==
  IF ntfsMp = Unmounted
  THEN UNCHANGED <<claims, mountVars, diskVars, nodes, tries>>
  ELSE /\ claims' = [d \in Disks |->
                       claims[d] \ {Ours(p) : p \in {q \in {"p1", "p2"} :
                                                     <<d, q>> \in OurMounts}}]
       /\ dirty' = {x \in dirty : x \in OurMounts => Held(x[1], x[2])}
       /\ fatMp' = Unmounted /\ ntfsMp' = Unmounted /\ dirs' = "none"
       /\ UNCHANGED <<content, nodes, tries>>

\* unmount_and_cleanup: both mounts are detached and the directories removed,
\* whatever fails on the way; a file system nobody else holds is flushed.
UnmountAll ==
  /\ claims' = [d \in Disks |->
                  claims[d] \ {Ours(p) : p \in {q \in {"p1", "p2"} :
                                                <<d, q>> \in OurMounts}}]
  /\ dirty' = {x \in dirty : x \in OurMounts => Held(x[1], x[2])}
  /\ fatMp' = Unmounted /\ ntfsMp' = Unmounted
  /\ dirs' = IF dirs = "spilled" THEN "spilled" ELSE "none"
  /\ UNCHANGED <<content, nodes, tries>>

\* A mutant: the result of the unmounts is not looked at.
UnmountUnchecked ==
  /\ At("unmount") /\ UnmountAll
  /\ stage' = "idle" /\ state' = "COMPLETED" /\ UNCHANGED error

Unmount ==
  /\ At("unmount") /\ UnmountAll
  /\ IF fatMp = Unmounted \/ ntfsMp = Unmounted
     THEN Fail("E-22-B")
     ELSE stage' = "idle" /\ state' = "COMPLETED" /\ UNCHANGED error

\* The error label.
Cleanup ==
  /\ At("cleanup") /\ UnmountAll
  /\ stage' = "idle" /\ state' = "ERROR" /\ UNCHANGED error

ExecuteStep ==
  \/ Validate \/ MountCheck \/ WipeGuard \/ Commit \/ AwaitNodes
  \/ FormatFat \/ FormatNtfs \/ CreateDirs \/ MountFat \/ MountNtfs
  \/ ExtractEntry \/ ExtractEnd \/ Customize \/ BootSetup \/ InstallLoader
  \/ SyncFat \/ SyncNtfs \/ Unmount \/ Cleanup

-----------------------------------------------------------------------------
(* The host around the session.                                            *)

SessionIdle == UNCHANGED <<state, cancelled, error, apiVars, stage, tries>>

HostAutoMount(d, p) ==
  /\ AutoMount(d, p)
  /\ stage \in {"nodes", "fat", "ntfs"} /\ at[selected] = d => nodes
  /\ SessionIdle /\ UNCHANGED <<mountVars, diskVars, nodes, isoThere, boundVars>>

\* Unmounting flushes, unless somebody else holds the file system.
HostUnmount(d, c) ==
  /\ ExternalUnmount(d, c)
  /\ fatMp' = IF c = Ours("p1") /\ fatMp = d THEN Unmounted ELSE fatMp
  /\ ntfsMp' = IF c = Ours("p2") /\ ntfsMp = d THEN Unmounted ELSE ntfsMp
  /\ dirty' = IF \E o \in claims[d] \ {c} : o.place = c.place
              THEN dirty ELSE dirty \ {<<d, c.place>>}
  /\ SessionIdle /\ UNCHANGED <<dirs, content, nodes, isoThere, boundVars>>

\* What was still in memory for the disk is lost; its mounts are dead.
HostUnplug(n) ==
  LET d == at[n]
      gone(m) == IF m = d THEN Dead ELSE m
  IN /\ Unplug(n)
     /\ fatMp' = gone(fatMp) /\ ntfsMp' = gone(ntfsMp)
     /\ content' = [content EXCEPT ![d] =
                      IF \E x \in dirty : x[1] = d THEN "torn" ELSE @]
     /\ dirty' = {x \in dirty : x[1] # d}
     /\ SessionIdle /\ UNCHANGED <<dirs, nodes, isoThere, boundVars>>

HostPlug(n, d) ==
  /\ Plug(n, d)
  /\ SessionIdle /\ UNCHANGED <<mountVars, diskVars, nodes, isoThere, boundVars>>

\* udev creates the partition nodes, perhaps after execute gave up waiting.
NodesAppear ==
  /\ stage \in {"nodes", "fat", "ntfs"} /\ Present(selected)
  /\ ~nodes /\ nodes' = TRUE
  /\ SessionIdle
  /\ UNCHANGED <<hostVars, mountVars, diskVars, isoThere, boundVars>>

\* The kernel, or a sync child left behind, writes cached data out.
Writeback(d, p) ==
  /\ <<d, p>> \in dirty
  /\ dirty' = dirty \ {<<d, p>>}
  /\ claims' = [claims EXCEPT ![d] = @ \ {[place |-> p, kind |-> "syncing"]}]
  /\ SessionIdle
  /\ UNCHANGED <<at, isRoot, events, mountVars, content, nodes, isoThere,
                 boundVars>>

RemoveIso(i) ==
  /\ Event
  /\ i \in isoThere /\ isoThere' = isoThere \ {i}
  /\ SessionIdle /\ UNCHANGED <<at, claims, mountVars, diskVars, nodes, boundVars>>

\* The process is killed.  Its mounts stay, as anybody's; a new session starts.
Crash ==
  /\ stage # "idle" /\ crashes < MaxCrashes
  /\ crashes' = crashes + 1
  /\ Renewed
  /\ claims' = [d \in Disks |->
                  {IF c.kind = "ours" THEN [c EXCEPT !.kind = "fs"] ELSE c :
                     c \in claims[d]}]
  /\ UNCHANGED <<at, isRoot, events, diskVars, nodes, isoThere, runs>>

Caller ==
  \/ EnumerateDevices
  \/ \E i \in ISOs : LoadIso(i)
  \/ \E n \in Names : SelectDevice(n)
  \/ Prepare
  \/ ExecuteRefused
  \/ ExecuteStart
  \/ Renew
  \/ Cancel

Machine ==
  \/ \E d \in Disks, p \in Places : HostAutoMount(d, p)
  \/ \E d \in Disks : \E c \in claims[d] : HostUnmount(d, c)
  \/ \E n \in Names : HostUnplug(n)
  \/ \E n \in Names, d \in Disks : HostPlug(n, d)
  \/ NodesAppear
  \/ \E d \in Disks, p \in {"p1", "p2"} : Writeback(d, p)
  \/ \E i \in ISOs : RemoveIso(i)

Environment == Machine \/ Crash

Next == Caller \/ ExecuteStep \/ Environment

\* The calls execute makes return, and an image has finitely many entries.
\* Nothing is asked of the caller, of udev or of the kernel's writeback.
Fairness == WF_vars(ExecuteStep) /\ WF_vars(ExtractEnd)

Spec == Init /\ [][Next]_vars /\ Fairness
-----------------------------------------------------------------------------
(* What the session promises.                                              *)

\* Whatever the caller does and however the host changes, a disk the system
\* runs from keeps its contents: the name that execute writes to was free of
\* every use when device_validate looked (session.c:485, device.c:441-473).
SystemDiskIntact == \A d \in SystemDisks : content[d] = "original"

\* Why it does: a device that is written to was selected and passed
\* device_validate as root, so it was free when the lock was tried, and what
\* takes its name or its place later is no disk of the system's.
Touching == Stages \ {"idle", "validate", "cleanup"}

RootOnly ==
  /\ state = "PREPARED" => isRoot
  /\ stage # "idle" => isRoot

DeviceKnown ==
  /\ state \in {"DEVICE_SELECTED", "PREPARED"} => selected \in Names
  /\ stage # "idle" => selected \in Names

TargetFree ==
  stage \in Touching => at[selected] \notin SystemDisks

MountsFree == fatMp \notin SystemDisks /\ ntfsMp \notin SystemDisks

SystemAttached == \A d \in SystemDisks : Attached(d)

\* The invariant as a whole: while execute runs it runs as root on a known
\* device, and neither that device nor its mounts are the system's
\* (session.c:374-749).
SafetyInv ==
  /\ TypeOK
  /\ SystemDiskIntact
  /\ RootOnly
  /\ DeviceKnown
  /\ TargetFree
  /\ MountsFree
  /\ SystemAttached

\* From a prepare that passed to the end of execute.
Ready == state = "PREPARED" \/ stage # "idle"

Checked ==
  /\ isRoot /\ Present(selected)
  /\ iso \in isoThere /\ OsOf[iso] # "other"
  /\ Listed(selected) /\ Fits

\* What execute works on is what prepare looked at: in whatever order the calls
\* come, in states the header allows or not, no call changes the image, the
\* device name or the list once prepare has found root, the name, a recognised
\* image and enough listed capacity, unless prepare is asked again
\* (session.c:230-454, 469-483).  Enough is the size of the image file, not the
\* 100 MB more of session.h:133; and the list is as old as its enumeration, so
\* nothing is said of a disk that was swapped since.
WrittenIsChecked ==
  [][Ready' => UNCHANGED apiVars /\ (Ready \/ Checked)]_vars

\* However execute ends by itself, nothing of the session's stays mounted and no
\* empty directory stays behind (session.c:731-746, mount_ops.c:119-148).
CleanupComplete ==
  stage = "idle" =>
    /\ fatMp = Unmounted /\ ntfsMp = Unmounted /\ dirs # "empty"
    /\ \A d \in Disks : ~HasKind(d, {"ours"})

\* COMPLETED is reached only with the whole image on the disk it was mounted
\* from, even if somebody else unmounted it during the run (session.c:731-740).
CompletedMeansWritten ==
  [][state' = "COMPLETED" /\ state # "COMPLETED" =>
       /\ ntfsMp \in Disks
       /\ content[ntfsMp] \in {"extracted", "setup"}]_vars

\* execute comes back: the wait for the nodes and the wait for the syncs are
\* bounded (session.c:536-541, mount_ops.c:177-190).
ExecuteReturns == stage # "idle" ~> stage = "idle"

-----------------------------------------------------------------------------
(* The session as a write job.                                             *)

Job ==
  IF stage # "idle" THEN "writing"
  ELSE IF state = "PREPARED" THEN "ready"
  ELSE IF state = "COMPLETED" THEN "done"
  ELSE "open"

W == INSTANCE WriteJob WITH
       Whole <- {"extracted", "setup"}, job <- Job, protected <- SystemDisks

\* On a machine whose disks stay plugged in, a session is a write job: it
\* overwrites only while executing and never a system disk, completes only
\* with a whole extraction on a disk, and ends (session.c:469-749).
ImplementsWriteJob == W!Spec
=============================================================================
