# Winafi, modelled in TLA+

Winafi writes a Windows or Linux image to a USB disk: it partitions the disk,
formats two partitions, extracts the image to one of them, sets up booting and
unmounts. This directory holds TLA+ modules of that program, TLC
configurations that check them on small instances and TLAPS proofs of what
matters most. Paths in this file are relative to the repository.

## The system

| Component | Files (`src/`) | State | Operations |
|---|---|---|---|
| Write session | `platform/linux/session.c` | state machine, cancel flag, error, image, device list, selected device, mount context | enumerate, load, select, prepare, execute, cancel, create, destroy, setters |
| Device checks | `device.c`, `device_validate.c` | none; read `/proc`, `/sys`, `stat`, `open(O_EXCL)` | enumerate, validate, is mounted, final guard |
| Partitioning, formatting | `partition.c`, `fs_ops.c` | the disk | layout, commit, mkfs |
| Mounting | `mount_ops.c` | mounts and temporary directories | create, mount, sync, unmount |
| Image detection | `iso_extract.c`, `iso.c`, `iso_verify.c` | none | detect OS and Windows version, list |
| Image extraction | `iso_extract.c` | files on the mounted partition, list of what was extracted | UDF path (`mount`, `cp`), libarchive path |
| Boot set-up | `windows_boot.c`, `linux_boot.c`, `bootloader.c`, `wue.c` | files on both partitions | copy, rewrite and inject boot files |
| Graphical interface | `gui/` | widgets, worker thread, udev monitor | start, progress, finished, refresh |
| Option panel | `gui/sections/WindowsCustomizeSection.cpp`, setters of `session.c`, `wue.c` | boxes, flags and name, image option, answer files | tick, start, set, inject |
| Command line | `cli/cli.c` | options, paths, exit status | ask, confirm, call the session |
| Hash dialog | `gui/ISOHash*.cpp` | controls, label, worker threads, queued verdicts | type, verify, tell, close |
| The rest | settings, network, update check, S.M.A.R.T., bad blocks, messages, look | files | not part of a write |

The interfaces drive one session by calls; the graphical one does so from a
worker thread, with queued signals between it and the window. The session calls
everything else in one thread. What is concurrent is the rest of the machine:
automounters, udev, other programs, the user's hands, the kernel's writeback,
the `cp` of an extraction, and the sync children the session leaves behind.

Hard behaviours, and what makes each component correct:

* **Session**: calls in any order, after errors too; a run that fails at any
  call; a kill. Correct if no disk the system runs from is ever written, execute
  works on the image and the device that prepare checked, a completed one wrote
  the image, and however a run ends nothing stays mounted.
* **Device checks**: they look at names and device numbers at one instant.
  Correct if what they let through is used by nobody.
* **Mounting**: failures on the way, time-outs, mounts that vanish. Correct if
  every way out cleans up and comes back.
* **Extraction**: cancel, a child that hangs or dies, partial results, names
  that differ in case. Correct if a success has every file whose name was let
  pass and nothing writes on after the end.
* **Boot set-up**: writes next to and over extracted files. Correct if a
  success boots and loses none of them.
* **Layout**: arithmetic on sizes. Correct if partitions are inside the disk
  and disjoint, whatever disk has the name by now.
* **Interfaces**: confirmation before writing, one write at a time, the device
  that was confirmed, a last word that is true.
* **Options**: boxes that change during a write, settings that stay in a session
  from one write to the next. Correct if the answer files say what was asked
  for this write, and a standard installer never installs to its own stick.
* **Hash dialog**: verdicts of workers that were replaced or deleted, an image
  that goes away. Correct if the last verdict stays and is the truth.

PROJECT.json lists the hazards one by one, each at its line.

## Modules

```
Host              names, disks and their uses; the checks as predicates
 └─ Session       EXTENDS Host: the session's calls, execute call by call
     ├─ W == INSTANCE WriteJob     what a caller may rely on
     ├─ MCSession                  instances for TLC
     ├─ SessionProofs              types, the system's disks, the refinement
     └─ Cli                        the command line driving the session
         ├─ CliClaims ─ MCCli
         └─ CliProofs              EXTENDS SessionProofs too
PartitionLayout   the commit step of Session, in sectors
 ├─ S == INSTANCE Session          what the session sees of it
 ├─ MCPartitionLayout
 └─ PartitionLayoutProofs
IsoExtract        the extraction step of Session, entry by entry
 ├─ S == INSTANCE Session
 ├─ MCIsoExtract
 └─ IsoExtractProofs
BootFiles         the set-up step of Session, file by file
 ├─ S == INSTANCE Session
 ├─ BootFilesClaims ─ MCBootFiles
 └─ BootFilesProofs
Gui               the window around a session
 ├─ GuiClaims ─ MCGui
 └─ GuiProofs
HashDialog        the hash dialog and its workers
 ├─ MCHashDialog
 └─ HashDialogProofs
Unattend          from the Windows panel to the answer files
 ├─ MCUnattend
 └─ UnattendProofs
```

**Host** (`device.c`, `device_validate.c`). `at` maps each device name to a
disk, `claims` each disk to its uses. A use has a place (the disk or a
partition) and a kind; the kinds are as fine as the checks tell apart: a
protected mount found by device number, one hidden behind a device-mapper or
md volume, swap, a mount listed by name, a mount listed under an alias, an
exclusive opener, and two uses the session itself makes. `DeviceValidate`,
`DeviceIsMounted` and `FinalWipeGuard` are the checks. Mounts, unmounts,
arrival and removal of disks are external actions.

**Session** (`session.c` and what it calls). Each API call but execute is one
action that holds its whole handler. Execute is one action per call it makes;
`stage` says which comes next. Every failure goes to the `error:` label
(`Cleanup`), as in the code. Variables correspond as follows:

| Variable | Code |
|---|---|
| `state`, `cancelled`, `error` | `current_state`, `cancelled`, `error_code` |
| `iso`, `devices`, `selected` | `iso_path` with `iso_info`, `devices`, `selected_device` |
| `stage`, `tries` | the program counter of execute, the loop counter of `session.c:536` |
| `fatMp`, `ntfsMp`, `dirs` | what is mounted on `mount_ctx`'s directories, and the directories |
| `content`, `dirty` | what each disk holds, and what of it is still in memory |
| `nodes`, `isoThere` | device nodes of the new partitions, image files that exist |
| `runs`, `crashes`, `events` | bounds only |

Contents of a disk are six values: `original`, `wiped`, `partial`,
`extracted`, `setup` (extracted, and a boot set-up ran over it) and `torn`
(pulled out with unwritten data). `setup` says nothing about single files: what
the set-up does to them is the subject of BootFiles.

**WriteJob** is the abstract specification: a job is made ready, begins,
overwrites disks that are not protected, and ends done or given up; done means
that some unprotected disk holds all of an image. `Session!ImplementsWriteJob`
maps a session to it; `protected` is the set of disks the system runs from.

**PartitionLayout** (`partition.c`). `partition_wipe_and_create` after its
guard. `total` is the size that was listed, `length` the size of the disk that
has the name when libparted opens it, `unit` how many 512-byte sectors a sector
of that disk is; the code computes in 512-byte sectors and hands the numbers to
libparted, which takes them in the disk's. `label` is libparted's table in
memory, `table` the one on disk, `ret` what the call returns. Which partitions libparted takes (`Accepted`)
is external. `MbrPlan` and `GptPlan` are the two planners, which the repository's
tests call and its programs do not.

**IsoExtract** (`iso_extract.c`). A place is a path on the partition; two
entries whose names the partition does not tell apart have the same place.
`holds` says which entry a file's data came from, 0 if it is incomplete. The way
through libarchive is one action per kind of entry, each with its failures; the
way through UDF is a parent that polls, cancels, waits and unmounts, and a `cp`
that makes entries, misses some, dies or hangs. `tracked` is
`extracted_files_list_t`.

**BootFiles** (`session.c:615-722` and what it calls). A file has a role and a
spelling, and its data is the role it came from, or `empty`, `torn`, `shipped`
(the signed loader) or `generated` (an answer file). A set-up is a plan of
copies and what must hold before; `CopyFile` makes the next copy. Source and
target directories are the same one, as session.c passes them. `Copying` names
for each set-up where it is while it copies. `DetectOS`,
`BootMode` and `WindowsBootFound` are what the scan of an image decides.

**Gui** (`MainWindow.cpp`, `WorkerThread.cpp`, `UdevMonitor.cpp`). The window's
thread is in its loop, under the question, in the wait of an old worker's
destructor, or closing (`pc`). Events are handled in the loop and under the
question, clicks only in the loop. `events` is the queue of `finished` signals.
A worker is told by its phase and the disks it wrote to.

**Cli** (`cli.c`). One thread: `pc` is where `cli_main` stands, `isoPath` and
`devPath` are its two paths, `yes` that YES was typed, `status` the exit status.
Each step is joined with the action of Session it calls (`LoadImage` with
`LoadIso`, `WriteStep` with `ExecuteStep`, ...) or leaves the session alone, so
there is no second model of a session here. `Surroundings` is Session's
`Machine`, `Killed` a signal at any point. `meant` is in no variable of the
code: the disk that was shown under the entry picked, or that had the name
given when the program began.

**HashDialog** (`ISOHashDialog.cpp`, `ISOHashWorkerThread.cpp`). The window's
thread is in its loop or in a `wait()` for a worker; `worker` counts the workers
created, `given` what each was given, forgotten when it is deleted. `queue` is
the queued verdicts: Qt posts them to the dialog, so one is delivered though its
sender was deleted. A text or digest is told by what it is the digest of: the
image by an algorithm, or nothing at all (`"blank"`, the digest the worker has
if the image cannot be opened). The image goes away and comes back.

**Unattend** (`WindowsCustomizeSection.cpp`, `WorkerThread.cpp`, setters and step
5 of `session.c`, `wue.c`). `boxes` and `name` are the panel, `given` the
worker's copy, `session` the three option fields of the session, `auto` and
`panther` the two answer files. `started` and `used` remember the panel at START
and the session when the write began. The client is the window, which makes a
session for each write, or another caller of the library, which keeps one. A
file is `torn` if its text was lost at the unchecked `fclose`. The table of
bypasses in `wue.c` is a constant (`Bypasses`, each with its `Place`); `Numbered`
gives the commands the order numbers that the code counts up.

**The parts and the session.** Three modules look closer at a step of Session,
and each says so by an instance `S` of it with one disk and one name, whose
variables are functions of the module's own. A part maps what the session does
not see to a stutter:

* PartitionLayout: the stage is `commit` until the call is over, then `nodes`, or
  `cleanup` with E-20-A; the disk is wiped once it has a table.
  `CommitsForSession` is `[][S!Commit]_(S!vars)`.
* IsoExtract: a step of the extraction is `ExtractEntry`; the last is
  `ExtractEnd`, and the disk then holds `extracted` only if every file is whole.
  `ExtractsForSession` allows these and `Cancel`.
* BootFiles: loader, answer files, copies and fall-backs are steps of
  `InstallLoader`, `Customize` and `BootSetup`, and a Windows set-up that is
  skipped is the disjunct of `BootSetup` that leaves the disk alone.
  `SetsUpForSession` allows these and the loss of the image file (`RemoveIso`).

So what Session assumes of its long steps is what the detailed modules do.
`ExtractsForSession` was false at first: Session let no entry be written after a
cancel, but the UDF way looks at the flag between polls only, and `cp` writes on
until then. `ExtractEntry` was corrected.

The **Claims** modules state what headers, dialogs and the manual promise and
the code does not do, one formula each.

Definitions whose comment starts with "A mutant" are plausible bugs of the
definition that follows. Nothing uses them: a property is worth checking if it
fails when such a bug replaces the definition.

## Runs

| Run | Instance | Shows |
|---|---|---|
| `session_hotplug` | 2 disks, 2 names, a good and an unsupported image, 2 events, 1 execute, 1 kill, disks come and go | system disks stay intact (`SystemDiskIntact`), `WrittenIsChecked`, `CleanupComplete` |
| `session_stable` | 2 disks that stay, 2 names, Windows and Linux image, 1 event, 1 execute | `CompletedMeansWritten`, `ImplementsWriteJob` with its liveness, `ExecuteReturns` |
| `iso_extract` | 7 images of up to 5 entries over 3 places, cancel at any time | `OkMeansWhole`, `CopyEndsFirst`, `ProgressForward`, `CancelHeeded`, `ExtractsForSession` |
| `boot_files` | 14 images, 3 file systems, 2 kinds of installation | `WindowsStartFile`, `GrubDecides`, `SetsUpForSession` |
| `layout` | 19 sizes each for the listed and the real disk, 2 sector sizes, 3 requests | `TableSound`, `LayoutKept`, `CommitsForSession` |
| `gui` | 2 names, a stick and an internal disk, 2 writes, 1 plug or pull | `OneWriter`, `OnlyEventsRedirect`, `StatusSettles`, `WritingEnds` |
| `cli` | 2 disks that stay, 2 names, 2 images, every set of options, 1 event, 1 kill | `ConsentFirst`, `MeantIsWritten`, `ExitTellsTruth`, `GoesOn` |
| `hash_dialog` | 2 algorithms, 3 workers, the image goes and comes back | `OneThread`, `LastVerdictStays`, `ControlsMeanIdle`, `ControlsComeBack` |
| `unattend` | 2 bypasses, 3 clicks, 2 setters, 2 writes, 39 settings of a caller | `InstallerProtected`, `ToGoIsToGo`, `AsAsked` |
| `claim_GrubIsCopied`, `claim_YesIfPrompted`, `claim_ConfirmedIsWritten` | the instance of the module's passing run, or a smaller one | one formula of a Claims module each, violated |

Each module's type invariant is checked by its run, Session's by
`session_hotplug`.

Some properties say exactly what the code does where a header or the manual
promises more; the promise is then listed under "Read, not run":

* `WrittenIsChecked`: no call changes the image, the name or the list between a
  prepare that passed and the end of execute. "Fits" is the comparison that
  prepare makes, of the image's size and the listed capacity.
* `OkMeansWhole`: the names that `validate_iso_path` lets pass as regular files
  are there and hold the data of the last entry of that name, or none if that
  entry is a second name of a hard link. A refused name, which may just be too
  long or hold `..` (`iso_extract.c:149-160`), is missing from a success.
* `WindowsStartFile`: the file that the firmware starts is whole under both names
  if the image spells it otherwise than the set-up, and empty if it spells it
  as the set-up does.
* `AsAsked` speaks of the boxes that do what the manual says.
* `LayoutKept` holds if the disk is the one that was listed, `MeantIsWritten`
  where disks stay plugged in, `ControlsMeanIdle` while the image can be opened,
  and `GoesOn` takes a prompt for one waiting step.

Bounds. *Session*: two disks are needed for a swap and for a device that is
listed and one that is not; more disks behave like the second. Two events are a
swap (out, in) or a mount between two checks and an unmount; the invariant
behind `SystemDiskIntact` is proved for any number. One execute suffices for
what relates a run to the calls before it. `NodeTries` is 5 in the code and 1 or
2 here: with 2 the loop goes round and has both its ends. Capacities and sizes
are in units of 100 MB:
disk `d1` has one unit to spare, `d2` holds the image exactly. The initial uses
of a disk are none, a root file system behind a volume manager, and a plain
mount (`FewLayouts`): the kinds that pass and fail the checks differently.
`session_hotplug` takes the two names as symmetric: no definition tells them
apart, and the run checks no liveness. *IsoExtract*: an entry's handling
depends on its kind, what is at its place and above it, so a directory, a file
in it and a file beside it suffice; the images have each kind, each collision
and each order that matters. `MaxBytes` caps the progress. *BootFiles*: the set
of images has each answer of each detection and each spelling that Microsoft's
and the distributions' images use. *PartitionLayout*: the macros have their
values of `partition.c:19-33`, sizes lie at each limit and one sector to both
sides, `TableMax` stands for 2^32. The theorems have no such bounds. *Gui*: two
workers are one and its successor; a third meets the second as the second the
first. One plug or pull, with ticking "Show hard drives", makes every change of
the list a refresh can meet; a write is an event of its own, so the second
worker can be redirected with no plug at all. *Cli*: two names are needed to pick the wrong one;
each option is given or not, in every combination; disks stay plugged in, as
`MeantIsWritten` would say nothing of a name that changes hands. *HashDialog*:
the third worker is started when the verdicts of two may be queued; two faults
are an image that goes away and is back. *Unattend*: two bypasses have an order
and can be ticked separately; two writes are one and what it leaves to the next;
two setters set and change, or set two things.

Deadlock is checked everywhere but in `unattend`, where nobody need go on once
the clicks, setters and writes are used up: elsewhere a caller can always go on,
and what has ended stutters (`Returned`, `Finished`, `Done`, `Closed`, `Ended`).

Assumptions on the machine. The disks the system runs from stay plugged in and
keep their names and protected mounts during a run of the program, and nobody
mounts a protected mount point on a disk during it. `open(O_EXCL)` by root
fails when anyone holds the disk or a partition of it. mkfs refuses a partition
in use. A disk mount that outlives its disk can be detached. A symbolic link
extracted to the partition leads to nothing on it. libparted adds no partition
that overlaps another or leaves the disk. A signal queued to the window is
delivered though its sender is gone, as Qt does.

Fairness. *Session*: `WF(ExecuteStep)`: the calls execute makes (mkfs under
`timeout`, mount, a sync wait of at most 30 seconds, a detaching unmount)
return, and execute runs in one thread; `WF(ExtractEnd)`: an image has finitely
many entries. Nothing is assumed of the caller, of udev or of writeback.
*IsoExtract*: the calling thread goes on (`Archive`, `Udf`) and a `cp` that got
SIGTERM ends (`CpKilled`); nothing is assumed of a `cp` that was not killed, so
`CancelHeeded` holds even if it hangs. *Gui*: the window's loop handles queued
signals, a wait that is over is left, and a worker comes back, which
`ExecuteReturns` shows of a session; nothing is assumed of the user or udev.
*Cli*: the program goes on when it waits for nobody, and an extraction ends as
in Session; a user may never answer, so `GoesOn` ends at a question too.
*HashDialog*: the window's loop delivers, a wait that is over is left, and a
worker's thread runs; an image is finite. Unattend has no liveness.

## Findings

Each is a `claim_*` run with a behaviour TLC prints.

* `GrubIsCopied`: `grub.cfg` and GRUB's modules are copied onto themselves and
  end empty, and the set-up succeeds (`linux_boot.c:91`).
* `ConfirmedIsWritten`: the worker is given the name selected after the
  question was answered, and a udev refresh under the question selects the first
  device of the new list (`MainWindow.cpp:307`).
* `YesIfPrompted`: with `--device` and `--dangerous` and no `--iso` the image is
  asked for, and YES never, though the help says it is (`cli.c:38-39`, `:399`):
  `--device` alone clears `g_interactive` (`:276-279`), as does `--iso`.

Read, not run. These came up while the modules were written; no run shows them:

* Session: `select_device` compares state numbers (`session.c:335`), so it works
  with no image loaded and from ERROR (`session.h:24`, `:28`); it takes whatever
  disk has the listed name now (`session.h:113`). prepare neither asks for 100 MB
  beyond the image (`session.h:133`) nor looks at mounts (`session.h:135`).
  Enumerating again drops the list before the new one is there (`:246`). The
  cancel flag is never cleared (`:785`), and a cancel before the first or after
  the last callback of the extraction has no effect (`:459`, `session.h:207`). A
  run completes though the disk went away with unwritten data, or a sync took
  more than 30 seconds: nobody looks at the results of the syncs (`:727`,
  `session.h:27-28`).
* Checks: `final_wipe_guard` does not see a root file system behind a volume
  manager (`device_validate.c:449`) though it is called self-contained, and is
  not called before mkfs (`fs_ops.c:12`). `SystemDiskIntact` holds all the
  same, through device_validate's lock.
* Boot set-up: file system number 1 is NTFS in the session and FAT32 in
  `windows_boot.c` and `linux_boot.c`, so a UEFI set-up is refused on FAT32 and
  made on NTFS. A Linux image with `bootx64.efi` is taken for Windows. The shim
  is copied over `bootx64.efi` before the loader is copied from there. A Windows
  image that is not recognised goes on without a set-up (`session.c:667`). The
  mode HYBRID is never produced. A Windows image that spells its boot files as
  the set-up does has them copied onto themselves and ends with an empty
  `BOOTX64.EFI` or `bootmgr`, and the set-up succeeds (`windows_boot.c:113-128`),
  though `windows_boot.h:36` and `:64` promise a copy and a configured boot
  environment; Microsoft's images spell them otherwise.
* Extraction: a failed or cancelled one removes nothing: `unlinkat` refuses the
  flag it is given (`iso_extract.c:97`), and the UDF way has no clean-up, though
  `iso_extract.h:264` and `:288` promise one. "Success, all files extracted"
  (`iso_extract.h:277`) is more than a success means: an entry that is a hard
  link is extracted empty, a refused name (too long, or with `..` anywhere in it)
  is skipped, of two names the target does not tell apart the last one wins, and
  a directory or link that cannot be made is only logged. The branch for a name
  that is too long (`iso_extract.c:1260`) is never reached: such a name was
  refused before.
* Layout: on disks with 4096-byte sectors the boot partition is eight times as
  large as asked for. The planners' partitions after the first are not aligned
  to 1 MB (`partition.h:25`), `plan_gpt_partition` has no upper bound on the
  number of partitions for its array of four, and its last partition ends a
  sector before its share does, which is why `GptPlanFollows` needs an alignment
  of two sectors.
* Window: the first list is read before the monitor listens; no signal of the
  image's line edit is connected, so START does not follow typing; `onFinished`
  enables START whatever is selected; the late signal of a first write shows
  "Done" while the second is under way (`MainWindow.cpp:330`).
* Options: the box for an administrator is never read, though
  `USER_MANUAL.md:44-45` describes it, and the account is always made an
  administrator (`wue.c:168`). "Allow offline installation" sets the policy that
  keeps internal disks offline (`WindowsCustomizeSection.cpp:126`, `wue.h:12`),
  for `USER_MANUAL.md:46-47` it is a setup without a network. "Apply all" keeps
  its tick when a box is unticked. An ampersand in the user name makes the answer file no XML
  (`wue.c:159`); its `fclose` is not looked at (`:229`). Partition scheme, target,
  file system, cluster size, label, quick format and bad blocks have no effect
  on a write, and nothing opens `AdvancedFormatDialog` and `AdvancedDriveDialog`.
* Hash dialog: an input of spaces equals the digest of an image that cannot be
  opened, and is a match (`ISOHashWorkerThread.cpp:30`, `:50`); such an image
  has two verdicts, and the first enables the controls. The Cancel button is
  connected to nothing.

## Proofs

`SessionProofs` proves, for any constants that meet the named assumptions:

* `TypeCorrect`: `Spec => []TypeOK`. Types alone are not inductive: what
  mounting puts into `fatMp` is `at[selected]`, a disk only if `selected` is a
  name. The invariant is `TypeOK /\ DeviceKnown`.
* `SystemDiskSafe`: `Spec => []SystemDiskIntact`, from `SafetyHolds`:
  `Spec => []SafetyInv`.

Why the invariant is as it is: `SystemDiskIntact` is about every write, and a
write goes to the disk at the selected name (commit, mkfs) or to the one
mounted (extraction, set-up). So neither may be the system's (`TargetFree`,
`MountsFree`). `TargetFree` begins with device_validate in execute, whose lock
is tried by root only, hence `RootOnly`, which prepare establishes; and it is
kept because a disk that takes the name later was attached to no name, and the
system's disks always are (`SystemAttached`). Lemma `SystemKeptStep` says that no
step makes or unmakes a system disk; `ExecuteFrame`, `ExecuteWrites`,
`ExecuteMounts`, `CallerFrame` and `EnvironmentFrame` say what each group of
actions changes; `SafetyInvStep` puts them together.

It proves, on top of that:

* `WrittenIsCheckedHolds`: `Spec => WrittenIsChecked`. Of the calls only prepare
  leads to a session that is ready, and those that change the image, the name or
  the list leave it (`CallerChecks`); what prepare cannot see, that a loaded image
  is one of a known system, is `ImageInv`.
* `CleanupHolds`: `Spec => []CleanupComplete`. The clean-up takes only what the
  mount context says is mounted, so the invariant (`MountInv`) is that every
  claim of the session's is one of its two mounts on that disk
  (`OursAreMounts`), through unmounts by others, unplugging and kills, and that a
  mount point is free when execute mounts there (`NotYetMounted`), so no mount is
  forgotten. It rests on `HostAssumption`: no disk carries such a claim when the
  program starts. What a kill leaves mounted belongs to no session, and the
  next one meets it as somebody else's.
* `CompletedHolds`: `HotPlug = FALSE => (Spec => CompletedMeansWritten)`: from
  the extraction on a disk that is still mounted holds a whole image
  (`WholeMounted`). With disks that come and go it is false, as a mount may be
  dead.
* `SessionIsWriteJob`: under the same assumption the initial states of a session
  map to those of WriteJob and every step to a step or a stutter. What the
  abstract steps need, a target that is not protected and a whole image at the
  end, is `SafetyInv` and `WholeInv`.

`CliProofs` proves of the command line `CliTypeCorrect`; `CliIsSession`: each of
its steps is one of Session's or changes nothing of it, so what is proved of a
session's steps holds here (`CliSystemDiskSafe`, `CliCleanupHolds`,
`CliCheckedHolds`); `ConsentHolds`; and, where disks stay plugged in, `MeantHolds` and
`ExitHolds`. For consent the invariant
says which refusals lie behind each `pc`, and that no disk is touched before the
question. For the other two (`StableInv`) one disk is followed from the entry
picked through the name, the selection and the mount to what is written
(`MeantInv`), and `TruthInv` says what each way out knows; they use `MountInv` and
`WholeInv` of the session.

`PartitionLayoutProofs` proves, for any sizes, sector sizes and macros:

* `LayoutTypeCorrect`: `Spec => []TypeOK`,
* `WrittenTableSound`: `Spec => []TableSound`,
* `WrittenLayoutKept`: `Spec => []LayoutKept`,
* `MbrPlanFollows`, `GptPlanFollows` and from them `PlansHold`: the planners'
  partitions follow each other on the disk, for every size and number they take.
  No run checks these three: the functions have no state, and the theorems leave
  no size out,
* `CommitsForSessionHolds`: `Spec => CommitsForSession`.

A table is sound when it is written because of what was put into memory one
call earlier, so the invariant `LayoutInv` says at each `pc` what `layout` is and
what `label` holds, and the same of `table` once it is written, and that `ret` is
a success only then. Lemmas
`AppendToOne` and `AppendSecond` say what the second partition makes of the
list.

`IsoExtractProofs` proves, for any images, places and bounds,
`ExtractTypeCorrect`, `CopyEndsFirstHolds`, `OkMeansWholeHolds`, `ProgressHolds`
and `ExtractsForSessionHolds`. `ExtractInv` has two parts: `WayInv` says which
way the parent goes and where the child may be; `KeptInv` says what
`OkMeansWhole` says, of the entries taken so far. That no link and no directory
made for a later entry destroys a file is lemma `DirsKeepFiles`. The refinement
has a lemma for each way a step looks from the session (`SeesEntry`,
`SeesSuccess`, `SeesFailure`, `SeesCancel`, `SeesNothing`); that a success
leaves `extracted` is `OkMeansWhole`.

`BootFilesProofs` proves `BootTypeCorrect`, `WindowsStartFileHolds`,
`GrubDecidesHolds`, `SpelledOtherwiseHolds` and `SetsUpForSessionHolds` for any
image. A set-up is a plan of copies, so the invariant speaks of the plan that is
left: every copy in it is of a file spelled as the set-up spells it (`PlanInv`),
and the copy of the file the firmware starts comes first or was made
(`BootInv`). `SpelledOtherwiseIsKept` is proved and in no run. For the
refinement `SideInv` says which stages belong to which operating system, and
`Moves` which way each step goes; the rest is again one lemma for each step of
the session.

`GuiProofs` proves `GuiTypeCorrect`, `OneWriterHolds`, `OnlyEventsRedirectHolds`
and `StatusHolds` for any number of writes. `OneWriter` needs that START is disabled
while the last worker is at work or the window waits for it; `StatusSettles` that
the last worker's signal is the last in the queue or on the chip (`LastSignal`);
`OnlyEventsRedirect` that an event is due, or the combo box shows another device
than the question, only for one of the causes (`Redirected`).

`HashDialogProofs` proves `HashTypeCorrect`, `OneThreadHolds`, `ControlsHold` and
`VerdictHolds` for any number of workers: the last worker's verdict is the last
in the queue or on the label (`VerdictInv`), and as long as each image could be
opened there is at most one verdict under way, with disabled controls
(`ControlsInv`).

`UnattendProofs` proves `UnattendTypeCorrect`, `InstallerProtectedHolds`,
`ToGoHolds` and `AsAskedHolds` for any table of bypasses, any settings of a caller
and any number of clicks and writes. `UnattendInv` follows the settings on their
way: what the worker was given is what the panel said at START (`GivenInv`), what
the write uses is what the session had when it began (`UsedInv`), which is the
former if the window drives (`WindowInv`), and each answer file was made of some
such settings (`FileInv`). Lemma `NumbersFollowTable` says that commands are
numbered in the table's order, `FoundAsMade` that an answer file that was not lost
is the one made from the flags and the name the session had.

Only model-checked: liveness (`ExecuteReturns`, `CancelHeeded`, `WritingEnds`,
`GoesOn`, `ControlsComeBack`, the fairness part of `ImplementsWriteJob`), which is
out of the prover's reach.

## Not modelled

The setters of format options: execute ignores all but three. Text, progress
bars and logging. Media errors other than a disk pulled out. Errors of the
checks themselves: `/proc/mounts` or `/proc/swaps` that cannot be opened count as
"not mounted" in the code, and are assumed to open here. Devices the enumeration
skips (loop, ram, device-mapper, nbd). Files the build leaves out
(`mbr_bootloader.c`, `filesystem.c`, `error_messages.c`), and functions with no
caller in the program (`validate_device_capacity`, `wimboot.c`, `pe.c`, `pki.c`).
The advanced panel and dialogs, which no write reads or nobody opens. Settings,
network, update check, S.M.A.R.T. and bad-block tools: straight-line input and
output that is no part of a write. Theme and packaging.

## Plan

Done: all modules above, their runs, and the proofs above. Left, in this order:

1. **Gui over Session**: the worker's execute is one action of Gui; joined with
   Session's steps, as in Cli, it would inherit the session's theorems.
2. **Unattend and BootFiles**: the answer files are a step of both; one writes
   their text, the other their place.
3. **Device health and settings**, should a write come to depend on them.
