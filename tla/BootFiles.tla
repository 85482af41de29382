------------------------------ MODULE BootFiles ------------------------------
(***************************************************************************)
(* Step 5 of execute, file by file: what an image is taken for, and what   *)
(* the boot set-up copies where (session.c:615-722, windows_boot.c,        *)
(* linux_boot.c, bootloader.c, wue.c, the detection of iso_extract.c).     *)
(*                                                                         *)
(* The image has been extracted to the mounted partition, and the same     *)
(* directory is the source and the target of every copy.  A file has a     *)
(* role and a spelling: "canon" is the path the set-up writes to, "other"  *)
(* is the same path in other letters.  The partition is mounted with       *)
(* ntfs-3g or ntfs3, which tell the two apart.                             *)
(***************************************************************************)
EXTENDS Naturals, Sequences

CONSTANT Images   \* the images considered, [Roles -> Spellings]

EfiRoles == {"bootx64", "bootia32", "bootaa64"}

Roles == EfiRoles \union
  {"bootmgr", "bcd",       \* \bootmgr, \boot\bcd
   "wim",                  \* an installation image
   "kernel",               \* vmlinuz or initrd
   "grubcfg",              \* boot/grub/grub.cfg
   "modefi", "modbios",    \* boot/grub/x86_64-efi/x.mod, i386-pc/x.mod
   "syscfg",               \* isolinux/isolinux.cfg or syslinux/syslinux.cfg
   "ldlinux", "vesamenu",  \* ldlinux.sys and vesamenu.c32 beside it
   "c32",                  \* another module beside it
   "shim",                 \* EFI/<distro>/shimx64.efi
   "grubefi",              \* EFI/BOOT/grubx64.efi
   "autounattend", "panther"}

Spellings == {"absent", "canon", "other"}

Places == Roles \X {"canon", "other"}

\* What a file holds: what the image had in some role, or one of these.
Contents == Roles \union {"none", "empty", "torn", "shipped", "generated"}

ASSUME ImagesAssumption == Images \subseteq [Roles -> Spellings]

VARIABLES
  image,    \* the image
  gone,     \* its file is not there any more
  fs,       \* winafi_filesystem_t: 0 FAT32, 1 NTFS, 2 EXFAT
  option,   \* winafi_image_option_t
  data,     \* the files on the NTFS partition
  esp,      \* BOOTX64.EFI on the FAT partition
  part,     \* the set-up under way
  plan,     \* the copies it has still to make
  grubOk,   \* setup_grub2_boot succeeded
  ret       \* "none", "ok" or the error of the session

vars == <<image, gone, fs, option, data, esp, part, plan, grubOk, ret>>

SetUp == {"windows", "grub", "syslinux"}
\* A set-up of each kind while it copies.
Copying == [windows |-> "copy_windows", grub |-> "copy_grub",
            syslinux |-> "copy_syslinux"]

Steps == [src : Places, dst : Places, must : BOOLEAN]

\* Every variable has its type.  The loader on the ESP is whole or not there
\* at all (bootloader.c:54-66).
TypeOK ==
  /\ image \in Images /\ gone \in BOOLEAN
  /\ fs \in 0..2
  /\ option \in {"standard", "togo"}
  /\ data \in [Places -> Contents]
  /\ esp \in {"none", "shipped"}
  /\ part \in {"unattend", "togo", "windows", "loader", "grub", "syslinux",
               "copy_windows", "copy_grub", "copy_syslinux", "done"}
  /\ plan \in Seq(Steps)
  /\ grubOk \in BOOLEAN
  /\ ret \in {"none", "ok", "E-40-A", "E-40-B", "E-40-C", "E-40-D", "E-41-A"}

-----------------------------------------------------------------------------
(* What an image is taken for.                                             *)

Has(r) == image[r] # "absent"
SomeOf(im, rs) == \E r \in rs : im[r] # "absent"
HasAny(rs) == SomeOf(image, rs)

\* scan_iso_contents: a sign of Windows outweighs every sign of Linux, and
\* EFI/BOOT alone is Windows.  iso_detect_os: otherwise the image is refused.
WindowsSigns == EfiRoles \union {"bootmgr", "bcd", "wim"}
LinuxSigns == {"kernel", "grubcfg", "syscfg"}
DetectOS(im) ==
  IF SomeOf(im, WindowsSigns) THEN "windows"
  ELSE IF SomeOf(im, LinuxSigns) THEN "linux"
  ELSE IF SomeOf(im, {"grubefi"}) THEN "windows"
  ELSE "unknown"

\* detect_windows_version_internal and _detailed: never HYBRID.
BootMode == IF HasAny(EfiRoles) THEN "uefi" ELSE "bios"
WindowsBootFound == HasAny({"bootmgr", "bootx64", "bootia32"})

\* detect_linux_boot_type looks on the partition, under exact names.
Found(r) == data[<<r, "canon">>] # "none"
GrubFound == Found("grubcfg")
SyslinuxFound == Found("syscfg") /\ Found("ldlinux") /\ Found("vesamenu")
IsUefi == Found("modefi")

\* detect_shim_and_efi: the loader the shim is to start.
EfiLoader == IF Found("bootx64") THEN "bootx64" ELSE "grubefi"

-----------------------------------------------------------------------------
(* The copies each set-up makes, in order, and what it asks for first.     *)

Canon(r) == <<r, "canon">>
Own(r) == <<r, image[r]>>
Copy(src, dst) == [src |-> src, dst |-> dst, must |-> TRUE]
TryCopy(src, dst) == [src |-> src, dst |-> dst, must |-> FALSE]
If(cond, step) == IF cond THEN <<step>> ELSE <<>>

\* setup_windows_boot, setup_uefi_boot, setup_bios_boot.  FSTYPE_FAT32 of
\* windows_boot.c is 1, which is NTFS in the session.
WindowsRefused ==
  \/ ~Has("bootx64") /\ ~Has("bootmgr")
  \/ BootMode = "uefi" /\ (fs # 1 \/ ~Has("bootx64"))
  \/ BootMode = "bios" /\ ~(Has("bootmgr") /\ Has("bcd"))

WindowsPlan ==
  IF BootMode = "uefi"
  THEN <<Copy(Own("bootx64"), Canon("bootx64"))>> \o
       If(Has("bootia32"), TryCopy(Own("bootia32"), Canon("bootia32"))) \o
       If(Has("bootaa64"), TryCopy(Own("bootaa64"), Canon("bootaa64")))
  ELSE <<Copy(Own("bootmgr"), Canon("bootmgr")),
         Copy(Own("bcd"), Canon("bcd"))>>

\* setup_grub2_boot.  FSTYPE_FAT32 of linux_boot.c is 1 as well.
GrubRefused == IsUefi /\ fs # 1
Modules == IF IsUefi THEN "modefi" ELSE "modbios"
GrubPlan ==
  If(IsUefi /\ Found("shim"), Copy(Canon("shim"), Canon("bootx64"))) \o
  If(IsUefi /\ Found("shim") /\ Found(EfiLoader),
     TryCopy(Canon(EfiLoader), Canon("grubefi"))) \o
  <<Copy(Canon("grubcfg"), Canon("grubcfg"))>> \o
  If(Found(Modules), Copy(Canon(Modules), Canon(Modules)))

\* setup_syslinux_boot: vesamenu.c32 is copied by name and once more with
\* all modules of the directory.
SyslinuxRefused == IsUefi
SyslinuxPlan ==
  <<Copy(Canon("syscfg"), Canon("syscfg")),
    Copy(Canon("ldlinux"), Canon("ldlinux")),
    Copy(Canon("vesamenu"), Canon("vesamenu")),
    Copy(Canon("vesamenu"), Canon("vesamenu"))>> \o
  If(Found("c32"), Copy(Canon("c32"), Canon("c32")))

-----------------------------------------------------------------------------
(* The steps.                                                              *)

Init ==
  /\ image \in Images /\ gone = FALSE /\ fs \in 0..2 /\ option \in {"standard", "togo"}
  /\ data = [p \in Places |-> IF image[p[1]] = p[2] THEN p[1] ELSE "none"]
  /\ esp = "none" /\ plan = <<>> /\ grubOk = FALSE /\ ret = "none"
  /\ \/ DetectOS(image) = "windows" /\ part = "unattend"
     \/ DetectOS(image) = "linux" /\ ~GrubFound /\ ~SyslinuxFound /\ part = "grub"
     \/ DetectOS(image) = "linux" /\ GrubFound /\ part = "grub"
     \/ DetectOS(image) = "linux" /\ ~GrubFound /\ SyslinuxFound /\ part = "syslinux"

Done(code) == part' = "done" /\ ret' = code /\ plan' = <<>>
GoOn(next) == part' = next /\ plan' = <<>> /\ UNCHANGED ret

\* fopen truncates; a write that fails is seen only if it does not wait for
\* fclose, whose result is not looked at.
Inject(place, next, code) ==
  \/ data' = [data EXCEPT ![place] = "generated"] /\ GoOn(next)
  \/ data' = [data EXCEPT ![place] = "torn"] /\ (GoOn(next) \/ Done(code))
  \/ UNCHANGED data /\ Done(code)

\* autounattend.xml, always for a standard installation, and with flags or
\* without for Windows To Go.
InjectAutounattend ==
  /\ part = "unattend"
  /\ \/ Inject(Canon("autounattend"), "togo", "E-40-D")
     \/ option = "togo" /\ GoOn("togo") /\ UNCHANGED data
  /\ UNCHANGED <<image, gone, fs, option, esp, grubOk>>

InjectToGo ==
  /\ part = "togo"
  /\ IF option = "togo" THEN Inject(Canon("panther"), "windows", "E-40-C")
     ELSE GoOn("windows") /\ UNCHANGED data
  /\ UNCHANGED <<image, gone, fs, option, esp, grubOk>>

\* A mutant: Syslinux decides, though GRUB is set up.
FailsSecondary(what) ==
  CASE what = "windows" -> Done("E-40-A")
    [] what = "grub" -> Done("E-40-B")
    [] what = "syslinux" -> Done("E-40-B")

\* A set-up ends badly: GRUB falls back to Syslinux if both were found, and
\* Syslinux as the second of two does not matter.
Fails(what) ==
  CASE what = "windows" -> Done("E-40-A")
    [] what = "grub" -> IF GrubFound /\ SyslinuxFound THEN GoOn("syslinux")
                        ELSE Done("E-40-B")
    [] what = "syslinux" -> Done(IF grubOk THEN "ok" ELSE "E-40-B")

\* A Windows image that is not recognised, or cannot be opened again, goes on
\* without a set-up; a Linux image with neither loader ends here.
Begin(what, refused, copies) ==
  /\ part = what
  /\ IF refused THEN Fails(what)
     ELSE part' = Copying[what] /\ plan' = copies /\ UNCHANGED ret
  /\ UNCHANGED <<image, gone, fs, option, data, esp, grubOk>>

\* A mutant: a Windows image that is not recognised gets no loader either.
BeginWindowsNoLoader ==
  IF WindowsBootFound /\ ~gone
  THEN Begin("windows", WindowsRefused, WindowsPlan)
  ELSE /\ part = "windows" /\ Done("ok")
       /\ UNCHANGED <<image, gone, fs, option, data, esp, grubOk>>

BeginWindows ==
  IF WindowsBootFound /\ ~gone
  THEN Begin("windows", WindowsRefused, WindowsPlan)
  ELSE /\ part = "windows" /\ GoOn("loader")
       /\ UNCHANGED <<image, gone, fs, option, data, esp, grubOk>>
BeginGrub == Begin("grub", ~GrubFound \/ GrubRefused, GrubPlan)
BeginSyslinux == Begin("syslinux", SyslinuxRefused, SyslinuxPlan)

\* A mutant: no copy of a set-up is asked whether it failed.
CopyFileUnasked(what) ==
  /\ part = Copying[what] /\ plan # <<>>
  /\ LET c == Head(plan)
     IN  data' \in {data, [data EXCEPT ![c.dst] = "torn"],
                   [data EXCEPT ![c.dst] = data[c.src]]}
  /\ plan' = Tail(plan) /\ UNCHANGED <<part, ret>>
  /\ UNCHANGED <<image, gone, fs, option, esp, grubOk>>

\* copy_file of both files: the target is truncated before the source is
\* read, so a file copied onto itself ends empty, with success; a failed
\* copy leaves the target as it was or in part, as unlinkat refuses its flag.
CopyFile(what) ==
  /\ part = Copying[what] /\ plan # <<>>
  /\ LET c == Head(plan)
         Missed == IF c.must THEN Fails(what)
                   ELSE plan' = Tail(plan) /\ UNCHANGED <<part, ret>>
     IN  \/ /\ data' = [data EXCEPT ![c.dst] =
                          IF c.src = c.dst THEN "empty" ELSE data[c.src]]
            /\ plan' = Tail(plan) /\ UNCHANGED <<part, ret>>
         \/ /\ c.src # c.dst /\ Missed
            /\ data' = [data EXCEPT ![c.dst] = "torn"]
         \/ Missed /\ UNCHANGED data
  /\ UNCHANGED <<image, gone, fs, option, esp, grubOk>>

\* All is copied.
Finish(what) ==
  /\ part = Copying[what] /\ plan = <<>>
  /\ CASE what = "windows" -> GoOn("loader")
       [] what = "grub" -> IF SyslinuxFound THEN GoOn("syslinux") ELSE Done("ok")
       [] what = "syslinux" -> Done("ok")
  /\ grubOk' = (grubOk \/ what = "grub")
  /\ UNCHANGED <<image, gone, fs, option, data, esp>>

\* A mutant: what was copied of the loader stays there.
InstallLoaderLeavesPart ==
  /\ part = "loader"
  /\ \/ esp' = "shipped" /\ Done("ok")
     \/ esp' \in {"none", "torn"} /\ Done("E-41-A")
  /\ UNCHANGED <<image, gone, fs, option, data, grubOk>>

\* bootloader_setup_uefi_ntfs: this copy has its own source and removes a
\* part by unlink.
InstallLoader ==
  /\ part = "loader"
  /\ \/ esp' = "shipped" /\ Done("ok")
     \/ UNCHANGED esp /\ Done("E-41-A")
  /\ UNCHANGED <<image, gone, fs, option, data, grubOk>>

\* The image file is removed, or its disk pulled out, after the extraction.
ImageGone ==
  /\ part # "done" /\ ~gone /\ gone' = TRUE
  /\ UNCHANGED <<image, fs, option, data, esp, part, plan, grubOk, ret>>

Finished == part = "done" /\ UNCHANGED vars

Next ==
  \/ InjectAutounattend \/ InjectToGo \/ InstallLoader
  \/ BeginWindows \/ BeginGrub \/ BeginSyslinux
  \/ \E what \in SetUp : CopyFile(what) \/ Finish(what)
  \/ ImageGone \/ Finished

Spec == Init /\ [][Next]_vars

-----------------------------------------------------------------------------
(* Properties.                                                             *)

\* What success means of the file that a Windows stick's firmware starts, with
\* the signed loader on the ESP and unless the image was not recognised or has
\* gone: spelled otherwise in the image, it is there whole under both names;
\* spelled as the set-up spells it, it is there and EMPTY, copied onto itself.
\* So "Copies BOOTX64.EFI" and "ISO_OK - Success, boot environment configured"
\* (windows_boot.h:36, 64) hold of the first kind of image only
\* (session.c:661-690, windows_boot.c:113-128, 185-206, 300-307).
StartFile == IF BootMode = "uefi" THEN "bootx64" ELSE "bootmgr"

WindowsStartFile ==
  ret = "ok" /\ DetectOS(image) = "windows" =>
    /\ esp = "shipped"
    /\ WindowsBootFound /\ ~gone =>
         \/ /\ image[StartFile] = "other"
            /\ data[Own(StartFile)] = StartFile /\ data[Canon(StartFile)] = StartFile
         \/ image[StartFile] = "canon" /\ data[Canon(StartFile)] = "empty"

\* Once GRUB is set up the set-up is a success, whatever becomes of Syslinux
\* as the second loader (linux_boot.c:764-782).
GrubDecides == grubOk /\ part = "done" => ret = "ok"

\* No set-up takes a file's data from an image that spells its boot files
\* otherwise than the set-up, as Microsoft's do (windows_boot.c:199-206).
SpelledOtherwiseIsKept ==
  \A r \in Roles : image[r] = "other" => data[<<r, "other">>] = r
-----------------------------------------------------------------------------
(* The set-up as what a session sees of it: the steps of execute from the  *)
(* customization to the syncs or the error label.                          *)

SetUpEnds == part = "done" /\ ret \in {"ok", "E-41-A"}
Failed == part = "done" /\ ret # "ok"

Stage ==
  CASE part \in {"unattend", "togo"} -> "customize"
    [] part = "loader" -> "loader"
    [] part = "done" -> IF ret = "ok" THEN "syncfat" ELSE "cleanup"
    [] OTHER -> "boot"

Os == [im \in Images |->
         IF DetectOS(im) \in {"windows", "linux"} THEN DetectOS(im) ELSE "other"]

Stick == {"stick"}

Content == IF part = "loader" \/ SetUpEnds THEN "setup" ELSE "extracted"

\* The loader is what is written to the first partition.
Dirty == Stick \X (IF SetUpEnds /\ DetectOS(image) = "windows"
                   THEN {"p1", "p2"} ELSE {"p2"})

S == INSTANCE Session WITH
       Disks <- Stick, NoDisk <- "nodisk", Names <- {"sdx"}, Layouts <- {{}},
       HotPlug <- FALSE, MaxEvents <- 1, ISOs <- Images, NoIso <- "noiso",
       OsOf <- Os, SizeOf <- [im \in Images |-> 0],
       CapacityOf <- [d \in Stick |-> 0], NodeTries <- 0, MaxRuns <- 1,
       MaxCrashes <- 0,
       at <- [n \in {"sdx"} |-> "stick"],
       claims <- [d \in Stick |-> [place : {"p1", "p2"}, kind : {"ours"}]],
       isRoot <- TRUE, events <- IF gone THEN 1 ELSE 0,
       state <- IF Failed THEN "ERROR" ELSE "EXECUTING", cancelled <- FALSE,
       error <- IF Failed THEN ret ELSE "none",
       iso <- image, devices <- [n \in {"sdx"} |-> "stick"],
       selected <- "sdx", stage <- Stage, tries <- 0,
       fatMp <- "stick", ntfsMp <- "stick", dirs <- "empty",
       content <- [d \in Stick |-> Content],
       dirty <- Dirty,
       nodes <- TRUE, isoThere <- IF gone THEN Images \ {image} ELSE Images,
       runs <- 1, crashes <- 0

\* Whichever loader an image has, whichever copy fails and whichever set-up
\* stands in for another, step 5 is what session.c makes of it: Windows only
\* is customized and gets the loader, an error has the code of its step, and
\* execute goes on to the syncs only after a set-up that succeeded or was
\* skipped (session.c:615-722).
SetsUpForSession ==
  [][S!Customize \/ S!BootSetup \/ S!InstallLoader \/ S!RemoveIso(image)]_(S!vars)
=============================================================================
