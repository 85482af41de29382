--------------------------- MODULE BootFilesProofs ---------------------------
(***************************************************************************)
(* Theorems about the boot set-up, for any set of images.                  *)
(***************************************************************************)
EXTENDS BootFiles, SequenceTheorems, TLAPS

\* Copies to a path the set-up spells itself.
CanonSteps == {s \in Steps : s.dst[2] = "canon"}

\* The copy of the file a Windows stick's firmware starts, and the others.
BootCopy == Copy(Own(StartFile), Canon(StartFile))
OtherSteps == {s \in CanonSteps : s.dst # Canon(StartFile)}

Booting ==
  \/ image[StartFile] = "other" /\ data[Canon(StartFile)] = StartFile
  \/ image[StartFile] = "canon" /\ data[Canon(StartFile)] = "empty"

PlanInv == plan \in Seq(CanonSteps)

\* GRUB decides: it is set up, and what follows ends in success.
GrubInv ==
  grubOk => /\ part \in {"syslinux", "copy_syslinux", "done"}
            /\ part = "done" => ret = "ok"

\* The way of a Windows image.
WayInv ==
  /\ DetectOS(image) = "windows" => part \in {"unattend", "togo", "windows",
                                       "copy_windows", "loader", "done"}
  /\ ret # "none" => part = "done"
  /\ DetectOS(image) = "windows" /\ ret = "ok" => esp = "shipped"

\* How far the file is that the firmware starts.
BootInv ==
  DetectOS(image) = "windows" /\ WindowsBootFound /\ ~gone =>
    /\ part \in {"unattend", "togo", "windows"} /\ Has(StartFile) =>
         data[Own(StartFile)] = StartFile
    /\ part = "copy_windows" =>
         \/ /\ plan # <<>> /\ Head(plan) = BootCopy /\ Has(StartFile)
            /\ Tail(plan) \in Seq(OtherSteps)
            /\ data[Own(StartFile)] = StartFile
         \/ plan \in Seq(OtherSteps) /\ Booting
    /\ part = "loader" \/ ret = "ok" => Booting

SetUpInv ==
  TypeOK /\ PlanInv /\ SpelledOtherwiseIsKept /\ GrubInv /\ WayInv /\ BootInv

-----------------------------------------------------------------------------
(* Sequences of copies.                                                    *)

LEMMA OneOrNone ==
  ASSUME NEW E, NEW cond \in BOOLEAN, NEW s, cond => s \in E
  PROVE  If(cond, s) \in Seq(E)
BY DEF If

LEMMA HeadAndTail ==
  ASSUME NEW E, NEW a \in E, NEW s \in Seq(E), NEW T, s \in Seq(T)
  PROVE  /\ <<a>> \o s \in Seq(E) /\ <<a>> \o s # <<>>
         /\ Head(<<a>> \o s) = a /\ Tail(<<a>> \o s) \in Seq(T)
<1>1. <<a>> \in Seq(E) /\ Len(<<a>>) = 1 /\ <<a>>[1] = a
  OBVIOUS
<1>2. /\ <<a>> \o s \in Seq(E)
      /\ Len(<<a>> \o s) = 1 + Len(s)
      /\ \A i \in 1..1 + Len(s) : (<<a>> \o s)[i] =
                     IF i <= 1 THEN <<a>>[i] ELSE s[i - 1]
  BY <1>1, ConcatProperties
<1>3. Len(s) \in Nat
  BY LenProperties
<1> DEFINE t == <<a>> \o s
<1>4. t \in Seq(E) /\ Len(t) = 1 + Len(s) /\ t[1] = a
  BY <1>1, <1>2, <1>3
<1>5. \A i \in 1..Len(s) : t[i + 1] = s[i]
  BY <1>2, <1>3
<1> HIDE DEF t
<1>6. t # <<>>
  BY <1>3, <1>4, EmptySeq
<1>7. /\ Tail(t) \in Seq(E) /\ Len(Tail(t)) = Len(t) - 1
      /\ \A i \in 1..Len(Tail(t)) : Tail(t)[i] = t[i + 1]
  BY <1>4, <1>6, HeadTailProperties
<1>8. Len(Tail(t)) = Len(s)
  BY <1>3, <1>4, <1>7
<1>9. \A i \in 1..Len(s) : Tail(t)[i] = s[i]
  BY <1>5, <1>7, <1>8
<1>10. Tail(t) = s
  BY <1>7, <1>8, <1>9, SeqEqual
<1>11. Head(t) = t[1]
  BY <1>4, <1>6
<1> QED
  BY <1>4, <1>6, <1>10, <1>11 DEF t

-----------------------------------------------------------------------------
(* The plans.                                                              *)

LEMMA CanonCopy ==
  ASSUME NEW p \in Places, NEW r \in Roles
  PROVE  /\ Copy(p, Canon(r)) \in CanonSteps
         /\ TryCopy(p, Canon(r)) \in CanonSteps
BY DEF Copy, TryCopy, Canon, CanonSteps, Steps, Places

LEMMA PlacesOf ==
  ASSUME TypeOK, NEW r \in Roles
  PROVE  /\ Canon(r) \in Places
         /\ Has(r) => Own(r) \in Places
BY ImagesAssumption DEF TypeOK, Canon, Own, Has, Places, Spellings

LEMMA GrubPlanSteps ==
  ASSUME TypeOK
  PROVE  GrubPlan \in Seq(CanonSteps)
<1>1. /\ {"shim", "bootx64", "grubefi", "grubcfg", "modefi", "modbios"} \subseteq Roles
      /\ EfiLoader \in Roles /\ Modules \in Roles
  BY DEF Roles, EfiRoles, EfiLoader, Modules
<1>2. /\ Canon("shim") \in Places /\ Canon(EfiLoader) \in Places
      /\ Canon("grubcfg") \in Places /\ Canon(Modules) \in Places
  BY <1>1, PlacesOf
<1> DEFINE a == If(IsUefi /\ Found("shim"), Copy(Canon("shim"), Canon("bootx64")))
           b == If(IsUefi /\ Found("shim") /\ Found(EfiLoader),
                   TryCopy(Canon(EfiLoader), Canon("grubefi")))
           c == <<Copy(Canon("grubcfg"), Canon("grubcfg"))>>
           d == If(Found(Modules), Copy(Canon(Modules), Canon(Modules)))
<1>3. a \in Seq(CanonSteps)
  <2>1. (IsUefi /\ Found("shim")) \in BOOLEAN
    BY DEF IsUefi, Found
  <2>2. Copy(Canon("shim"), Canon("bootx64")) \in CanonSteps
    BY <1>1, <1>2, CanonCopy
  <2> QED
    BY <2>1, <2>2, OneOrNone
<1>4. b \in Seq(CanonSteps)
  <2>1. (IsUefi /\ Found("shim") /\ Found(EfiLoader)) \in BOOLEAN
    BY DEF IsUefi, Found
  <2>2. TryCopy(Canon(EfiLoader), Canon("grubefi")) \in CanonSteps
    BY <1>1, <1>2, CanonCopy
  <2> QED
    BY <2>1, <2>2, OneOrNone
<1>5. c \in Seq(CanonSteps)
  BY <1>1, <1>2, CanonCopy
<1>6. d \in Seq(CanonSteps)
  <2>1. Found(Modules) \in BOOLEAN
    BY DEF Found
  <2>2. Copy(Canon(Modules), Canon(Modules)) \in CanonSteps
    BY <1>1, <1>2, CanonCopy
  <2> QED
    BY <2>1, <2>2, OneOrNone
<1> HIDE DEF a, b, c, d
<1>7. a \o b \o c \o d \in Seq(CanonSteps)
  BY <1>3, <1>4, <1>5, <1>6, ConcatProperties
<1> QED
  BY <1>7 DEF GrubPlan, a, b, c, d

LEMMA SyslinuxPlanSteps ==
  ASSUME TypeOK
  PROVE  SyslinuxPlan \in Seq(CanonSteps)
<1>1. {"syscfg", "ldlinux", "vesamenu", "c32"} \subseteq Roles
  BY DEF Roles
<1>2. \A r \in {"syscfg", "ldlinux", "vesamenu", "c32"} :
        Copy(Canon(r), Canon(r)) \in CanonSteps
  BY <1>1, PlacesOf, CanonCopy
<1> DEFINE a == <<Copy(Canon("syscfg"), Canon("syscfg")),
                  Copy(Canon("ldlinux"), Canon("ldlinux")),
                  Copy(Canon("vesamenu"), Canon("vesamenu")),
                  Copy(Canon("vesamenu"), Canon("vesamenu"))>>
           b == If(Found("c32"), Copy(Canon("c32"), Canon("c32")))
<1>3. a \in Seq(CanonSteps)
  BY <1>2
<1>4. b \in Seq(CanonSteps)
  <2>1. Found("c32") \in BOOLEAN
    BY DEF Found
  <2> QED
    BY <1>2, <2>1, OneOrNone
<1> HIDE DEF a, b
<1>5. a \o b \in Seq(CanonSteps)
  BY <1>3, <1>4, ConcatProperties
<1> QED
  BY <1>5 DEF SyslinuxPlan, a, b

\* The firmware's file is copied first, and nothing else over it.
LEMMA WindowsPlanSteps ==
  ASSUME TypeOK, ~WindowsRefused
  PROVE  /\ Has(StartFile) /\ StartFile \in Roles
         /\ WindowsPlan \in Seq(CanonSteps) /\ WindowsPlan # <<>>
         /\ Head(WindowsPlan) = BootCopy
         /\ Tail(WindowsPlan) \in Seq(OtherSteps)
<1>0. {"bootx64", "bootia32", "bootaa64", "bootmgr", "bcd"} \subseteq Roles
  BY DEF Roles, EfiRoles
<1>1. CASE BootMode = "uefi"
  <2>1. Has("bootx64") /\ StartFile = "bootx64"
    BY <1>1 DEF WindowsRefused, StartFile
  <2>2. BootCopy \in CanonSteps
    BY <1>0, <2>1, PlacesOf, CanonCopy DEF BootCopy
  <2> DEFINE b == If(Has("bootia32"), TryCopy(Own("bootia32"), Canon("bootia32")))
             c == If(Has("bootaa64"), TryCopy(Own("bootaa64"), Canon("bootaa64")))
  <2>3. \A r \in {"bootia32", "bootaa64"} :
          Has(r) => TryCopy(Own(r), Canon(r)) \in OtherSteps
    <3> SUFFICES ASSUME NEW r \in {"bootia32", "bootaa64"}, Has(r)
                 PROVE  TryCopy(Own(r), Canon(r)) \in OtherSteps
      OBVIOUS
    <3>1. TryCopy(Own(r), Canon(r)) \in CanonSteps
      BY <1>0, PlacesOf, CanonCopy
    <3>2. Canon(r) # Canon("bootx64")
      BY DEF Canon
    <3> QED
      BY <2>1, <3>1, <3>2 DEF OtherSteps, TryCopy
  <2>4. b \in Seq(OtherSteps) /\ c \in Seq(OtherSteps)
    <3>1. Has("bootia32") \in BOOLEAN /\ Has("bootaa64") \in BOOLEAN
      BY DEF Has
    <3> QED
      BY <2>3, <3>1, OneOrNone
  <2>5. WindowsPlan = (<<BootCopy>> \o b) \o c
    BY <1>1, <2>1 DEF WindowsPlan, BootCopy
  <2> HIDE DEF b, c
  <2>6. OtherSteps \subseteq CanonSteps
    BY DEF OtherSteps
  <2>7. b \in Seq(CanonSteps) /\ c \in Seq(CanonSteps)
    BY <2>4, <2>6, SeqMonotonic
  <2>8. <<BootCopy>> \in Seq(CanonSteps)
    BY <2>2
  <2>9. WindowsPlan = <<BootCopy>> \o (b \o c)
    BY <2>5, <2>7, <2>8, ConcatAssociative
  <2>10. b \o c \in Seq(OtherSteps) /\ b \o c \in Seq(CanonSteps)
    BY <2>4, <2>7, ConcatProperties
  <2> QED
    BY <1>0, <2>1, <2>2, <2>9, <2>10, HeadAndTail
<1>2. CASE BootMode # "uefi"
  <2>1. BootMode = "bios" /\ Has("bootmgr") /\ Has("bcd") /\ StartFile = "bootmgr"
    BY <1>2 DEF WindowsRefused, StartFile, BootMode
  <2>2. BootCopy \in CanonSteps
    BY <1>0, <2>1, PlacesOf, CanonCopy DEF BootCopy
  <2> DEFINE b == Copy(Own("bcd"), Canon("bcd"))
  <2>3. b \in CanonSteps
    BY <1>0, <2>1, PlacesOf, CanonCopy
  <2>4. b \in OtherSteps
    BY <2>1, <2>3 DEF OtherSteps, Copy, Canon
  <2>5. WindowsPlan = <<BootCopy, b>>
    BY <1>2, <2>1 DEF WindowsPlan, BootCopy
  <2> HIDE DEF b
  <2>6. WindowsPlan \in Seq(CanonSteps) /\ WindowsPlan # <<>>
        /\ Head(WindowsPlan) = BootCopy /\ Tail(WindowsPlan) = <<b>>
    BY <2>2, <2>3, <2>5
  <2>7. <<b>> \in Seq(OtherSteps)
    BY <2>4
  <2> QED
    BY <1>0, <2>1, <2>6, <2>7
<1> QED
  BY <1>1, <1>2

-----------------------------------------------------------------------------
(* The steps.                                                              *)

\* What no step changes, and that an image once gone stays gone.
LEMMA Frame ==
  ASSUME Next
  PROVE  /\ UNCHANGED <<image, fs, option>>
         /\ gone' = gone \/ gone' = TRUE
BY DEF Next, InjectAutounattend, InjectToGo, InstallLoader, BeginWindows,
   BeginGrub, BeginSyslinux, Begin, CopyFile, Finish, ImageGone, Finished, vars

\* The detection is of the image alone.
LEMMA DetectionStays ==
  ASSUME UNCHANGED image
  PROVE  /\ DetectOS(image)' = DetectOS(image) /\ WindowsBootFound' = WindowsBootFound
         /\ StartFile' = StartFile /\ BootCopy' = BootCopy /\ OtherSteps' = OtherSteps
         /\ Has(StartFile)' = Has(StartFile)
         /\ \A r : Own(r)' = Own(r)
BY DEF DetectOS, WindowsBootFound, StartFile, BootCopy, OtherSteps, CanonSteps,
   BootMode, HasAny, SomeOf, Has, Own, Copy

\* Where a set-up can go when it fails.
LEMMA FailsTo ==
  ASSUME NEW what \in SetUp, Fails(what)
  PROVE  /\ plan' = <<>>
         /\ \/ part' = "done" /\ ret' = "ok" /\ what = "syslinux" /\ grubOk
            \/ part' = "done" /\ ret' = "E-40-A" /\ what = "windows"
            \/ part' = "done" /\ ret' = "E-40-B" /\ ~(what = "syslinux" /\ grubOk)
            \/ part' = "syslinux" /\ ret' = ret /\ what = "grub"
BY DEF SetUp, Fails, Done, GoOn

\* An answer file does not take the place of another file.
LEMMA InjectInv ==
  ASSUME SetUpInv, InjectAutounattend \/ InjectToGo
  PROVE  SetUpInv'
<1>1. /\ UNCHANGED <<image, gone, fs, option, esp, grubOk>>
      /\ part \in {"unattend", "togo"} /\ plan' = <<>>
      /\ \/ part' \in {"togo", "windows"} /\ ret' = ret
         \/ part' = "done" /\ ret' \in {"E-40-C", "E-40-D"}
      /\ \/ data' = data
         \/ \E r \in {"autounattend", "panther"}, c \in {"generated", "torn"} :
              data' = [data EXCEPT ![Canon(r)] = c]
  BY DEF InjectAutounattend, InjectToGo, Inject, GoOn, Done
<1>2. PICK r \in {"autounattend", "panther"} :
        /\ \A p \in Places \ {Canon(r)} : data'[p] = data[p]
        /\ data' \in [Places -> Contents]
  BY <1>1 DEF SetUpInv, TypeOK, Contents
<1>3. TypeOK' /\ PlanInv'
  BY <1>1, <1>2, EmptySeq DEF SetUpInv, TypeOK, PlanInv
<1>4. SpelledOtherwiseIsKept'
  BY <1>1, <1>2 DEF SetUpInv, SpelledOtherwiseIsKept, Canon, Places
<1>5. GrubInv' /\ WayInv'
  BY <1>1, DetectionStays DEF SetUpInv, GrubInv, WayInv
<1>6. BootInv'
  <2> SUFFICES ASSUME DetectOS(image) = "windows", WindowsBootFound, ~gone, Has(StartFile)
               PROVE  data'[Own(StartFile)] = StartFile
    BY <1>1, DetectionStays DEF BootInv, SetUpInv, WayInv
  <2>1. data[Own(StartFile)] = StartFile
    BY <1>1 DEF SetUpInv, BootInv
  <2>2. StartFile \in {"bootx64", "bootmgr"} /\ StartFile \in Roles
    BY DEF StartFile, Roles, EfiRoles
  <2>3. Own(StartFile) \in Places /\ Own(StartFile) # Canon(r)
    BY <2>2, PlacesOf DEF SetUpInv, Own, Canon
  <2> QED
    BY <1>2, <2>1, <2>3
<1> QED
  BY <1>3, <1>4, <1>5, <1>6 DEF SetUpInv

\* A set-up that starts either has its plan or fails at once.
LEMMA BeginInv ==
  ASSUME SetUpInv, BeginWindows \/ BeginGrub \/ BeginSyslinux
  PROVE  SetUpInv'
<1>0. UNCHANGED <<image, gone, fs, option, data, esp, grubOk>>
  BY DEF BeginWindows, BeginGrub, BeginSyslinux, Begin
<1>1. CASE BeginWindows /\ WindowsBootFound /\ ~gone /\ ~WindowsRefused
  <2>1. part = "windows" /\ part' = "copy_windows" /\ plan' = WindowsPlan
        /\ UNCHANGED ret
    BY <1>1 DEF BeginWindows, Begin, Copying
  <2>2. /\ Has(StartFile) /\ WindowsPlan \in Seq(CanonSteps) /\ WindowsPlan # <<>>
        /\ Head(WindowsPlan) = BootCopy /\ Tail(WindowsPlan) \in Seq(OtherSteps)
    BY <1>1, WindowsPlanSteps DEF SetUpInv
  <2>3. CanonSteps \subseteq Steps
    BY DEF CanonSteps
  <2>4. plan' \in Seq(CanonSteps) /\ plan' \in Seq(Steps)
    BY <2>1, <2>2, <2>3, SeqMonotonic
  <2>5. TypeOK' /\ PlanInv'
    BY <1>0, <2>1, <2>4 DEF SetUpInv, TypeOK, PlanInv, CanonSteps
  <2>6. SpelledOtherwiseIsKept' /\ GrubInv' /\ WayInv'
    BY <1>0, <2>1, DetectionStays DEF SetUpInv, SpelledOtherwiseIsKept, GrubInv,
       WayInv
  <2>7. BootInv'
    BY <1>0, <2>1, <2>2, DetectionStays DEF SetUpInv, BootInv, WayInv
  <2> QED
    BY <2>5, <2>6, <2>7 DEF SetUpInv
<1>2. CASE BeginWindows /\ ~(WindowsBootFound /\ ~gone /\ ~WindowsRefused)
  <2>1. /\ part = "windows" /\ plan' = <<>>
        /\ \/ part' = "done" /\ ret' \in {"E-40-A", "E-40-B"}
           \/ part' = "loader" /\ ret' = ret /\ (~WindowsBootFound \/ gone)
    <3>1. "windows" \in SetUp
      BY DEF SetUp
    <3> QED
      BY <1>2, <3>1, FailsTo DEF BeginWindows, Begin, GoOn
  <2>2. TypeOK' /\ PlanInv'
    BY <1>0, <2>1, EmptySeq DEF SetUpInv, TypeOK, PlanInv
  <2>3. SpelledOtherwiseIsKept' /\ GrubInv' /\ WayInv'
    BY <1>0, <2>1, DetectionStays DEF SetUpInv, SpelledOtherwiseIsKept, GrubInv,
       WayInv
  <2>4. BootInv'
    BY <1>0, <2>1, DetectionStays DEF SetUpInv, BootInv, WayInv
  <2> QED
    BY <2>2, <2>3, <2>4 DEF SetUpInv
<1>3. CASE BeginGrub \/ BeginSyslinux
  <2>0. "grub" \in SetUp /\ "syslinux" \in SetUp
    BY DEF SetUp
  <2>1. /\ part \in {"grub", "syslinux"}
        /\ plan' = <<>> \/ plan' = GrubPlan \/ plan' = SyslinuxPlan
        /\ \/ part = "grub" /\ part' \in {"copy_grub", "syslinux"} /\ ret' = ret
           \/ part = "syslinux" /\ part' = "copy_syslinux" /\ ret' = ret
           \/ part' = "done" /\ ret' \in {"E-40-A", "E-40-B"}
              /\ ~(part = "syslinux" /\ grubOk)
           \/ part' = "done" /\ ret' = "ok" /\ grubOk
    BY <1>3, <2>0, FailsTo DEF BeginGrub, BeginSyslinux, Begin, Copying
  <2>2. DetectOS(image) # "windows"
    BY <2>1 DEF SetUpInv, WayInv
  <2>3. CanonSteps \subseteq Steps
    BY DEF CanonSteps
  <2>4. plan' \in Seq(CanonSteps)
    BY <2>1, GrubPlanSteps, SyslinuxPlanSteps, EmptySeq DEF SetUpInv
  <2>5. plan' \in Seq(Steps)
    BY <2>3, <2>4, SeqMonotonic
  <2>6. TypeOK' /\ PlanInv'
    BY <1>0, <2>1, <2>4, <2>5 DEF SetUpInv, TypeOK, PlanInv, CanonSteps
  <2>7. SpelledOtherwiseIsKept' /\ GrubInv'
    BY <1>0, <2>1 DEF SetUpInv, SpelledOtherwiseIsKept, GrubInv
  <2>8. WayInv' /\ BootInv'
    BY <1>0, <2>1, <2>2, DetectionStays DEF SetUpInv, WayInv, BootInv
  <2> QED
    BY <2>6, <2>7, <2>8 DEF SetUpInv
<1> QED
  BY <1>1, <1>2, <1>3

\* A copy changes one file, which the set-up spells itself, and leaves the
\* others; what has to be copied and is not ends the set-up.
LEMMA CopyInv ==
  ASSUME SetUpInv, NEW what \in SetUp, CopyFile(what)
  PROVE  SetUpInv'
<1> DEFINE c == Head(plan)
<1>0. /\ UNCHANGED <<image, gone, fs, option, esp, grubOk>>
      /\ part = Copying[what] /\ plan # <<>>
  BY DEF CopyFile
<1>1. /\ c \in CanonSteps /\ Tail(plan) \in Seq(CanonSteps)
      /\ c.src \in Places /\ c.dst \in Places /\ c.dst[2] = "canon"
      /\ c.must \in BOOLEAN
  <2>1. c \in CanonSteps /\ Tail(plan) \in Seq(CanonSteps)
    BY <1>0, HeadTailProperties DEF SetUpInv, PlanInv
  <2> QED
    BY <2>1 DEF CanonSteps, Steps
<1>2. /\ \/ /\ data' = [data EXCEPT ![c.dst] =
                          IF c.src = c.dst THEN "empty" ELSE data[c.src]]
            /\ plan' = Tail(plan) /\ UNCHANGED <<part, ret>>
         \/ /\ \/ data' = [data EXCEPT ![c.dst] = "torn"]
               \/ UNCHANGED data
            /\ \/ c.must /\ Fails(what)
               \/ ~c.must /\ plan' = Tail(plan) /\ UNCHANGED <<part, ret>>
  BY DEF CopyFile
<1> HIDE DEF c
<1>3. /\ data' \in [Places -> Contents]
      /\ \A p \in Places \ {c.dst} : data'[p] = data[p]
  BY <1>1, <1>2 DEF SetUpInv, TypeOK, Contents
<1>4. \/ plan' = Tail(plan) /\ UNCHANGED <<part, ret>>
      \/ /\ plan' = <<>>
         /\ \/ part' = "done" /\ ret' = "ok" /\ what = "syslinux" /\ grubOk
            \/ part' = "done" /\ ret' = "E-40-A" /\ what = "windows"
            \/ part' = "done" /\ ret' = "E-40-B" /\ ~(what = "syslinux" /\ grubOk)
            \/ part' = "syslinux" /\ ret' = ret /\ what = "grub"
  BY <1>2, FailsTo
<1>5. part \in {"copy_windows", "copy_grub", "copy_syslinux"}
      /\ (part = "copy_windows" <=> what = "windows")
      /\ (part = "copy_syslinux" <=> what = "syslinux")
      /\ (part = "copy_grub" <=> what = "grub")
  <2>1. /\ Copying["windows"] = "copy_windows" /\ Copying["grub"] = "copy_grub"
        /\ Copying["syslinux"] = "copy_syslinux"
    BY DEF Copying
  <2> QED
    BY <1>0, <2>1 DEF SetUp
<1>6. PlanInv' /\ plan' \in Seq(Steps)
  <2>1. plan' \in Seq(CanonSteps)
    BY <1>1, <1>4, EmptySeq
  <2>2. CanonSteps \subseteq Steps
    BY DEF CanonSteps
  <2> QED
    BY <2>1, <2>2, SeqMonotonic DEF PlanInv, CanonSteps
<1>7. TypeOK'
  BY <1>0, <1>3, <1>4, <1>6 DEF SetUpInv, TypeOK
<1>8. SpelledOtherwiseIsKept'
  BY <1>0, <1>1, <1>3 DEF SetUpInv, SpelledOtherwiseIsKept, Places
<1>9. GrubInv' /\ WayInv'
  BY <1>0, <1>4, <1>5, DetectionStays DEF SetUpInv, GrubInv, WayInv
<1>10. BootInv'
  <2> SUFFICES ASSUME DetectOS(image) = "windows", WindowsBootFound, ~gone,
                      part' # "done" \/ ret' = "ok"
               PROVE  /\ part' = "copy_windows"
                      /\ \/ /\ plan' # <<>> /\ Head(plan') = BootCopy
                            /\ Has(StartFile)
                            /\ Tail(plan') \in Seq(OtherSteps)
                            /\ data'[Own(StartFile)] = StartFile
                         \/ plan' \in Seq(OtherSteps) /\ Booting'
                      /\ ret' # "ok"
    BY <1>0, <1>4, <1>5, DetectionStays DEF BootInv, SetUpInv, WayInv
  <2>1. part = "copy_windows" /\ what = "windows" /\ ret # "ok"
    BY <1>5 DEF SetUpInv, WayInv
  <2>2. plan' = Tail(plan) /\ UNCHANGED <<part, ret>>
    BY <1>4, <2>1
  <2>3. StartFile \in Roles /\ Canon(StartFile) \in Places
    <3>1. StartFile \in Roles
      BY DEF StartFile, Roles, EfiRoles
    <3> QED
      BY <3>1, PlacesOf DEF SetUpInv
  <2>4. CASE /\ c = BootCopy /\ Tail(plan) \in Seq(OtherSteps)
             /\ Has(StartFile) /\ data[Own(StartFile)] = StartFile
    <3>1. c.must /\ c.src = Own(StartFile) /\ c.dst = Canon(StartFile)
      BY <2>4 DEF BootCopy, Copy
    <3>2. ~Fails(what)
      BY <2>1, <2>2, FailsTo, <1>5 DEF SetUpInv, WayInv
    <3>3. data' = [data EXCEPT ![c.dst] =
                     IF c.src = c.dst THEN "empty" ELSE data[c.src]]
      BY <1>2, <3>1, <3>2
    <3>4. image[StartFile] \in {"canon", "other"}
      BY <2>3, <2>4, ImagesAssumption DEF SetUpInv, TypeOK, Has, Spellings
    <3>5. data'[Canon(StartFile)] = IF image[StartFile] = "canon" THEN "empty"
                                    ELSE StartFile
      BY <2>3, <2>4, <3>1, <3>3, <3>4 DEF SetUpInv, TypeOK, Own, Canon
    <3>6. Booting'
      BY <1>0, <3>4, <3>5, DetectionStays DEF Booting, Canon
    <3> QED
      BY <2>1, <2>2, <2>4, <3>6
  <2>5. CASE plan \in Seq(OtherSteps) /\ Booting
    <3>1. c \in OtherSteps /\ Tail(plan) \in Seq(OtherSteps)
      BY <1>0, <2>5, HeadTailProperties DEF c
    <3>2. c.dst # Canon(StartFile)
      BY <3>1 DEF OtherSteps
    <3>3. data'[Canon(StartFile)] = data[Canon(StartFile)]
      BY <1>3, <2>3, <3>2
    <3> QED
      BY <1>0, <2>1, <2>2, <2>5, <3>1, <3>3, DetectionStays DEF Booting, Canon
  <2> QED
    BY <2>1, <2>4, <2>5 DEF SetUpInv, BootInv, c
<1> QED
  BY <1>6, <1>7, <1>8, <1>9, <1>10 DEF SetUpInv

LEMMA FinishInv ==
  ASSUME SetUpInv, NEW what \in SetUp, Finish(what)
  PROVE  SetUpInv'
<1>1. /\ UNCHANGED <<image, gone, fs, option, data, esp>>
      /\ plan = <<>> /\ plan' = <<>>
      /\ \/ /\ part = "copy_windows" /\ part' = "loader" /\ ret' = ret
            /\ grubOk' = grubOk
         \/ /\ part = "copy_grub" /\ grubOk' = TRUE
            /\ \/ part' = "syslinux" /\ ret' = ret
               \/ part' = "done" /\ ret' = "ok"
         \/ /\ part = "copy_syslinux" /\ part' = "done" /\ ret' = "ok"
            /\ grubOk' = grubOk
  <2>1. CASE what = "windows"
    BY <2>1 DEF Finish, Copying, GoOn, SetUpInv, TypeOK
  <2>2. CASE what = "grub"
    BY <2>2 DEF Finish, Copying, GoOn, Done
  <2>3. CASE what = "syslinux"
    BY <2>3 DEF Finish, Copying, Done, SetUpInv, TypeOK
  <2> QED
    BY <2>1, <2>2, <2>3 DEF SetUp
<1>2. TypeOK' /\ PlanInv'
  <2>1. plan' \in Seq(Steps) /\ plan' \in Seq(CanonSteps)
    BY <1>1, EmptySeq
  <2>2. grubOk' \in BOOLEAN
    BY <1>1 DEF SetUpInv, TypeOK
  <2>3. ret' \in {"none", "ok", "E-40-A", "E-40-B", "E-40-C", "E-40-D", "E-41-A"}
        /\ part' \in {"loader", "syslinux", "done"}
    BY <1>1 DEF SetUpInv, TypeOK
  <2>4. TypeOK'
    BY <1>1, <2>1, <2>2, <2>3 DEF SetUpInv, TypeOK
  <2> QED
    BY <2>1, <2>4 DEF PlanInv, CanonSteps
<1>3. SpelledOtherwiseIsKept' /\ GrubInv' /\ WayInv'
  <2>1. SpelledOtherwiseIsKept'
    BY <1>1 DEF SetUpInv, SpelledOtherwiseIsKept
  <2>2. WayInv'
    BY <1>1, DetectionStays DEF SetUpInv, WayInv
  <2>3. GrubInv'
    <3>1. CASE part = "copy_windows"
      BY <1>1, <3>1 DEF SetUpInv, GrubInv
    <3>2. CASE part # "copy_windows"
      BY <1>1, <3>2 DEF GrubInv
    <3> QED
      BY <3>1, <3>2
  <2> QED
    BY <2>1, <2>2, <2>3
<1>4. BootInv'
  BY <1>1, DetectionStays DEF SetUpInv, BootInv, Booting, WayInv, Canon
<1> QED
  BY <1>2, <1>3, <1>4 DEF SetUpInv

LEMMA LoaderInv ==
  ASSUME SetUpInv, InstallLoader
  PROVE  SetUpInv'
<1>1. /\ UNCHANGED <<image, gone, fs, option, data, grubOk>>
      /\ part = "loader" /\ part' = "done" /\ plan' = <<>>
      /\ \/ esp' = "shipped" /\ ret' = "ok"
         \/ esp' = esp /\ ret' = "E-41-A"
  BY DEF InstallLoader, Done
<1>2. TypeOK' /\ PlanInv'
  BY <1>1, EmptySeq DEF SetUpInv, TypeOK, PlanInv
<1>3. SpelledOtherwiseIsKept' /\ GrubInv' /\ WayInv'
  BY <1>1, DetectionStays DEF SetUpInv, SpelledOtherwiseIsKept, GrubInv, WayInv
<1>4. BootInv'
  BY <1>1, DetectionStays DEF SetUpInv, BootInv, Booting, Canon
<1> QED
  BY <1>2, <1>3, <1>4 DEF SetUpInv

LEMMA ImageGoneInv ==
  ASSUME SetUpInv, ImageGone
  PROVE  SetUpInv'
<1>1. gone' = TRUE /\ UNCHANGED <<image, fs, option, data, esp, part, plan,
                                   grubOk, ret>>
  BY DEF ImageGone
<1>2. TypeOK' /\ PlanInv' /\ SpelledOtherwiseIsKept' /\ GrubInv'
  BY <1>1 DEF SetUpInv, TypeOK, PlanInv, SpelledOtherwiseIsKept, GrubInv, CanonSteps
<1>3. WayInv' /\ BootInv'
  BY <1>1, DetectionStays DEF SetUpInv, WayInv, BootInv
<1> QED
  BY <1>2, <1>3 DEF SetUpInv

LEMMA StutterInv ==
  ASSUME SetUpInv, UNCHANGED vars
  PROVE  SetUpInv'
<1>1. UNCHANGED <<image, gone, fs, option, data, esp, part, plan, grubOk, ret>>
  BY DEF vars
<1>2. TypeOK' /\ PlanInv' /\ SpelledOtherwiseIsKept' /\ GrubInv'
  BY <1>1 DEF SetUpInv, TypeOK, PlanInv, SpelledOtherwiseIsKept, GrubInv, CanonSteps
<1>3. WayInv'
  BY <1>1, DetectionStays DEF SetUpInv, WayInv
<1>4. BootInv'
  <2>1. Booting' = Booting
    BY <1>1, DetectionStays DEF Booting, Canon
  <2> QED
    BY <1>1, <2>1, DetectionStays DEF SetUpInv, BootInv
<1> QED
  BY <1>2, <1>3, <1>4 DEF SetUpInv

-----------------------------------------------------------------------------
(* The theorems.                                                           *)

LEMMA SetUpInit == Init => SetUpInv
<1> SUFFICES ASSUME Init PROVE SetUpInv
  OBVIOUS
<1>1. data \in [Places -> Contents]
  BY DEF Init, Places, Contents
<1>2. image \in [Roles -> Spellings]
  BY ImagesAssumption DEF Init
<1>3. TypeOK /\ PlanInv
  BY <1>1, EmptySeq DEF Init, TypeOK, PlanInv
<1>4. \A r \in Roles : image[r] # "absent" => data[Own(r)] = r
  BY <1>2 DEF Init, Own, Places, Spellings
<1>5. SpelledOtherwiseIsKept
  BY <1>4 DEF SpelledOtherwiseIsKept, Own
<1>6. GrubInv /\ WayInv
  BY DEF Init, GrubInv, WayInv
<1>7. BootInv
  <2>1. StartFile \in Roles
    BY DEF StartFile, Roles, EfiRoles
  <2> QED
    BY <1>4, <2>1 DEF Init, BootInv, Has
<1> QED
  BY <1>3, <1>5, <1>6, <1>7 DEF SetUpInv

LEMMA SetUpStep == SetUpInv /\ [Next]_vars => SetUpInv'
BY InjectInv, BeginInv, CopyInv, FinishInv, LoaderInv, ImageGoneInv, StutterInv
DEF Next, Finished

LEMMA SetUpInvariant == Spec => []SetUpInv
BY SetUpInit, SetUpStep, PTL DEF Spec

\* Every variable of the set-up has its type, for any images, and the signed
\* loader on the ESP is whole or not there.
THEOREM BootTypeCorrect == Spec => []TypeOK
<1>1. SetUpInv => TypeOK
  BY DEF SetUpInv
<1> QED
  BY <1>1, SetUpInvariant, PTL

\* For any image, a Windows stick that is a success has the signed loader, and
\* the file its firmware starts is whole if the image spells it otherwise than
\* the set-up, empty if it spells it the same (session.c:661-690,
\* windows_boot.c:113-128, 185-206).
THEOREM WindowsStartFileHolds == Spec => []WindowsStartFile
<1>1. ASSUME SetUpInv, image[StartFile] = "other"
      PROVE  data[Own(StartFile)] = StartFile
  <2>1. StartFile \in Roles
    BY DEF StartFile, Roles, EfiRoles
  <2> QED
    BY <1>1, <2>1 DEF SetUpInv, SpelledOtherwiseIsKept, Own
<1>2. SetUpInv => WindowsStartFile
  BY <1>1 DEF SetUpInv, WayInv, BootInv, Booting, WindowsStartFile
<1> QED
  BY <1>2, SetUpInvariant, PTL

\* Whatever becomes of Syslinux, a set-up whose GRUB is in place is a success
\* (linux_boot.c:764-782).
THEOREM GrubDecidesHolds == Spec => []GrubDecides
<1>1. SetUpInv => GrubDecides
  BY DEF SetUpInv, GrubInv, GrubDecides
<1> QED
  BY <1>1, SetUpInvariant, PTL

\* No copy goes to a path in other letters than the set-up's own, so what an
\* image spells otherwise keeps its data (windows_boot.c:199-206).
THEOREM SpelledOtherwiseHolds == Spec => []SpelledOtherwiseIsKept
<1>1. SetUpInv => SpelledOtherwiseIsKept
  BY DEF SetUpInv
<1> QED
  BY <1>1, SetUpInvariant, PTL
-----------------------------------------------------------------------------
(* The set-up is what the session takes it for.                            *)

WindowsParts == {"unattend", "togo", "windows", "copy_windows", "loader"}
LinuxParts == {"grub", "copy_grub", "syslinux", "copy_syslinux"}

\* Each image keeps to the way of its system, and the code of an error says
\* which that was.
SideInv ==
  /\ part \in WindowsParts => DetectOS(image) = "windows"
  /\ part \in LinuxParts => DetectOS(image) # "windows"
  /\ part = "done" <=> ret # "none"
  /\ ret = "E-41-A" => DetectOS(image) = "windows"

\* What the steps are to a session: parts of the customization or the boot
\* set-up, its end one way or the other, the loader, or nothing.
Moves ==
  \/ /\ part \in {"unattend", "togo"} /\ part' \in {"togo", "windows"}
     /\ UNCHANGED <<ret, gone>>
  \/ /\ part \in {"unattend", "togo"} /\ part' = "done"
     /\ ret' \in {"E-40-C", "E-40-D"} /\ UNCHANGED gone
  \/ /\ part = "windows" /\ part' = "copy_windows" /\ UNCHANGED <<ret, gone>>
  \/ /\ part \in LinuxParts \union {"copy_windows"}
     /\ part' = part /\ UNCHANGED <<ret, gone>>
  \/ /\ part \in LinuxParts /\ part' \in LinuxParts /\ UNCHANGED <<ret, gone>>
  \/ /\ part \in {"windows", "copy_windows"} /\ part' = "loader"
     /\ UNCHANGED <<ret, gone>>
  \/ /\ part \in {"windows", "copy_windows"} /\ part' = "done"
     /\ ret' = "E-40-A" /\ UNCHANGED gone
  \/ /\ part \in LinuxParts /\ part' = "done"
     /\ ret' \in {"ok", "E-40-B"} /\ UNCHANGED gone
  \/ /\ part = "loader" /\ part' = "done"
     /\ ret' \in {"ok", "E-41-A"} /\ UNCHANGED gone
  \/ gone = FALSE /\ gone' = TRUE /\ UNCHANGED <<part, ret>>
  \/ UNCHANGED <<part, ret, gone>>

LEMMA StepMoves ==
  ASSUME TypeOK, Next
  PROVE  Moves /\ UNCHANGED image
<1>1. CASE InjectAutounattend \/ InjectToGo
  BY <1>1 DEF InjectAutounattend, InjectToGo, Inject, GoOn, Done, Moves
<1>2. CASE BeginWindows
  <2>1. part = "windows" /\ UNCHANGED <<image, gone>>
    BY <1>2 DEF BeginWindows, Begin
  <2>2. \/ part' = "done" /\ ret' = "E-40-A"
        \/ part' \in {"copy_windows", "loader"} /\ UNCHANGED ret
    BY <1>2 DEF BeginWindows, Begin, GoOn, Copying, Fails, Done
  <2> QED
    BY <2>1, <2>2 DEF Moves
<1>3. CASE BeginGrub \/ BeginSyslinux
  <2>1. {"grub", "syslinux"} \subseteq SetUp
    BY DEF SetUp
  <2> QED
    BY <1>3, <2>1, FailsTo DEF BeginGrub, BeginSyslinux, Begin, Copying, Moves,
       LinuxParts
<1>4. ASSUME NEW what \in SetUp, CopyFile(what) PROVE Moves /\ UNCHANGED image
  <2>1. /\ part = Copying[what] /\ UNCHANGED <<image, gone>>
        /\ Fails(what) \/ UNCHANGED <<part, ret>>
    BY <1>4 DEF CopyFile
  <2>2. \/ what = "windows" /\ part = "copy_windows"
        \/ what = "grub" /\ part = "copy_grub"
        \/ what = "syslinux" /\ part = "copy_syslinux"
    BY <2>1 DEF SetUp, Copying
  <2>3. CASE Fails(what)
    <3>1. \/ part' = "done" /\ ret' \in {"ok", "E-40-B"} /\ what # "windows"
          \/ part' = "done" /\ ret' = "E-40-A" /\ what = "windows"
          \/ part' = "syslinux" /\ ret' = ret /\ what = "grub"
      BY <2>3 DEF Fails, Done, GoOn, SetUp
    <3> QED
      BY <2>1, <2>2, <3>1 DEF Moves, LinuxParts
  <2> QED
    BY <2>1, <2>2, <2>3 DEF Moves, LinuxParts
<1>5. ASSUME NEW what \in SetUp, Finish(what) PROVE Moves /\ UNCHANGED image
  <2>1. CASE what = "windows"
    BY <1>5, <2>1 DEF Finish, Copying, GoOn, Moves
  <2>2. CASE what = "grub"
    BY <1>5, <2>2 DEF Finish, Copying, GoOn, Done, Moves, LinuxParts
  <2>3. CASE what = "syslinux"
    BY <1>5, <2>3 DEF Finish, Copying, Done, Moves, LinuxParts
  <2> QED
    BY <2>1, <2>2, <2>3 DEF SetUp
<1>6. CASE InstallLoader
  BY <1>6 DEF InstallLoader, Done, Moves
<1>7. CASE ImageGone \/ Finished
  BY <1>7 DEF ImageGone, Finished, vars, Moves
<1> QED
  BY <1>1, <1>2, <1>3, <1>4, <1>5, <1>6, <1>7 DEF Next

LEMMA SideStep ==
  ASSUME SideInv, Moves, UNCHANGED image
  PROVE  SideInv'
<1>1. DetectOS(image)' = DetectOS(image)
  BY DetectionStays
<1> QED
  BY <1>1 DEF SideInv, Moves, WindowsParts, LinuxParts

LEMMA SideInvariant == Spec => []SideInv
<1>1. Init => SideInv
  BY DEF Init, SideInv, WindowsParts, LinuxParts
<1>2. TypeOK /\ SideInv /\ [Next]_vars => SideInv'
  <2> SUFFICES ASSUME TypeOK, SideInv, [Next]_vars PROVE SideInv'
    OBVIOUS
  <2>1. CASE Next
    BY <2>1, StepMoves, SideStep
  <2>2. CASE UNCHANGED vars
    BY <2>2, SideStep DEF vars, Moves
  <2> QED
    BY <2>1, <2>2
<1> QED
  BY <1>1, <1>2, BootTypeCorrect, PTL DEF Spec


\* The disk of the session's view.
LEMMA OneDisk ==
  ASSUME NEW c, NEW d
  PROVE  [[e \in Stick |-> c] EXCEPT !["stick"] = d] = [e \in Stick |-> d]
BY DEF Stick

\* What a session sees in common of all moves but the removal of the image.
LEMMA SeesStep ==
  ASSUME UNCHANGED <<image, gone>>
  PROVE  S!Step /\ Stick' = Stick
BY DEF S!Step, S!apiVars, S!boundVars, Stick, Os

LEMMA SeesCustomize ==
  ASSUME part \in {"unattend", "togo"}, UNCHANGED <<image, gone>>,
         \/ part' = "windows" /\ ret' = ret
         \/ part' = "done" /\ ret' \in {"E-40-C", "E-40-D"}
  PROVE  S!Customize
<1>1. /\ Stage = "customize" /\ ~Failed /\ ~SetUpEnds /\ ~SetUpEnds'
      /\ Content' = Content /\ Dirty = Stick \X {"p2"} /\ Dirty' = Stick \X {"p2"}
      /\ Stick' = Stick
  BY DEF Stage, Failed, SetUpEnds, Content, Dirty, Stick
<1>2. S!At("customize")
  BY <1>1, SeesStep DEF S!At
<1>3. S!Write("stick", "p2")
  BY <1>1 DEF S!Write, Stick, S!Unmounted
<1>4. S!Goto("boot") \/ S!Fail("E-40-D") \/ S!Fail("E-40-C")
  BY <1>1 DEF S!Goto, S!Fail, Stage, Failed
<1> QED
  BY <1>1, <1>2, <1>3, <1>4 DEF S!Customize

BootParts == LinuxParts \union {"windows", "copy_windows"}

\* The end of the boot set-up, after which Windows goes on to the loader.
LEMMA SeesBootSetup ==
  ASSUME image \in Images, UNCHANGED <<image, gone>>,
         DetectOS(image) = "windows" =>
           \/ part' = "loader" /\ ret' = ret
           \/ part' = "done" /\ ret' = "E-40-A",
         DetectOS(image) # "windows" =>
           part' = "done" /\ ret' \in {"ok", "E-40-B"},
         part \in BootParts
  PROVE  S!BootSetup
<1>1. /\ Stage = "boot" /\ ~Failed /\ ~SetUpEnds /\ Content = "extracted"
      /\ Dirty = Stick \X {"p2"} /\ Stick' = Stick
      /\ DetectOS(image)' = DetectOS(image)
      /\ Os[image] = "windows" <=> DetectOS(image) = "windows"
  BY DetectionStays DEF Stage, Failed, SetUpEnds, Content, Dirty, Stick, Os,
     BootParts, LinuxParts
<1>2. Dirty' = Stick \X {"p2"}
  BY <1>1 DEF Dirty, SetUpEnds
<1>3. S!At("boot")
  BY <1>1, SeesStep DEF S!At
<1>4. S!Write("stick", "p2")
  BY <1>1, <1>2 DEF S!Write, Stick, S!Unmounted
<1> DEFINE next == IF Os[image] = "windows" THEN "loader" ELSE "syncfat"
<1>5. CASE part' = "loader" \/ ret' = "ok"
  <2>1. Content' = "setup" /\ ~Failed' /\ Stage' = next
    BY <1>1, <1>5 DEF Content, SetUpEnds, Failed, Stage
  <2>2. S!Goto(next)
    BY <1>1, <2>1 DEF S!Goto
  <2>3. S!Overwrite("stick", "setup")
    BY <1>1, <2>1, OneDisk DEF S!Overwrite, Stick
  <2>4. "stick" \in Stick /\ [d \in Stick |-> Content]["stick"] = "extracted"
    BY <1>1 DEF Stick
  <2> QED
    BY <1>1, <1>3, <1>4, <2>2, <2>3, <2>4 DEF S!BootSetup
<1>6. CASE part' = "done" /\ ret' # "ok"
  <2>1. Content' = Content /\ Failed' /\ Stage' = "cleanup"
    BY <1>1, <1>6 DEF Content, SetUpEnds, Failed, Stage
  <2>2. S!Fail(IF Os[image] = "windows" THEN "E-40-A" ELSE "E-40-B")
    BY <1>1, <1>6, <2>1 DEF S!Fail
  <2> QED
    BY <1>1, <1>3, <1>4, <2>1, <2>2 DEF S!BootSetup
<1> QED
  BY <1>5, <1>6

LEMMA SeesLoader ==
  ASSUME part = "loader", part' = "done", ret' \in {"ok", "E-41-A"},
         UNCHANGED <<image, gone>>, DetectOS(image) = "windows"
  PROVE  S!InstallLoader
<1>1. /\ Stage = "loader" /\ ~Failed /\ ~SetUpEnds /\ SetUpEnds'
      /\ Content' = Content /\ Stick' = Stick
      /\ Dirty = Stick \X {"p2"} /\ Dirty' = Stick \X {"p1", "p2"}
  BY DetectionStays DEF Stage, Failed, SetUpEnds, Content, Dirty, Stick
<1>2. S!At("loader")
  BY <1>1, SeesStep DEF S!At
<1>3. S!Write("stick", "p1")
  BY <1>1 DEF S!Write, Stick, S!Unmounted
<1>4. S!Goto("syncfat") \/ S!Fail("E-41-A")
  BY <1>1 DEF S!Goto, S!Fail, Stage, Failed
<1> QED
  BY <1>1, <1>2, <1>3, <1>4 DEF S!InstallLoader

\* What a session's view is made of.
LEMMA SeesNothing ==
  ASSUME UNCHANGED <<image, ret, gone>>, part' = part \/ {part, part'} \subseteq BootParts
                     \/ {part, part'} \subseteq {"unattend", "togo"}
  PROVE  UNCHANGED S!vars
<1>1. /\ Stage' = Stage /\ Failed' = Failed /\ Content' = Content
      /\ Dirty' = Dirty /\ Stick' = Stick
  BY DetectionStays DEF Stage, Failed, SetUpEnds, Content, Dirty, Stick,
     BootParts, LinuxParts
<1> QED
  BY <1>1 DEF S!vars

LEMMA SeesRemoval ==
  ASSUME ~gone, gone' = TRUE, UNCHANGED <<image, part, ret>>, image \in Images
  PROVE  S!RemoveIso(image)
<1>1. /\ Stage' = Stage /\ Failed' = Failed /\ Content' = Content
      /\ Dirty' = Dirty /\ Stick' = Stick
  BY DetectionStays DEF Stage, Failed, SetUpEnds, Content, Dirty, Stick
<1> QED
  BY <1>1 DEF S!RemoveIso, S!Event, S!SessionIdle, S!apiVars, S!mountVars,
     S!diskVars, S!boundVars

LEMMA SeesMove ==
  ASSUME TypeOK, SideInv, Moves, UNCHANGED image
  PROVE  [S!Customize \/ S!BootSetup \/ S!InstallLoader \/ S!RemoveIso(image)]_(S!vars)
<1>1. image \in Images /\ gone \in BOOLEAN
  BY DEF TypeOK
<1>2. CASE /\ part \in {"unattend", "togo"} /\ part' \in {"togo", "windows"}
           /\ UNCHANGED <<ret, gone>>
  BY <1>2, SeesCustomize, SeesNothing
<1>3. CASE /\ part \in {"unattend", "togo"} /\ part' = "done"
           /\ ret' \in {"E-40-C", "E-40-D"} /\ UNCHANGED gone
  BY <1>3, SeesCustomize
<1>4. CASE /\ part \in BootParts /\ part' \in BootParts
           /\ UNCHANGED <<ret, gone>>
  BY <1>4, SeesNothing
<1>5. CASE \/ /\ part \in {"windows", "copy_windows"} /\ part' = "loader"
              /\ UNCHANGED <<ret, gone>>
           \/ /\ part \in {"windows", "copy_windows"} /\ part' = "done"
              /\ ret' = "E-40-A" /\ UNCHANGED gone
           \/ /\ part \in LinuxParts /\ part' = "done"
              /\ ret' \in {"ok", "E-40-B"} /\ UNCHANGED gone
  BY <1>1, <1>5, SeesBootSetup DEF SideInv, WindowsParts, BootParts
<1>6. CASE /\ part = "loader" /\ part' = "done"
           /\ ret' \in {"ok", "E-41-A"} /\ UNCHANGED gone
  BY <1>6, SeesLoader DEF SideInv, WindowsParts
<1>7. CASE ~gone /\ gone' = TRUE /\ UNCHANGED <<part, ret>>
  BY <1>1, <1>7, SeesRemoval
<1>8. CASE UNCHANGED <<part, ret, gone>>
  BY <1>8, SeesNothing
<1> QED
  BY <1>2, <1>3, <1>4, <1>5, <1>6, <1>7, <1>8 DEF Moves, BootParts, LinuxParts

\* For any images, whatever is copied, fails or is removed meanwhile, the
\* set-up takes only the steps Session has for it (session.c:615-722).
THEOREM SetsUpForSessionHolds == Spec => SetsUpForSession
<1>1. TypeOK /\ SideInv /\ [Next]_vars =>
        [S!Customize \/ S!BootSetup \/ S!InstallLoader \/ S!RemoveIso(image)]_(S!vars)
  BY StepMoves, SeesMove, SeesNothing DEF vars
<1> QED
  BY <1>1, BootTypeCorrect, SideInvariant, PTL DEF Spec, SetsUpForSession
=============================================================================
