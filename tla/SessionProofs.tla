---------------------------- MODULE SessionProofs ----------------------------
(***************************************************************************)
(* Theorems of Session, for any disks, names, images and bounds: its types,*)
(* the system's disks, what a session leaves when it is ready and when it  *)
(* ends, and that it is a write job.                                       *)
(***************************************************************************)
EXTENDS Session, TLAPS

-----------------------------------------------------------------------------
(* Types.                                                                  *)

\* A session as winafi_session_create makes it, on any host, has its types.
LEMMA InitTypeOK == Init => TypeOK
<1> SUFFICES ASSUME Init PROVE TypeOK
  OBVIOUS
<1>1. HostTypeOK
  <2>1. claims \in [Disks -> SUBSET Claim]
    BY HostAssumption DEF Init, HostInit
  <2> QED
    BY <2>1, HostAssumption DEF Init, HostInit, HostTypeOK
<1>2. devices \in [Names -> Disks \union {NoDisk}]
  BY DEF Init, NewSession
<1>3. content \in [Disks -> Contents]
  BY DEF Init, Contents
<1>4. state \in States /\ error \in Errors /\ stage \in Stages
  BY DEF Init, NewSession, States, Errors, Stages
<1>5. cancelled \in BOOLEAN /\ nodes \in BOOLEAN
  BY DEF Init, NewSession
<1>6. tries \in 0..NodeTries /\ runs \in 0..MaxRuns /\ crashes \in 0..MaxCrashes
  BY SessionAssumption DEF Init, NewSession
<1>7. /\ iso \in ISOs \union {NoIso}
      /\ selected \in Names \union {NoDevice}
      /\ fatMp \in Disks \union {Dead, Unmounted}
      /\ ntfsMp \in Disks \union {Dead, Unmounted}
      /\ dirs \in {"none", "empty", "spilled"}
      /\ dirty \subseteq Disks \X {"p1", "p2"}
      /\ isoThere \subseteq ISOs
  BY DEF Init, NewSession
<1> QED
  BY <1>1, <1>2, <1>3, <1>4, <1>5, <1>6, <1>7 DEF TypeOK

\* So has one made after another was destroyed, or after a kill.
LEMMA RenewedTypeOK ==
  ASSUME Renewed
  PROVE  /\ state' \in States /\ cancelled' \in BOOLEAN /\ error' \in Errors
         /\ iso' \in ISOs \union {NoIso}
         /\ devices' \in [Names -> Disks \union {NoDisk}]
         /\ selected' \in Names \union {NoDevice}
         /\ stage' \in Stages /\ tries' \in 0..NodeTries
         /\ fatMp' \in Disks \union {Dead, Unmounted}
         /\ ntfsMp' \in Disks \union {Dead, Unmounted}
         /\ dirs' \in {"none", "empty", "spilled"}
<1>1. devices' \in [Names -> Disks \union {NoDisk}]
  BY DEF Renewed
<1>2. state' \in States /\ error' \in Errors /\ stage' \in Stages
  BY DEF Renewed, States, Errors, Stages
<1>3. tries' \in 0..NodeTries
  BY SessionAssumption DEF Renewed
<1>4. cancelled' \in BOOLEAN
  BY Zenon DEF Renewed
<1>5. /\ iso' \in ISOs \union {NoIso}
      /\ selected' \in Names \union {NoDevice}
      /\ fatMp' \in Disks \union {Dead, Unmounted}
      /\ ntfsMp' \in Disks \union {Dead, Unmounted}
      /\ dirs' \in {"none", "empty", "spilled"}
  BY DEF Renewed
<1> QED
  BY <1>1, <1>2, <1>3, <1>4, <1>5

\* What the caller may do, execute aside, keeps the types.
LEMMA CallerTypeOK == TypeOK /\ Caller => TypeOK'
<1> SUFFICES ASSUME TypeOK, Caller PROVE TypeOK'
  OBVIOUS
<1> USE HostAssumption, SessionAssumption
<1>1. CASE EnumerateDevices
  BY <1>1 DEF EnumerateDevices, Call, Enter, Refuse, TypeOK, HostTypeOK,
     States, Errors, hostVars, mountVars, diskVars, boundVars
<1>2. ASSUME NEW i \in ISOs, LoadIso(i) PROVE TypeOK'
  BY <1>2 DEF LoadIso, Call, Enter, Refuse, TypeOK, HostTypeOK,
     States, Errors, hostVars, mountVars, diskVars, boundVars
<1>3. ASSUME NEW n \in Names, SelectDevice(n) PROVE TypeOK'
  BY <1>3 DEF SelectDevice, Call, Enter, Refuse, TypeOK, HostTypeOK,
     States, Errors, hostVars, mountVars, diskVars, boundVars
<1>4. CASE Prepare
  BY <1>4 DEF Prepare, Call, Enter, Refuse, TypeOK, HostTypeOK, apiVars,
     States, Errors, hostVars, mountVars, diskVars, boundVars
<1>5. CASE ExecuteRefused
  BY <1>5 DEF ExecuteRefused, Call, Refuse, TypeOK, HostTypeOK, apiVars,
     States, Errors, hostVars, mountVars, diskVars, boundVars
<1>6. CASE ExecuteStart
  BY <1>6 DEF ExecuteStart, TypeOK, HostTypeOK, apiVars, States, Stages,
     hostVars, mountVars, diskVars
<1>7. CASE Renew
  BY <1>7, RenewedTypeOK DEF Renew, TypeOK, HostTypeOK, hostVars, diskVars,
     boundVars
<1>8. CASE Cancel
  BY <1>8 DEF Cancel, TypeOK, HostTypeOK, apiVars, hostVars, mountVars,
     diskVars, boundVars
<1> QED
  BY <1>1, <1>2, <1>3, <1>4, <1>5, <1>6, <1>7, <1>8 DEF Caller

\* Adding a claim to a disk, as mounts do, keeps the type of the table.
LEMMA ClaimsAdd ==
  ASSUME claims \in [Disks -> SUBSET Claim], NEW d, NEW c \in Claim,
         claims' = [claims EXCEPT ![d] = @ \union {c}]
  PROVE  claims' \in [Disks -> SUBSET Claim]
  OBVIOUS

\* unmount_and_cleanup keeps the types.
LEMMA UnmountAllTypeOK ==
  ASSUME TypeOK, UnmountAll
  PROVE  /\ claims' \in [Disks -> SUBSET Claim]
         /\ dirty' \subseteq Disks \X {"p1", "p2"}
         /\ fatMp' \in Disks \union {Dead, Unmounted}
         /\ ntfsMp' \in Disks \union {Dead, Unmounted}
         /\ dirs' \in {"none", "empty", "spilled"}
<1>1. claims' \in [Disks -> SUBSET Claim]
  BY DEF UnmountAll, TypeOK, HostTypeOK
<1>2. dirty' \subseteq Disks \X {"p1", "p2"}
  BY DEF UnmountAll, TypeOK
<1> QED
  BY <1>1, <1>2 DEF UnmountAll

\* Every call execute makes keeps the types.
LEMMA ExecuteTypeOK == TypeOK /\ DeviceKnown /\ ExecuteStep => TypeOK'
<1> SUFFICES ASSUME TypeOK, DeviceKnown, ExecuteStep PROVE TypeOK'
  OBVIOUS
<1> USE HostAssumption, SessionAssumption
<1>1. CASE Validate
  BY <1>1 DEF Validate, At, Step, Goto, Fail, Quiet, TypeOK, HostTypeOK,
     States, Errors, Stages, apiVars, mountVars, diskVars, boundVars
<1>2. CASE MountCheck
  BY <1>2 DEF MountCheck, At, Step, Goto, Fail, Quiet, TypeOK, HostTypeOK,
     States, Errors, Stages, apiVars, mountVars, diskVars, boundVars
<1>3. CASE WipeGuard
  BY <1>3 DEF WipeGuard, At, Step, Goto, Fail, Quiet, TypeOK, HostTypeOK,
     States, Errors, Stages, apiVars, mountVars, diskVars, boundVars
<1>4. CASE Commit
  <2>1. content' \in [Disks -> Contents]
    BY <1>4 DEF Commit, Overwrite, TypeOK, Contents
  <2>2. state' \in States /\ error' \in Errors /\ stage' \in Stages
    BY <1>4 DEF Commit, Goto, Fail, TypeOK, States, Errors, Stages
  <2>3. tries' \in 0..NodeTries
    BY <1>4 DEF Commit
  <2>4. nodes' \in BOOLEAN
    BY <1>4, Zenon DEF Commit
  <2> QED
    BY <1>4, <2>1, <2>2, <2>3, <2>4 DEF Commit, At, Step, TypeOK, HostTypeOK, apiVars,
       mountVars, boundVars
<1>5. CASE AwaitNodes
  BY <1>5 DEF AwaitNodes, At, Step, Goto, Quiet, TypeOK, HostTypeOK,
     Stages, apiVars, mountVars, diskVars, boundVars
<1>6. CASE FormatFat
  BY <1>6 DEF FormatFat, Format, Overwrite, At, Step, Goto, Fail, TypeOK,
     HostTypeOK, States, Errors, Stages, Contents, apiVars, mountVars, boundVars
<1>7. CASE FormatNtfs
  BY <1>7 DEF FormatNtfs, Format, Overwrite, At, Step, Goto, Fail, TypeOK,
     HostTypeOK, States, Errors, Stages, Contents, apiVars, mountVars, boundVars
<1>8. CASE CreateDirs
  BY <1>8 DEF CreateDirs, At, Step, Goto, Fail, TypeOK, HostTypeOK,
     States, Errors, Stages, apiVars, diskVars, boundVars
<1>9. CASE MountFat
  <2>1. claims' \in [Disks -> SUBSET Claim]
    <3>1. Ours("p1") \in Claim
      BY DEF Ours, Claim, Places, Kinds
    <3> QED
      BY <1>9, <3>1, ClaimsAdd DEF MountFat, TakeClaim, TypeOK, HostTypeOK
  <2>2. fatMp' \in Disks \union {Dead, Unmounted}
    BY <1>9 DEF MountFat, CanMount, Present, At, DeviceKnown, TypeOK, HostTypeOK
  <2>3. state' \in States /\ error' \in Errors /\ stage' \in Stages
    BY <1>9 DEF MountFat, Goto, Fail, TypeOK, States, Errors, Stages
  <2> QED
    BY <1>9, <2>1, <2>2, <2>3 DEF MountFat, At, Step, TypeOK, HostTypeOK,
       apiVars, diskVars, boundVars
<1>10. CASE MountNtfs
  <2>1. claims' \in [Disks -> SUBSET Claim]
    <3>1. Ours("p2") \in Claim
      BY DEF Ours, Claim, Places, Kinds
    <3> QED
      BY <1>10, <3>1, ClaimsAdd DEF MountNtfs, TakeClaim, TypeOK, HostTypeOK
  <2>2. ntfsMp' \in Disks \union {Dead, Unmounted}
    BY <1>10 DEF MountNtfs, CanMount, Present, At, DeviceKnown, TypeOK, HostTypeOK
  <2>3. state' \in States /\ error' \in Errors /\ stage' \in Stages
    BY <1>10 DEF MountNtfs, Goto, Fail, TypeOK, States, Errors, Stages
  <2> QED
    BY <1>10, <2>1, <2>2, <2>3 DEF MountNtfs, At, Step, TypeOK, HostTypeOK,
       apiVars, diskVars, boundVars
<1>11. CASE ExtractEntry
  BY <1>11 DEF ExtractEntry, InExtract, Overwrite, Write, At, Step, Fail,
     TypeOK, HostTypeOK, States, Errors, Stages, Contents, apiVars, boundVars
<1>12. CASE ExtractEnd
  BY <1>12 DEF ExtractEnd, InExtract, AfterExtract, Overwrite, Write, At, Step,
     Goto, Fail, TypeOK, HostTypeOK, States, Errors, Stages, Contents, apiVars,
     boundVars
<1>13. CASE Customize
  BY <1>13 DEF Customize, Write, At, Step, Goto, Fail, TypeOK, HostTypeOK,
     States, Errors, Stages, apiVars, boundVars
<1>14. CASE BootSetup
  BY <1>14 DEF BootSetup, Overwrite, Write, WriteFails, At, Step, Goto, Fail,
     TypeOK, HostTypeOK, States, Errors, Stages, Contents, apiVars, boundVars
<1>15. CASE InstallLoader
  BY <1>15 DEF InstallLoader, Write, At, Step, Goto, Fail, TypeOK, HostTypeOK,
     States, Errors, Stages, apiVars, boundVars
<1>16. CASE SyncFat
  BY <1>16 DEF SyncFat, Sync, Claim, Places, Kinds, At, Step, Goto, TypeOK,
     HostTypeOK, Stages, apiVars, mountVars, boundVars
<1>17. CASE SyncNtfs
  BY <1>17 DEF SyncNtfs, Sync, Claim, Places, Kinds, At, Step, Goto, TypeOK,
     HostTypeOK, Stages, apiVars, mountVars, boundVars
<1>18. CASE Unmount
  BY <1>18, UnmountAllTypeOK DEF Unmount, UnmountAll, At, Step, Fail, TypeOK,
     HostTypeOK, States, Errors, Stages, apiVars, boundVars
<1>19. CASE Cleanup
  BY <1>19, UnmountAllTypeOK DEF Cleanup, UnmountAll, At, Step, TypeOK,
     HostTypeOK, States, Stages, apiVars, boundVars
<1> QED
  BY <1>1, <1>2, <1>3, <1>4, <1>5, <1>6, <1>7, <1>8, <1>9, <1>10, <1>11,
     <1>12, <1>13, <1>14, <1>15, <1>16, <1>17, <1>18, <1>19 DEF ExecuteStep

\* The host and the environment keep the types.
LEMMA EnvironmentTypeOK == TypeOK /\ Environment => TypeOK'
<1> SUFFICES ASSUME TypeOK, Environment PROVE TypeOK'
  OBVIOUS
<1> USE HostAssumption, SessionAssumption
<1>1. ASSUME Event PROVE events' \in 0..MaxEvents /\ isRoot' = isRoot
  BY <1>1 DEF Event, TypeOK, HostTypeOK
<1>2. ASSUME NEW d \in Disks, NEW p \in Places, HostAutoMount(d, p) PROVE TypeOK'
  <2>1. [place |-> p, kind |-> "fs"] \in Claim
    BY DEF Claim, Kinds
  <2>2. claims' \in [Disks -> SUBSET Claim]
    BY <1>2, <2>1, ClaimsAdd DEF HostAutoMount, AutoMount, TypeOK, HostTypeOK
  <2> QED
    BY <1>1, <1>2, <2>2 DEF HostAutoMount, AutoMount, SessionIdle, TypeOK,
       HostTypeOK, apiVars, mountVars, diskVars, boundVars
<1>3. ASSUME NEW d \in Disks, NEW c \in claims[d], HostUnmount(d, c)
      PROVE  TypeOK'
  BY <1>1, <1>3 DEF HostUnmount, ExternalUnmount, SessionIdle, TypeOK,
     HostTypeOK, apiVars, boundVars
<1>4. ASSUME NEW n \in Names, HostUnplug(n) PROVE TypeOK'
  <2>1. at' \in [Names -> Disks \union {NoDisk}]
    BY <1>4 DEF HostUnplug, Unplug, TypeOK, HostTypeOK
  <2>2. claims' \in [Disks -> SUBSET Claim]
    BY <1>4 DEF HostUnplug, Unplug, TypeOK, HostTypeOK
  <2>3. content' \in [Disks -> Contents]
    BY <1>4 DEF HostUnplug, TypeOK, Contents
  <2>4. /\ fatMp' \in Disks \union {Dead, Unmounted}
        /\ ntfsMp' \in Disks \union {Dead, Unmounted}
    BY <1>4 DEF HostUnplug, TypeOK
  <2> QED
    BY <1>1, <1>4, <2>1, <2>2, <2>3, <2>4 DEF HostUnplug, Unplug, SessionIdle,
       TypeOK, HostTypeOK, apiVars, boundVars
<1>5. ASSUME NEW n \in Names, NEW d \in Disks, HostPlug(n, d) PROVE TypeOK'
  BY <1>1, <1>5 DEF HostPlug, Plug, SessionIdle, TypeOK, HostTypeOK, apiVars,
     mountVars, diskVars, boundVars
<1>6. CASE NodesAppear
  BY <1>6 DEF NodesAppear, SessionIdle, TypeOK, HostTypeOK, hostVars, apiVars,
     mountVars, diskVars, boundVars
<1>7. ASSUME NEW d \in Disks, NEW p \in {"p1", "p2"}, Writeback(d, p)
      PROVE  TypeOK'
  BY <1>7 DEF Writeback, SessionIdle, TypeOK, HostTypeOK, apiVars, mountVars,
     boundVars
<1>8. ASSUME NEW i \in ISOs, RemoveIso(i) PROVE TypeOK'
  BY <1>1, <1>8 DEF RemoveIso, SessionIdle, TypeOK, HostTypeOK, apiVars,
     mountVars, diskVars, boundVars
<1>9. CASE Crash
  <2>1. claims' \in [Disks -> SUBSET Claim]
    <3>1. ASSUME NEW c \in Claim
          PROVE  [c EXCEPT !.kind = "fs"] \in Claim
      BY DEF Claim, Kinds
    <3> QED
      BY <1>9, <3>1 DEF Crash, TypeOK, HostTypeOK
  <2>2. crashes' \in 0..MaxCrashes
    BY <1>9 DEF Crash, TypeOK
  <2> QED
    BY <1>9, <2>1, <2>2, RenewedTypeOK DEF Crash, TypeOK, HostTypeOK, diskVars
<1> QED
  BY <1>2, <1>3, <1>4, <1>5, <1>6, <1>7, <1>8, <1>9 DEF Environment, Machine

\* The device the session works on is one the machine has a name for.
LEMMA DeviceKnownStep == DeviceKnown /\ [Next]_vars => DeviceKnown'
<1> SUFFICES ASSUME DeviceKnown, [Next]_vars PROVE DeviceKnown'
  OBVIOUS
<1>1. CASE Caller
  BY <1>1 DEF Caller, EnumerateDevices, LoadIso, SelectDevice, Prepare,
     ExecuteRefused, ExecuteStart, Renew, Renewed, Cancel, Call, Enter, Refuse,
     apiVars, DeviceKnown
<1>2. CASE ExecuteStep
  <2>1. stage # "idle" /\ selected' = selected
    BY <1>2 DEF ExecuteStep, Validate, MountCheck, WipeGuard, Commit, AwaitNodes,
       FormatFat, FormatNtfs, CreateDirs, MountFat, MountNtfs, ExtractEntry,
       ExtractEnd, InExtract, Customize, BootSetup, InstallLoader, SyncFat,
       SyncNtfs, Sync, Unmount, Cleanup, At, Step, apiVars
  <2> QED
    BY <2>1 DEF DeviceKnown
<1>3. CASE Environment
  BY <1>3 DEF Environment, Machine, HostAutoMount, HostUnmount, HostUnplug, HostPlug,
     NodesAppear, Writeback, RemoveIso, Crash, Renewed, SessionIdle, apiVars,
     DeviceKnown
<1>4. CASE UNCHANGED vars
  BY <1>4 DEF vars, DeviceKnown
<1> QED
  BY <1>1, <1>2, <1>3, <1>4 DEF Next

TypeInv == TypeOK /\ DeviceKnown

\* Every variable of the session and the host keeps to its type, along every
\* run.  The devices execute works on must be known for it: at[selected] is a
\* disk or NoDisk only if selected is a name.
THEOREM TypeCorrect == Spec => []TypeOK
<1>1. Init => TypeInv
  BY InitTypeOK DEF TypeInv, DeviceKnown, Init, NewSession
<1>2. TypeInv /\ [Next]_vars => TypeInv'
  <2> SUFFICES ASSUME TypeInv, [Next]_vars PROVE TypeInv'
    OBVIOUS
  <2>1. CASE UNCHANGED vars
    BY <2>1 DEF vars, TypeInv, TypeOK, HostTypeOK, DeviceKnown
  <2>2. CASE Next
    BY <2>2, CallerTypeOK, ExecuteTypeOK, EnvironmentTypeOK, DeviceKnownStep
    DEF TypeInv, Next
  <2> QED
    BY <2>1, <2>2
<1>3. TypeInv => TypeOK
  BY DEF TypeInv
<1> QED
  BY <1>1, <1>2, <1>3, PTL DEF Spec

-----------------------------------------------------------------------------
(* The system's disks.                                                     *)

\* Whether a disk is the system's does not change: nothing that happens adds
\* or removes a protected mount, its carrier, or swap.
SystemKept == \A d \in Disks : IsSystem(d)' <=> IsSystem(d)

\* A claim of no system kind, added to a disk, makes no system disk ...
LEMMA KeptByAdd ==
  ASSUME claims \in [Disks -> SUBSET Claim],
         NEW x, NEW c \in Claim, c.kind \notin SystemKinds,
         claims' = [claims EXCEPT ![x] = @ \union {c}]
  PROVE  SystemKept
  BY DEF SystemKept, IsSystem, HasKind

\* ... and taken from a disk unmakes none ...
LEMMA KeptByDrop ==
  ASSUME claims \in [Disks -> SUBSET Claim],
         NEW x, NEW c, c.kind \notin SystemKinds,
         claims' = [claims EXCEPT ![x] = @ \ {c}]
  PROVE  SystemKept
  BY DEF SystemKept, IsSystem, HasKind

\* ... and the claims alone decide.
LEMMA KeptBySame == UNCHANGED claims => SystemKept
  BY DEF SystemKept, IsSystem, HasKind

\* unmount_and_cleanup drops claims of the session's only.
LEMMA KeptByUnmountAll ==
  ASSUME TypeOK, UnmountAll
  PROVE  SystemKept
<1>1. \A p : Ours(p).kind \notin SystemKinds
  BY DEF Ours, SystemKinds
<1> QED
  BY <1>1 DEF UnmountAll, SystemKept, IsSystem, HasKind, TypeOK, HostTypeOK

\* No step of anybody makes or unmakes a disk of the system's.
LEMMA SystemKeptStep == TypeInv /\ [Next]_vars => SystemKept
<1> SUFFICES ASSUME TypeInv, [Next]_vars PROVE SystemKept
  OBVIOUS
<1>0. claims \in [Disks -> SUBSET Claim]
  BY DEF TypeInv, TypeOK, HostTypeOK
<1>1. CASE Caller
  <2>1. UNCHANGED claims
    BY <1>1 DEF Caller, EnumerateDevices, LoadIso, SelectDevice, Prepare,
       ExecuteRefused, ExecuteStart, Renew, Cancel, Call, hostVars
  <2> QED
    BY <2>1, KeptBySame
<1>2. CASE ExecuteStep
  <2>1. CASE MountFat
    <3>1. Ours("p1") \in Claim /\ Ours("p1").kind \notin SystemKinds
      BY DEF Ours, Claim, Places, Kinds, SystemKinds
    <3> QED
      BY <1>0, <2>1, <3>1, KeptByAdd, KeptBySame DEF MountFat, TakeClaim
  <2>2. CASE MountNtfs
    <3>1. Ours("p2") \in Claim /\ Ours("p2").kind \notin SystemKinds
      BY DEF Ours, Claim, Places, Kinds, SystemKinds
    <3> QED
      BY <1>0, <2>2, <3>1, KeptByAdd, KeptBySame DEF MountNtfs, TakeClaim
  <2>3. CASE SyncFat \/ SyncNtfs
    <3>1. \A p \in {"p1", "p2"} :
            LET c == [place |-> p, kind |-> "syncing"]
            IN c \in Claim /\ c.kind \notin SystemKinds
      BY DEF Claim, Places, Kinds, SystemKinds
    <3> QED
      BY <1>0, <2>3, <3>1, KeptByAdd, KeptBySame DEF SyncFat, SyncNtfs, Sync
  <2>4. CASE Unmount \/ Cleanup
    BY <2>4, KeptByUnmountAll DEF TypeInv, Unmount, Cleanup
  <2>5. CASE ~(MountFat \/ MountNtfs \/ SyncFat \/ SyncNtfs \/ Unmount \/ Cleanup)
    <3>1. UNCHANGED claims
      BY <1>2, <2>5 DEF ExecuteStep, Validate, MountCheck, WipeGuard, Commit,
         AwaitNodes, FormatFat, FormatNtfs, Format, CreateDirs, ExtractEntry,
         ExtractEnd, InExtract, Customize, BootSetup, InstallLoader, Quiet
    <3> QED
      BY <3>1, KeptBySame
  <2> QED
    BY <2>1, <2>2, <2>3, <2>4, <2>5
<1>3. CASE Environment
  <2>1. ASSUME NEW d \in Disks, NEW p \in Places, HostAutoMount(d, p)
        PROVE  SystemKept
    <3>1. LET c == [place |-> p, kind |-> "fs"]
          IN c \in Claim /\ c.kind \notin SystemKinds
      BY DEF Claim, Kinds, SystemKinds
    <3> QED
      BY <1>0, <2>1, <3>1, KeptByAdd DEF HostAutoMount, AutoMount
  <2>2. ASSUME NEW d \in Disks, NEW c \in claims[d], HostUnmount(d, c)
        PROVE  SystemKept
    BY <1>0, <2>2, KeptByDrop DEF HostUnmount, ExternalUnmount, SystemKinds
  <2>3. ASSUME NEW n \in Names, HostUnplug(n) PROVE SystemKept
    BY <1>0, <2>3 DEF HostUnplug, Unplug, SystemKept, IsSystem, HasKind
  <2>4. ASSUME NEW d \in Disks, NEW p \in {"p1", "p2"}, Writeback(d, p)
        PROVE  SystemKept
    BY <1>0, <2>4, KeptByDrop DEF Writeback, SystemKinds
  <2>5. CASE Crash
    <3> DEFINE heir(c) == IF c.kind = "ours" THEN [c EXCEPT !.kind = "fs"] ELSE c
    <3>1. ASSUME NEW c \in Claim
          PROVE  heir(c).kind \in SystemKinds <=> c.kind \in SystemKinds
      BY DEF Claim, SystemKinds
    <3>2. \A d \in Disks : claims'[d] = {heir(c) : c \in claims[d]}
      BY <2>5 DEF Crash
    <3> HIDE DEF heir
    <3>3. ASSUME NEW d \in Disks PROVE IsSystem(d)' <=> IsSystem(d)
      BY <1>0, <3>1, <3>2 DEF IsSystem, HasKind
    <3> QED
      BY <3>3 DEF SystemKept
  <2>6. CASE \/ \E n \in Names, d \in Disks : HostPlug(n, d)
             \/ NodesAppear
             \/ \E i \in ISOs : RemoveIso(i)
    BY <2>6, KeptBySame DEF HostPlug, Plug, NodesAppear, RemoveIso, hostVars
  <2> QED
    BY <1>3, <2>1, <2>2, <2>3, <2>4, <2>5, <2>6 DEF Environment, Machine
<1>4. CASE UNCHANGED vars
  BY <1>4, KeptBySame DEF vars
<1> QED
  BY <1>1, <1>2, <1>3, <1>4 DEF Next

\* What every step of execute leaves alone, and how it comes to write.
LEMMA ExecuteFrame ==
  ASSUME ExecuteStep
  PROVE  /\ stage # "idle"
         /\ UNCHANGED <<at, isRoot, selected>>
         /\ stage' \in Touching =>
              \/ stage \in Touching
              \/ DeviceValidate(selected)
         /\ state' = "PREPARED" => state = "PREPARED"
  BY DEF ExecuteStep, Validate, MountCheck, WipeGuard, Commit, AwaitNodes,
     FormatFat, FormatNtfs, Format, CreateDirs, MountFat, MountNtfs,
     ExtractEntry, ExtractEnd, InExtract, Customize, BootSetup, InstallLoader,
     SyncFat, SyncNtfs, Sync, Unmount, Cleanup, At, Step, Goto, Fail, apiVars,
     Touching, Stages

\* Only the partitioning, mkfs, the extraction and the boot set-up change what
\* a disk holds: the disk at the selected name, or the one mounted.
LEMMA ExecuteWrites ==
  ASSUME TypeInv, ExecuteStep, NEW d \in Disks, content'[d] # content[d]
  PROVE  d = ntfsMp \/ (stage \in Touching /\ d = at[selected])
<1>1. CASE Commit
  BY <1>1 DEF Commit, Overwrite, At, Touching, Stages, TypeInv, TypeOK
<1>2. CASE FormatFat \/ FormatNtfs
  BY <1>2 DEF FormatFat, FormatNtfs, Format, Overwrite, At, Touching, Stages,
     TypeInv, TypeOK
<1>3. CASE ExtractEntry \/ ExtractEnd
  BY <1>3 DEF ExtractEntry, ExtractEnd, Overwrite, TypeInv, TypeOK
<1>4. CASE BootSetup
  BY <1>4 DEF BootSetup, Overwrite, TypeInv, TypeOK
<1>5. CASE ~(\/ Commit \/ FormatFat \/ FormatNtfs \/ ExtractEntry
             \/ ExtractEnd \/ BootSetup)
  BY <1>5 DEF ExecuteStep, Validate, MountCheck, WipeGuard, AwaitNodes,
     CreateDirs, MountFat, MountNtfs, Customize, InstallLoader, SyncFat,
     SyncNtfs, Sync, Unmount, Cleanup, UnmountAll, Quiet, diskVars
<1> QED
  BY <1>1, <1>2, <1>3, <1>4, <1>5

\* A mount of the session's is a mount of the disk at the selected name.
LEMMA ExecuteMounts ==
  ASSUME ExecuteStep
  PROVE  /\ \/ fatMp' \in {fatMp, Unmounted}
            \/ stage \in Touching /\ fatMp' = at[selected]
         /\ \/ ntfsMp' \in {ntfsMp, Unmounted}
            \/ stage \in Touching /\ ntfsMp' = at[selected]
  BY DEF ExecuteStep, Validate, MountCheck, WipeGuard, Commit, AwaitNodes,
     FormatFat, FormatNtfs, Format, CreateDirs, MountFat, MountNtfs,
     ExtractEntry, ExtractEnd, InExtract, Customize, BootSetup, InstallLoader,
     SyncFat, SyncNtfs, Sync, Unmount, Cleanup, UnmountAll, At, Quiet,
     mountVars, Touching, Stages

\* What the caller does, writing aside, touches neither host nor disks, and only
\* prepare, run as root, makes the session ready.
LEMMA CallerFrame ==
  ASSUME Caller
  PROVE  /\ UNCHANGED <<at, claims, isRoot, content>>
         /\ fatMp' \in {fatMp, Unmounted} /\ ntfsMp' \in {ntfsMp, Unmounted}
         /\ \/ stage' = stage /\ selected' = selected
            \/ stage' = "idle"
            \/ stage' = "validate" /\ state = "PREPARED"
         /\ state' = "PREPARED" => state = "PREPARED" \/ isRoot
  BY DEF Caller, EnumerateDevices, LoadIso, SelectDevice, Prepare,
     ExecuteRefused, ExecuteStart, Renew, Renewed, Cancel, Call, Enter, Refuse,
     hostVars, mountVars, diskVars, apiVars

\* At the start nothing is selected, mounted or written.
LEMMA InitSafetyInv == Init => SafetyInv
<1> SUFFICES ASSUME Init PROVE SafetyInv
  OBVIOUS
<1>1. SystemDiskIntact
  BY DEF Init, SystemDiskIntact, SystemDisks
<1>2. SystemAttached
  BY DEF Init, HostInit, SystemAttached, SystemDisks, IsSystem, HasKind
<1>3. RootOnly /\ DeviceKnown /\ TargetFree
  BY DEF Init, NewSession, RootOnly, DeviceKnown, TargetFree, Touching
<1>4. MountsFree
  BY ValueAssumption DEF Init, NewSession, MountsFree, SystemDisks
<1> QED
  BY <1>1, <1>2, <1>3, <1>4, InitTypeOK DEF SafetyInv

\* What the environment may do to the host: a name may lose its disk or get one
\* that had no name, only a disk that is not the system's is torn or detached.
LEMMA EnvironmentFrame ==
  ASSUME TypeInv, Environment
  PROVE  /\ isRoot' = isRoot
         /\ \/ UNCHANGED <<state, stage, selected>>
            \/ stage' = "idle" /\ state' = "CREATED"
         /\ fatMp' \in {fatMp, Unmounted, Dead}
         /\ ntfsMp' \in {ntfsMp, Unmounted, Dead}
         /\ \A d \in Disks : content'[d] # content[d] => ~IsSystem(d)
         /\ \A n \in Names : \/ at'[n] = at[n]
                             \/ at'[n] = NoDisk
                             \/ ~Attached(at'[n])
         /\ \A d \in Disks : Attached(d) /\ IsSystem(d) => Attached(d)'
<1>1. ASSUME NEW n \in Names, HostUnplug(n)
      PROVE  /\ \A d \in Disks : content'[d] # content[d] => ~IsSystem(d)
             /\ \A m \in Names : at'[m] = at[m] \/ at'[m] = NoDisk
             /\ \A d \in Disks : Attached(d) /\ IsSystem(d) => Attached(d)'
  <2>1. at' = [at EXCEPT ![n] = NoDisk] /\ ~IsSystem(at[n])
    BY <1>1 DEF HostUnplug, Unplug
  <2>2. \A d \in Disks : content'[d] # content[d] => d = at[n]
    BY <1>1 DEF HostUnplug, TypeInv, TypeOK
  <2> QED
    BY <2>1, <2>2 DEF Attached, TypeInv, TypeOK, HostTypeOK
<1>2. ASSUME NEW n \in Names, NEW d \in Disks, HostPlug(n, d)
      PROVE  /\ \A m \in Names : at'[m] = at[m] \/ ~Attached(at'[m])
             /\ \A e \in Disks : Attached(e) /\ IsSystem(e) => Attached(e)'
  BY <1>2, HostAssumption DEF HostPlug, Plug, Present, Attached, TypeInv, TypeOK, HostTypeOK
<1>3. UNCHANGED at => \A d \in Disks : Attached(d) => Attached(d)'
  BY DEF Attached
<1>4. CASE \E n \in Names : HostUnplug(n)
  BY <1>1, <1>4 DEF HostUnplug, Unplug, Event, SessionIdle, apiVars
<1>5. CASE \E n \in Names, d \in Disks : HostPlug(n, d)
  BY <1>2, <1>5 DEF HostPlug, Plug, Event, SessionIdle, apiVars, mountVars,
     diskVars
<1>6. CASE \/ \E d \in Disks, p \in Places : HostAutoMount(d, p)
           \/ \E d \in Disks : \E c \in claims[d] : HostUnmount(d, c)
           \/ NodesAppear
           \/ \E d \in Disks, p \in {"p1", "p2"} : Writeback(d, p)
           \/ \E i \in ISOs : RemoveIso(i)
           \/ Crash
  <2>1. /\ UNCHANGED <<at, isRoot, content>>
        /\ \/ UNCHANGED <<state, stage, selected>>
           \/ stage' = "idle" /\ state' = "CREATED"
        /\ fatMp' \in {fatMp, Unmounted} /\ ntfsMp' \in {ntfsMp, Unmounted}
    BY <1>6 DEF HostAutoMount, AutoMount, HostUnmount, ExternalUnmount,
       NodesAppear, Writeback, RemoveIso, Crash, Renewed, Event, SessionIdle,
       apiVars, mountVars, diskVars, hostVars
  <2> QED
    BY <1>3, <2>1
<1> QED
  BY <1>4, <1>5, <1>6 DEF Environment, Machine

\* Every step keeps the invariant, one conjunct at a time.
LEMMA SafetyInvStep == SafetyInv /\ [Next]_vars => SafetyInv'
<1> SUFFICES ASSUME SafetyInv, [Next]_vars PROVE SafetyInv'
  OBVIOUS
<1>1. TypeInv /\ TypeInv'
  <2>1. TypeInv
    BY DEF SafetyInv, TypeInv
  <2>2. CASE UNCHANGED vars
    BY <2>1, <2>2 DEF vars, TypeInv, TypeOK, HostTypeOK, DeviceKnown
  <2>3. CASE Next
    BY <2>1, <2>3, CallerTypeOK, ExecuteTypeOK, EnvironmentTypeOK, DeviceKnownStep
    DEF TypeInv, Next
  <2> QED
    BY <2>1, <2>2, <2>3
<1>2. SystemDisks' = SystemDisks
  BY <1>1, SystemKeptStep DEF SystemKept, SystemDisks
<1>3. CASE Caller
  <2>1. SystemDiskIntact' /\ MountsFree' /\ SystemAttached'
    BY <1>2, <1>3, CallerFrame, ValueAssumption
    DEF SafetyInv, SystemDiskIntact, MountsFree, SystemAttached, Attached, SystemDisks
  <2>2. RootOnly'
    BY <1>3, CallerFrame DEF SafetyInv, RootOnly
  <2>3. TargetFree'
    BY <1>2, <1>3, CallerFrame DEF SafetyInv, TargetFree, Touching
  <2> QED
    BY <1>1, <2>1, <2>2, <2>3 DEF TypeInv, SafetyInv
<1>4. CASE ExecuteStep
  <2>1. selected \in Names /\ isRoot
    BY <1>4, ExecuteFrame DEF SafetyInv, DeviceKnown, RootOnly
  <2>2. RootOnly'
    BY <1>4, <2>1, ExecuteFrame DEF RootOnly
  <2>3. DeviceValidate(selected) => at[selected] \notin SystemDisks
    BY <2>1 DEF DeviceValidate, NotLocked, SystemDisks, IsSystem, HasKind
  <2>4. TargetFree'
    BY <1>2, <1>4, <2>3, ExecuteFrame DEF SafetyInv, TargetFree
  <2>5. MountsFree'
    BY <1>2, <1>4, ExecuteMounts, ValueAssumption
    DEF SafetyInv, MountsFree, TargetFree, SystemDisks
  <2>6. SystemAttached'
    BY <1>2, <1>4, ExecuteFrame DEF SafetyInv, SystemAttached, Attached
  <2>7. SystemDiskIntact'
    BY <1>1, <1>2, <1>4, ExecuteWrites
    DEF SafetyInv, SystemDiskIntact, MountsFree, TargetFree, SystemDisks
  <2> QED
    BY <1>1, <2>2, <2>4, <2>5, <2>6, <2>7 DEF TypeInv, SafetyInv
<1>5. CASE Environment
  <2>1. RootOnly'
    BY <1>1, <1>5, EnvironmentFrame DEF SafetyInv, RootOnly
  <2>2. MountsFree'
    BY <1>1, <1>2, <1>5, EnvironmentFrame, ValueAssumption
    DEF SafetyInv, MountsFree, SystemDisks
  <2>3. SystemDiskIntact'
    BY <1>1, <1>2, <1>5, EnvironmentFrame
    DEF SafetyInv, SystemDiskIntact, SystemDisks
  <2>4. SystemAttached'
    BY <1>1, <1>2, <1>5, EnvironmentFrame
    DEF SafetyInv, SystemAttached, SystemDisks
  <2>5. TargetFree'
    <3>1. CASE stage' = "idle"
      BY <3>1 DEF TargetFree, Touching
    <3>2. CASE UNCHANGED <<stage, selected>> /\ stage \in Touching
      <4>1. selected \in Names
        BY <3>2 DEF SafetyInv, DeviceKnown, Touching
      <4>2. at'[selected] \notin SystemDisks
        BY <1>1, <1>5, <3>2, <4>1, EnvironmentFrame, HostAssumption
        DEF SafetyInv, TargetFree, SystemAttached, SystemDisks
      <4> QED
        BY <1>2, <3>2, <4>2 DEF TargetFree
    <3> QED
      BY <1>1, <1>5, <3>1, <3>2, EnvironmentFrame DEF TargetFree
  <2> QED
    BY <1>1, <2>1, <2>2, <2>3, <2>4, <2>5 DEF TypeInv, SafetyInv
<1>6. CASE UNCHANGED vars
  <2>1. SystemDiskIntact' /\ MountsFree' /\ SystemAttached' /\ TargetFree' /\ RootOnly'
    BY <1>2, <1>6 DEF vars, SafetyInv, SystemDiskIntact, MountsFree,
       SystemAttached, Attached, TargetFree, RootOnly
  <2> QED
    BY <1>1, <2>1 DEF TypeInv, SafetyInv
<1> QED
  BY <1>3, <1>4, <1>5, <1>6 DEF Next

\* The invariant holds along every run: while execute writes, it runs as root on
\* a known device that is no disk of the system's, and so are its mounts.
THEOREM SafetyHolds == Spec => []SafetyInv
  BY InitSafetyInv, SafetyInvStep, PTL DEF Spec

\* No run overwrites a disk the system runs from: every call of execute is
\* covered by device_validate's lock, whatever the host does after it.
THEOREM SystemDiskSafe == Spec => []SystemDiskIntact
<1>1. SafetyInv => SystemDiskIntact
  BY DEF SafetyInv
<1> QED
  BY <1>1, SafetyHolds, PTL

-----------------------------------------------------------------------------
(* A session that is ready.                                                *)

\* load_iso keeps no image it did not recognise.
IsoRecognised == iso # NoIso => OsOf[iso] # "other"

ImageInv == TypeInv /\ IsoRecognised

\* An API call keeps only a recognised image, and leaves the session ready only
\* if it is prepare, which has just looked, or the start of a ready execute.
LEMMA CallerChecks ==
  ASSUME ImageInv, Caller
  PROVE  /\ IsoRecognised'
         /\ Ready' => UNCHANGED apiVars /\ (Ready \/ Checked)
<1> USE SessionAssumption, ValueAssumption DEF ImageInv, Ready
<1>1. ASSUME NEW i \in ISOs, LoadIso(i)
      PROVE  (iso' # iso => iso' = i /\ OsOf[i] # "other") /\ ~Ready'
  BY <1>1 DEF LoadIso, Call, Enter, Refuse
<1>2. CASE \E i \in ISOs : LoadIso(i)
  BY <1>1, <1>2 DEF IsoRecognised
<1>3. CASE EnumerateDevices \/ (\E n \in Names : SelectDevice(n)) \/ ExecuteRefused
  BY <1>3 DEF EnumerateDevices, SelectDevice, ExecuteRefused, Call, Enter,
     Refuse, apiVars, IsoRecognised
<1>4. CASE Prepare
  <2>1. UNCHANGED apiVars
    BY <1>4 DEF Prepare
  <2>2. ASSUME Ready' PROVE Checked
    <3>1. /\ isRoot /\ Present(selected) /\ iso \in isoThere
          /\ Listed(selected) /\ Fits
      BY <1>4, <2>2 DEF Prepare, Call, Enter, Refuse
    <3>2. OsOf[iso] # "other"
      BY <3>1 DEF TypeInv, TypeOK, IsoRecognised
    <3> QED
      BY <3>1, <3>2 DEF Checked
  <2> QED
    BY <2>1, <2>2 DEF apiVars, IsoRecognised
<1>5. CASE ExecuteStart \/ Cancel
  BY <1>5 DEF ExecuteStart, Cancel, apiVars, IsoRecognised
<1>6. CASE Renew
  BY <1>6 DEF Renew, Renewed, IsoRecognised
<1> QED
  BY <1>2, <1>3, <1>4, <1>5, <1>6 DEF Caller

\* Whatever execute and the machine do, image, list and selection stay, and
\* neither of them makes a session ready.
LEMMA OthersKeepChoice ==
  ASSUME ExecuteStep \/ Environment
  PROVE  \/ /\ UNCHANGED apiVars
            /\ state' \in {state, "ERROR", "COMPLETED"}
            /\ stage = "idle" => stage' = "idle"
         \/ state' = "CREATED" /\ stage' = "idle" /\ iso' = NoIso
<1>1. CASE ExecuteStep
  BY <1>1 DEF ExecuteStep, Validate, MountCheck, WipeGuard, Commit, AwaitNodes,
     FormatFat, FormatNtfs, Format, CreateDirs, MountFat, MountNtfs,
     ExtractEntry, ExtractEnd, InExtract, Customize, BootSetup, InstallLoader,
     SyncFat, SyncNtfs, Sync, Unmount, Cleanup, At, Step, Goto, Fail
<1>2. CASE Environment
  BY <1>2 DEF Environment, Machine, HostAutoMount, HostUnmount, HostUnplug,
     HostPlug, NodesAppear, Writeback, RemoveIso, Crash, Renewed, SessionIdle
<1> QED
  BY <1>1, <1>2

\* The types, with the device, are an invariant.
LEMMA TypeInvStep == TypeInv /\ [Next]_vars => TypeInv'
<1> SUFFICES ASSUME TypeInv, [Next]_vars PROVE TypeInv'
  OBVIOUS
<1>1. CASE UNCHANGED vars
  BY <1>1 DEF vars, TypeInv, TypeOK, HostTypeOK, DeviceKnown
<1>2. CASE Next
  BY <1>2, CallerTypeOK, ExecuteTypeOK, EnvironmentTypeOK, DeviceKnownStep
  DEF TypeInv, Next
<1> QED
  BY <1>1, <1>2

LEMMA ImageInvStep ==
  ASSUME ImageInv, [Next]_vars
  PROVE  /\ ImageInv'
         /\ [Ready' => UNCHANGED apiVars /\ (Ready \/ Checked)]_vars
<1>1. TypeInv'
  BY TypeInvStep DEF ImageInv
<1>2. CASE Caller
  BY <1>1, <1>2, CallerChecks DEF ImageInv
<1>3. CASE ExecuteStep \/ Environment
  BY <1>1, <1>3, OthersKeepChoice DEF ImageInv, IsoRecognised, Ready, apiVars
<1>4. CASE UNCHANGED vars
  BY <1>1, <1>4 DEF vars, ImageInv, IsoRecognised
<1> QED
  BY <1>2, <1>3, <1>4 DEF Next

\* A new session has no image.
LEMMA ImageInit == Init => ImageInv
BY InitTypeOK DEF Init, NewSession, ImageInv, TypeInv, DeviceKnown, IsoRecognised

\* After any sequence of calls, execute works on the image, the device name and
\* the list that a prepare found in order, and on no other
\* (session.c:230-454, 469-483).
THEOREM WrittenIsCheckedHolds == Spec => WrittenIsChecked
BY ImageInit, ImageInvStep, PTL DEF Spec, WrittenIsChecked

-----------------------------------------------------------------------------
(* What execute leaves behind.                                             *)

\* A claim of the session's on a disk stands for one of its two mounts there.
OursAreMounts ==
  \A d \in Disks : \A c \in claims[d] :
    c.kind = "ours" => \/ c = Ours("p1") /\ fatMp = d
                       \/ c = Ours("p2") /\ ntfsMp = d

\* Nothing is mounted before execute comes to it, and there is no directory.
BeforeMounts == {"idle", "validate", "mountcheck", "guard", "commit", "nodes",
                 "fat", "ntfs", "dirs"}

NotYetMounted ==
  /\ stage \in BeforeMounts => dirs # "empty"
  /\ stage \in BeforeMounts \union {"mountfat"} => fatMp = Unmounted
  /\ stage \in BeforeMounts \union {"mountfat", "mountntfs"} => ntfsMp = Unmounted

MountInv == TypeInv /\ OursAreMounts /\ NotYetMounted

\* The caller neither mounts nor unmounts, and gives up nothing that is mounted.
LEMMA CallerMounts == MountInv /\ Caller => OursAreMounts' /\ NotYetMounted'
<1> SUFFICES ASSUME MountInv, Caller PROVE OursAreMounts' /\ NotYetMounted'
  OBVIOUS
<1>1. CASE Renew
  <2>1. stage = "idle" /\ UNCHANGED claims /\ Renewed
    BY <1>1 DEF Renew, hostVars
  <2>2. fatMp = Unmounted /\ ntfsMp = Unmounted
    BY <2>1 DEF MountInv, NotYetMounted, BeforeMounts
  <2> QED
    BY <2>1, <2>2 DEF Renewed, MountInv, OursAreMounts, NotYetMounted
<1>2. CASE ~Renew
  <2>1. /\ UNCHANGED <<claims, fatMp, ntfsMp, dirs>>
        /\ \/ UNCHANGED stage
           \/ stage = "idle" /\ stage' = "validate"
    BY <1>2 DEF Caller, EnumerateDevices, LoadIso, SelectDevice, Prepare,
       ExecuteRefused, ExecuteStart, Cancel, Call, hostVars, mountVars
  <2> QED
    BY <2>1 DEF MountInv, OursAreMounts, NotYetMounted, BeforeMounts
<1> QED
  BY <1>1, <1>2

\* unmount_and_cleanup takes every claim of the session's.
LEMMA UnmountAllMounts ==
  ASSUME MountInv, UnmountAll
  PROVE  /\ \A d \in Disks : ~HasKind(d, {"ours"})'
         /\ fatMp' = Unmounted /\ ntfsMp' = Unmounted /\ dirs' # "empty"
<1>1. ASSUME NEW d \in Disks, NEW c \in claims'[d], c.kind = "ours" PROVE FALSE
  <2>1. c \in claims[d]
    BY <1>1 DEF UnmountAll
  <2>2. \A p \in {"p1", "p2"} : <<d, p>> \in OurMounts => c # Ours(p)
    BY <1>1 DEF UnmountAll
  <2>3. /\ fatMp = d => <<d, "p1">> \in OurMounts
        /\ ntfsMp = d => <<d, "p2">> \in OurMounts
    BY DEF OurMounts
  <2> QED
    BY <1>1, <2>1, <2>2, <2>3 DEF MountInv, OursAreMounts
<1>2. fatMp' = Unmounted /\ ntfsMp' = Unmounted
  BY DEF UnmountAll
<1>3. dirs' # "empty"
  BY DEF UnmountAll
<1> QED
  BY <1>1, <1>2, <1>3 DEF HasKind

\* execute mounts once, where nothing of its own is, and unmounts what it has.
LEMMA ExecuteKeepsMounts == MountInv /\ ExecuteStep => OursAreMounts' /\ NotYetMounted'
<1> SUFFICES ASSUME MountInv, ExecuteStep PROVE OursAreMounts' /\ NotYetMounted'
  OBVIOUS
<1>0. /\ claims \in [Disks -> SUBSET Claim]
      /\ at \in [Names -> Disks \union {NoDisk}]
      /\ stage # "idle" => selected \in Names
  BY DEF MountInv, TypeInv, TypeOK, HostTypeOK, DeviceKnown
<1>1. CASE MountFat
  <2>1. stage = "mountfat" /\ UNCHANGED <<ntfsMp, dirs>>
    BY <1>1 DEF MountFat, At
  <2>2. fatMp = Unmounted /\ ntfsMp = Unmounted
    BY <2>1 DEF MountInv, NotYetMounted
  <2>3. CASE CanMount /\ TakeClaim("p1") /\ fatMp' = at[selected] /\ Goto("mountntfs")
    <3>1. at[selected] \in Disks
      BY <1>0, <2>1, <2>3 DEF CanMount, Present
    <3>2. OursAreMounts'
      BY <1>0, <2>1, <2>2, <2>3, <3>1, ValueAssumption
      DEF TakeClaim, MountInv, OursAreMounts
    <3> QED
      BY <2>1, <2>2, <2>3, <3>2 DEF Goto, NotYetMounted, BeforeMounts
  <2>4. CASE Fail("E-22-A") /\ UNCHANGED <<claims, fatMp>>
    BY <2>1, <2>4 DEF Fail, MountInv, OursAreMounts, NotYetMounted, BeforeMounts
  <2> QED
    BY <1>1, <2>3, <2>4 DEF MountFat
<1>2. CASE MountNtfs
  <2>1. stage = "mountntfs" /\ UNCHANGED <<fatMp, dirs>>
    BY <1>2 DEF MountNtfs, At
  <2>2. ntfsMp = Unmounted
    BY <2>1 DEF MountInv, NotYetMounted
  <2>3. CASE CanMount /\ TakeClaim("p2") /\ ntfsMp' = at[selected] /\ Goto("extract")
    <3>1. at[selected] \in Disks
      BY <1>0, <2>1, <2>3 DEF CanMount, Present
    <3>2. OursAreMounts'
      BY <1>0, <2>1, <2>2, <2>3, <3>1, ValueAssumption
      DEF TakeClaim, MountInv, OursAreMounts
    <3> QED
      BY <2>1, <2>2, <2>3, <3>2 DEF Goto, NotYetMounted, BeforeMounts
  <2>4. CASE Fail("E-22-A") /\ UNCHANGED <<claims, ntfsMp>>
    BY <2>1, <2>4 DEF Fail, MountInv, OursAreMounts, NotYetMounted, BeforeMounts
  <2> QED
    BY <1>2, <2>3, <2>4 DEF MountNtfs
<1>3. CASE SyncFat \/ SyncNtfs
  <2>1. \A d \in Disks : \A c \in claims'[d] : c.kind = "ours" => c \in claims[d]
    BY <1>0, <1>3 DEF SyncFat, SyncNtfs, Sync
  <2>2. UNCHANGED <<fatMp, ntfsMp, dirs>> /\ stage' \in {"syncntfs", "unmount"}
    BY <1>3 DEF SyncFat, SyncNtfs, Sync, Goto, mountVars
  <2> QED
    BY <2>1, <2>2 DEF MountInv, OursAreMounts, NotYetMounted, BeforeMounts
<1>4. CASE Unmount \/ Cleanup
  <2>1. UnmountAll
    BY <1>4 DEF Unmount, Cleanup
  <2> QED
    BY <2>1, UnmountAllMounts DEF OursAreMounts, NotYetMounted, HasKind
<1>5. CASE CreateDirs
  BY <1>5 DEF CreateDirs, At, Goto, Fail, MountInv, OursAreMounts,
     NotYetMounted, BeforeMounts
<1>6. CASE ~(\/ MountFat \/ MountNtfs \/ SyncFat \/ SyncNtfs \/ Unmount \/ Cleanup
             \/ CreateDirs)
  <2>1. UNCHANGED <<claims, fatMp, ntfsMp>>
    BY <1>6 DEF ExecuteStep, Validate, MountCheck, WipeGuard, Commit,
       AwaitNodes, FormatFat, FormatNtfs, Format, ExtractEntry, ExtractEnd,
       InExtract, Customize, BootSetup, InstallLoader, Quiet, mountVars
  <2>2. \/ stage \in BeforeMounts \ {"dirs"} /\ UNCHANGED dirs
        \/ stage' \notin BeforeMounts \union {"mountfat", "mountntfs"}
    BY <1>6 DEF ExecuteStep, Validate, MountCheck, WipeGuard, Commit,
       AwaitNodes, FormatFat, FormatNtfs, Format, ExtractEntry, ExtractEnd,
       InExtract, AfterExtract, Customize, BootSetup, InstallLoader, Quiet,
       mountVars, At, Goto, Fail, BeforeMounts
  <2> QED
    BY <2>1, <2>2 DEF MountInv, OursAreMounts, NotYetMounted, BeforeMounts
<1> QED
  BY <1>1, <1>2, <1>3, <1>4, <1>5, <1>6

\* What the machine unmounts or unplugs is unmounted or dead for the session
\* too; a killed session's mounts are nobody's.
LEMMA EnvironmentKeepsMounts ==
  MountInv /\ Environment => OursAreMounts' /\ NotYetMounted'
<1> SUFFICES ASSUME MountInv, Environment PROVE OursAreMounts' /\ NotYetMounted'
  OBVIOUS
<1>0. claims \in [Disks -> SUBSET Claim]
  BY DEF MountInv, TypeInv, TypeOK, HostTypeOK
<1>1. ASSUME NEW d \in Disks, NEW p \in Places, HostAutoMount(d, p)
      PROVE  OursAreMounts' /\ NotYetMounted'
  <2>1. /\ claims' = [claims EXCEPT ![d] = @ \union {[place |-> p, kind |-> "fs"]}]
        /\ UNCHANGED <<stage, fatMp, ntfsMp, dirs>>
    BY <1>1 DEF HostAutoMount, AutoMount, SessionIdle, mountVars
  <2> QED
    BY <1>0, <2>1 DEF MountInv, OursAreMounts, NotYetMounted
<1>2. ASSUME NEW d \in Disks, NEW c \in claims[d], HostUnmount(d, c)
      PROVE  OursAreMounts' /\ NotYetMounted'
  <2>1. /\ claims' = [claims EXCEPT ![d] = @ \ {c}]
        /\ fatMp' = IF c = Ours("p1") /\ fatMp = d THEN Unmounted ELSE fatMp
        /\ ntfsMp' = IF c = Ours("p2") /\ ntfsMp = d THEN Unmounted ELSE ntfsMp
        /\ UNCHANGED <<stage, dirs>>
    BY <1>2 DEF HostUnmount, ExternalUnmount, SessionIdle
  <2>2. OursAreMounts'
    BY <1>0, <2>1 DEF MountInv, OursAreMounts
  <2> QED
    BY <2>1, <2>2 DEF MountInv, NotYetMounted
<1>3. ASSUME NEW n \in Names, HostUnplug(n)
      PROVE  OursAreMounts' /\ NotYetMounted'
  <2>1. /\ claims' = [claims EXCEPT ![at[n]] = {}]
        /\ fatMp' = IF fatMp = at[n] THEN Dead ELSE fatMp
        /\ ntfsMp' = IF ntfsMp = at[n] THEN Dead ELSE ntfsMp
        /\ at[n] \in Disks
        /\ UNCHANGED <<stage, dirs>>
    BY <1>3 DEF HostUnplug, Unplug, Present, SessionIdle, MountInv, TypeInv,
       TypeOK, HostTypeOK
  <2>2. OursAreMounts'
    BY <1>0, <2>1 DEF MountInv, OursAreMounts
  <2> QED
    BY <2>1, <2>2, ValueAssumption DEF MountInv, NotYetMounted
<1>4. ASSUME NEW d \in Disks, NEW p \in {"p1", "p2"}, Writeback(d, p)
      PROVE  OursAreMounts' /\ NotYetMounted'
  <2>1. /\ claims' = [claims EXCEPT ![d] = @ \ {[place |-> p, kind |-> "syncing"]}]
        /\ UNCHANGED <<stage, fatMp, ntfsMp, dirs>>
    BY <1>4 DEF Writeback, SessionIdle, mountVars
  <2> QED
    BY <1>0, <2>1 DEF MountInv, OursAreMounts, NotYetMounted
<1>5. CASE Crash
  <2>1. \A d \in Disks : \A c \in claims'[d] : c.kind # "ours"
    BY <1>0, <1>5 DEF Crash, Claim
  <2> QED
    BY <1>5, <2>1 DEF Crash, Renewed, OursAreMounts, NotYetMounted
<1>6. CASE \/ \E n \in Names, d \in Disks : HostPlug(n, d)
           \/ NodesAppear
           \/ \E i \in ISOs : RemoveIso(i)
  <2>1. UNCHANGED <<claims, stage, fatMp, ntfsMp, dirs>>
    BY <1>6 DEF HostPlug, Plug, NodesAppear, RemoveIso, SessionIdle, mountVars,
       hostVars
  <2> QED
    BY <2>1 DEF MountInv, OursAreMounts, NotYetMounted
<1> QED
  BY <1>1, <1>2, <1>3, <1>4, <1>5, <1>6 DEF Environment, Machine

LEMMA MountInvStep == MountInv /\ [Next]_vars => MountInv'
<1> SUFFICES ASSUME MountInv, [Next]_vars PROVE MountInv'
  OBVIOUS
<1>1. TypeInv'
  BY TypeInvStep DEF MountInv
<1>2. CASE UNCHANGED vars
  BY <1>1, <1>2 DEF vars, MountInv, OursAreMounts, NotYetMounted
<1>3. CASE Next
  BY <1>1, <1>3, CallerMounts, ExecuteKeepsMounts, EnvironmentKeepsMounts
  DEF Next, MountInv
<1> QED
  BY <1>2, <1>3

LEMMA MountInit == Init => MountInv
<1> SUFFICES ASSUME Init PROVE MountInv
  OBVIOUS
<1>1. TypeInv
  BY InitTypeOK DEF Init, NewSession, TypeInv, DeviceKnown
<1>2. OursAreMounts
  BY HostAssumption DEF Init, HostInit, OursAreMounts
<1> QED
  BY <1>1, <1>2 DEF Init, NewSession, NotYetMounted, MountInv

\* Outside execute the session has no mount, so no claim of its own.
LEMMA MountsEnd == MountInv => CleanupComplete
<1> SUFFICES ASSUME MountInv, stage = "idle"
             PROVE  /\ fatMp = Unmounted /\ ntfsMp = Unmounted /\ dirs # "empty"
                    /\ \A d \in Disks : ~HasKind(d, {"ours"})
  BY DEF CleanupComplete
<1>1. fatMp = Unmounted /\ ntfsMp = Unmounted /\ dirs # "empty"
  BY DEF MountInv, NotYetMounted, BeforeMounts
<1> QED
  BY <1>1, ValueAssumption DEF MountInv, OursAreMounts, HasKind

\* However execute ends by itself, nothing of the session's stays mounted and no
\* empty directory stays behind; what a kill leaves belongs to no session
\* (session.c:731-746, mount_ops.c:119-148).
THEOREM CleanupHolds == Spec => []CleanupComplete
BY MountsEnd, MountInit, MountInvStep, PTL DEF Spec

-----------------------------------------------------------------------------
(* A completed session, on a machine whose disks stay plugged in.          *)

\* After the extraction the mounted disk holds a whole image: only the boot
\* set-up still changes it, and no mount dies.
AfterExtraction == {"customize", "boot", "loader", "syncfat", "syncntfs", "unmount"}

Whole == {"extracted", "setup"}

WholeMounted ==
  /\ ntfsMp # Dead
  /\ stage \in AfterExtraction /\ ntfsMp \in Disks => content[ntfsMp] \in Whole

WholeInv == TypeInv /\ WholeMounted

\* The steps of execute from the extraction on keep a whole image whole.
LEMMA ExecuteKeepsWhole == WholeInv /\ ExecuteStep => WholeMounted'
<1> SUFFICES ASSUME WholeInv, ExecuteStep PROVE WholeMounted'
  OBVIOUS
<1>0. /\ content \in [Disks -> Contents]
      /\ at \in [Names -> Disks \union {NoDisk}]
      /\ stage # "idle" => selected \in Names
  BY DEF WholeInv, TypeInv, TypeOK, HostTypeOK, DeviceKnown
<1>1. CASE ExtractEntry \/ ExtractEnd
  BY <1>0, <1>1 DEF ExtractEntry, ExtractEnd, InExtract, AfterExtract, At, Goto,
     Fail, Overwrite, WholeInv, WholeMounted, AfterExtraction, Whole
<1>2. CASE BootSetup
  <2>1. stage = "boot" /\ ntfsMp' = ntfsMp
    BY <1>2 DEF BootSetup, At
  <2>2. content' = content \/ content' = [content EXCEPT ![ntfsMp] = "setup"]
    BY <1>2 DEF BootSetup, Overwrite
  <2> QED
    BY <1>0, <2>1, <2>2 DEF WholeInv, WholeMounted, AfterExtraction, Whole
<1>3. CASE MountNtfs
  BY <1>0, <1>3, ValueAssumption DEF MountNtfs, CanMount, Present, At, Goto, Fail,
     WholeInv, WholeMounted, AfterExtraction
<1>4. CASE Customize \/ InstallLoader \/ SyncFat \/ SyncNtfs
  BY <1>4 DEF Customize, InstallLoader, SyncFat, SyncNtfs, Sync, At, mountVars,
     WholeInv, WholeMounted, AfterExtraction
<1>5. CASE Unmount \/ Cleanup
  <2>1. ntfsMp' = Unmounted
    BY <1>5 DEF Unmount, Cleanup, UnmountAll
  <2> QED
    BY <2>1, ValueAssumption DEF WholeMounted, Unmounted, Dead
<1>6. CASE ~(\/ ExtractEntry \/ ExtractEnd \/ BootSetup \/ MountNtfs \/ Customize
             \/ InstallLoader \/ SyncFat \/ SyncNtfs \/ Unmount \/ Cleanup)
  <2>1. ntfsMp' = ntfsMp /\ stage' \notin AfterExtraction
    BY <1>6 DEF ExecuteStep, Validate, MountCheck, WipeGuard, Commit, AwaitNodes,
       FormatFat, FormatNtfs, Format, CreateDirs, MountFat, Quiet, At, Goto,
       Fail, mountVars, AfterExtraction
  <2> QED
    BY <2>1 DEF WholeInv, WholeMounted
<1> QED
  BY <1>1, <1>2, <1>3, <1>4, <1>5, <1>6 DEF ExecuteStep

\* Without plugging, the machine changes no contents and kills no mount.
LEMMA StableEnvironment ==
  ASSUME HotPlug = FALSE, Environment
  PROVE  /\ UNCHANGED content
         /\ ntfsMp' \in {ntfsMp, Unmounted}
         /\ \/ UNCHANGED <<state, stage>>
            \/ stage # "idle" /\ stage' = "idle" /\ state' = "CREATED"
  BY DEF Environment, Machine, HostAutoMount, HostUnmount, HostUnplug, Unplug,
     HostPlug, Plug, NodesAppear, Writeback, RemoveIso, Crash, Renewed,
     SessionIdle, mountVars, diskVars

\* What the caller does to a session: it moves on outside execute, starts
\* execute, or sets the cancel flag.
LEMMA CallerMoves ==
  ASSUME Caller
  PROVE  /\ UNCHANGED content
         /\ ntfsMp' \in {ntfsMp, Unmounted}
         /\ \/ UNCHANGED <<state, stage>>
            \/ /\ stage = "idle" /\ stage' = "idle"
               /\ state' # "COMPLETED"
            \/ /\ stage = "idle" /\ state = "PREPARED"
               /\ stage' = "validate" /\ state' = "EXECUTING"
  BY DEF Caller, EnumerateDevices, LoadIso, SelectDevice, Prepare,
     ExecuteRefused, ExecuteStart, Renew, Renewed, Cancel, Call, Enter, Refuse,
     mountVars, diskVars

LEMMA WholeInvStep == HotPlug = FALSE /\ WholeInv /\ [Next]_vars => WholeInv'
<1> SUFFICES ASSUME HotPlug = FALSE, WholeInv, [Next]_vars PROVE WholeInv'
  OBVIOUS
<1>1. TypeInv'
  BY TypeInvStep DEF WholeInv
<1>2. CASE Caller
  BY <1>1, <1>2, CallerMoves, ValueAssumption
  DEF WholeInv, WholeMounted, AfterExtraction, Dead, Unmounted
<1>3. CASE ExecuteStep
  BY <1>1, <1>3, ExecuteKeepsWhole DEF WholeInv
<1>4. CASE Environment
  BY <1>1, <1>4, StableEnvironment, ValueAssumption
  DEF WholeInv, WholeMounted, AfterExtraction, Dead, Unmounted
<1>5. CASE UNCHANGED vars
  BY <1>1, <1>5 DEF vars, WholeInv, WholeMounted
<1> QED
  BY <1>2, <1>3, <1>4, <1>5 DEF Next

LEMMA WholeInvInit == Init => WholeInv
<1> SUFFICES ASSUME Init PROVE WholeInv
  OBVIOUS
<1>1. TypeInv
  BY InitTypeOK DEF Init, NewSession, TypeInv, DeviceKnown
<1> QED
  BY <1>1 DEF Init, NewSession, WholeInv, WholeMounted, AfterExtraction, Dead,
     Unmounted

\* execute's last step completes it, if both mounts are there to be unmounted.
LEMMA ExecuteEnds ==
  ASSUME ExecuteStep
  PROVE  /\ stage # "idle"
         /\ stage' = "idle" \/ state' # "COMPLETED" \/ state = "COMPLETED"
         /\ stage' = "idle" =>
              /\ UNCHANGED content
              /\ \/ state' = "ERROR"
                 \/ stage = "unmount" /\ ntfsMp # Unmounted /\ state' = "COMPLETED"
  BY DEF ExecuteStep, Validate, MountCheck, WipeGuard, Commit, AwaitNodes,
     FormatFat, FormatNtfs, Format, CreateDirs, MountFat, MountNtfs,
     ExtractEntry, ExtractEnd, InExtract, AfterExtract, Customize, BootSetup,
     InstallLoader, SyncFat, SyncNtfs, Sync, Unmount, UnmountAll, Cleanup, At,
     Goto, Fail

\* At that step the image is whole.
LEMMA CompletedIsWhole ==
  ASSUME WholeInv, ExecuteStep, stage' = "idle", state' = "COMPLETED"
  PROVE  ntfsMp \in Disks /\ content[ntfsMp] \in Whole
<1>1. stage = "unmount" /\ ntfsMp # Unmounted
  BY ExecuteEnds
<1>2. ntfsMp \in Disks
  BY <1>1 DEF WholeInv, WholeMounted, TypeInv, TypeOK
<1> QED
  BY <1>1, <1>2 DEF WholeInv, WholeMounted, AfterExtraction

\* Where disks stay plugged in, COMPLETED is reached only with the whole image
\* on the disk that was mounted, whatever is mounted and unmounted meanwhile
\* (session.c:731-740).
THEOREM CompletedHolds == HotPlug = FALSE => (Spec => CompletedMeansWritten)
<1> SUFFICES ASSUME HotPlug = FALSE PROVE Spec => CompletedMeansWritten
  OBVIOUS
<1>1. WholeInv /\ [Next]_vars =>
        [state' = "COMPLETED" /\ state # "COMPLETED" =>
           /\ ntfsMp \in Disks
           /\ content[ntfsMp] \in {"extracted", "setup"}]_vars
  <2> SUFFICES ASSUME WholeInv, Next, state' = "COMPLETED", state # "COMPLETED"
               PROVE  ntfsMp \in Disks /\ content[ntfsMp] \in Whole
    BY DEF Whole
  <2>1. ~Caller
    BY CallerMoves
  <2>2. ~Environment
    BY StableEnvironment
  <2> QED
    BY <2>1, <2>2, ExecuteEnds, CompletedIsWhole DEF Next
<1>2. WholeInv /\ [Next]_vars => WholeInv'
  BY WholeInvStep
<1> QED
  BY <1>1, <1>2, WholeInvInit, PTL DEF Spec, CompletedMeansWritten

-----------------------------------------------------------------------------
(* The session implements the write job.                                   *)

\* A step of execute overwrites one disk at most: the one at the selected name
\* or the one mounted, which is none of the system's.
LEMMA ExecuteOverwrites ==
  ASSUME SafetyInv, ExecuteStep, content' # content
  PROVE  \E d \in Disks \ SystemDisks, c \in Contents :
           content' = [content EXCEPT ![d] = c]
<1>0. /\ at \in [Names -> Disks \union {NoDisk}]
      /\ selected \in Names
      /\ content \in [Disks -> Contents]
      /\ fatMp \notin SystemDisks /\ ntfsMp \notin SystemDisks
  BY ExecuteFrame DEF SafetyInv, TypeOK, HostTypeOK, DeviceKnown, MountsFree
<1>1. CASE Commit \/ FormatFat \/ FormatNtfs
  <2>1. stage \in Touching
    BY <1>1 DEF Commit, FormatFat, FormatNtfs, At, Touching, Stages
  <2>2. at[selected] \in Disks \ SystemDisks /\ "wiped" \in Contents
    BY <1>0, <1>1, <2>1 DEF Commit, FormatFat, FormatNtfs, Format, CanFormat,
       Present, SafetyInv, TargetFree, Contents
  <2>3. content' = [content EXCEPT ![at[selected]] = "wiped"]
    BY <1>1, <2>2 DEF Commit, FormatFat, FormatNtfs, Format, Overwrite
  <2> QED
    BY <2>2, <2>3
<1>2. CASE ExtractEntry \/ ExtractEnd \/ BootSetup
  <2>1. \E c \in Contents : Overwrite(ntfsMp, c)
    BY <1>2 DEF ExtractEntry, ExtractEnd, BootSetup, Contents
  <2> QED
    BY <1>0, <2>1 DEF Overwrite
<1>3. CASE ~(\/ Commit \/ FormatFat \/ FormatNtfs \/ ExtractEntry \/ ExtractEnd
             \/ BootSetup)
  BY <1>3 DEF ExecuteStep, Validate, MountCheck, WipeGuard, AwaitNodes,
     CreateDirs, MountFat, MountNtfs, Customize, InstallLoader, SyncFat,
     SyncNtfs, Sync, Unmount, Cleanup, UnmountAll, Quiet, diskVars
<1> QED
  BY <1>1, <1>2, <1>3

JobInv == SafetyInv /\ WholeInv

\* At the start the job is open and no disk is overwritten.
LEMMA JobInit == Init => W!Init
<1> SUFFICES ASSUME Init PROVE W!Init
  OBVIOUS
<1>1. content \in [Disks -> Contents]
  BY DEF Init, Contents
<1>2. Job = "open"
  BY DEF Init, NewSession, Job
<1> QED
  BY <1>1, <1>2 DEF W!Init, SystemDisks

\* A call outside execute makes the job ready or withdraws it; execute begins it.
LEMMA CallerJob ==
  ASSUME Caller, SystemDisks' = SystemDisks
  PROVE  [W!Next]_(W!vars)
<1>1. UNCHANGED content
  BY CallerMoves
<1>2. CASE UNCHANGED <<state, stage>>
  BY <1>1, <1>2 DEF Job, W!vars
<1>3. CASE stage = "idle" /\ stage' = "idle" /\ state' # "COMPLETED"
  <2>1. Job # "writing" /\ Job' \in {"ready", "open"}
    BY <1>3 DEF Job
  <2> QED
    BY <1>1, <2>1 DEF W!Next, W!Ready, W!Withdraw
<1>4. CASE /\ stage = "idle" /\ state = "PREPARED"
           /\ stage' = "validate" /\ state' = "EXECUTING"
  <2>1. Job = "ready" /\ Job' = "writing"
    BY <1>4 DEF Job
  <2> QED
    BY <1>1, <2>1 DEF W!Next, W!Begin
<1> QED
  BY <1>2, <1>3, <1>4, CallerMoves

\* A step of execute overwrites a disk of nobody's, ends the job, or is none.
LEMMA ExecuteJob ==
  ASSUME JobInv, ExecuteStep, SystemDisks' = SystemDisks
  PROVE  [W!Next]_(W!vars)
<1>1. Job = "writing"
  BY ExecuteEnds DEF Job
<1>2. CASE stage' # "idle"
  <2>1. Job' = Job
    BY <1>1, <1>2 DEF Job
  <2>2. CASE content' = content
    BY <2>1, <2>2 DEF W!vars
  <2>3. CASE content' # content
    BY <1>1, <2>1, <2>3, ExecuteOverwrites DEF JobInv, W!Next, W!Overwrite
  <2> QED
    BY <2>2, <2>3
<1>3. CASE stage' = "idle" /\ state' = "ERROR"
  <2>1. Job' = "open" /\ content' = content
    BY <1>3, ExecuteEnds DEF Job
  <2> QED
    BY <1>1, <2>1 DEF W!Next, W!End, W!Abandon
<1>4. CASE stage' = "idle" /\ state' = "COMPLETED"
  <2>1. Job' = "done" /\ content' = content
    BY <1>4, ExecuteEnds DEF Job
  <2>2. ntfsMp \in Disks \ SystemDisks /\ content[ntfsMp] \in Whole
    BY <1>4, CompletedIsWhole DEF JobInv, SafetyInv, MountsFree
  <2> QED
    BY <1>1, <2>1, <2>2 DEF W!Next, W!End, W!Complete, Whole
<1> QED
  BY <1>2, <1>3, <1>4, ExecuteEnds

\* The machine does nothing to a job but end it by a kill.
LEMMA EnvironmentJob ==
  ASSUME HotPlug = FALSE, Environment, SystemDisks' = SystemDisks
  PROVE  [W!Next]_(W!vars)
<1>1. UNCHANGED content
  BY StableEnvironment
<1>2. CASE UNCHANGED <<state, stage>>
  BY <1>1, <1>2 DEF Job, W!vars
<1>3. CASE stage # "idle" /\ stage' = "idle" /\ state' = "CREATED"
  <2>1. Job = "writing" /\ Job' = "open"
    BY <1>3 DEF Job
  <2> QED
    BY <1>1, <2>1 DEF W!Next, W!End, W!Abandon
<1> QED
  BY <1>2, <1>3, StableEnvironment

\* Where disks stay plugged in, every run of a session is one of a write job, as
\* far as safety goes: the initial states and the steps of ImplementsWriteJob
\* (session.c:469-749).
THEOREM SessionIsWriteJob ==
  HotPlug = FALSE => (Spec => W!Init /\ [][W!Next]_(W!vars))
<1> SUFFICES ASSUME HotPlug = FALSE PROVE Spec => W!Init /\ [][W!Next]_(W!vars)
  OBVIOUS
<1>1. Init => JobInv
  BY InitSafetyInv, WholeInvInit DEF JobInv
<1>2. JobInv /\ [Next]_vars => JobInv'
  BY SafetyInvStep, WholeInvStep DEF JobInv
<1>3. JobInv /\ [Next]_vars => [W!Next]_(W!vars)
  <2> SUFFICES ASSUME JobInv, [Next]_vars PROVE [W!Next]_(W!vars)
    OBVIOUS
  <2>1. SystemDisks' = SystemDisks
    BY SystemKeptStep DEF JobInv, WholeInv, SystemKept, SystemDisks
  <2>2. CASE UNCHANGED vars
    BY <2>1, <2>2 DEF vars, Job, W!vars
  <2> QED
    BY <2>1, <2>2, CallerJob, ExecuteJob, EnvironmentJob DEF Next
<1> QED
  BY <1>1, <1>2, <1>3, JobInit, PTL DEF Spec

=============================================================================
