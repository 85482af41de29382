------------------------------ MODULE CliProofs ------------------------------
(***************************************************************************)
(* Theorems about the command line.  Its runs are runs of a session, which *)
(* brings it what SessionProofs proves of those; that it writes only with  *)
(* consent, to the disk meant, and ends with a true exit status are        *)
(* invariants of its own.                                                  *)
(***************************************************************************)
EXTENDS Cli, SessionProofs

\* What cli_main does is a call of the session's, a step of execute, or nothing
\* the session sees.
LEMMA CliStepIsSessionStep ==
  ASSUME CliTypeOK, CliStep
  PROVE  Next \/ UNCHANGED vars
<1>1. LoadImage => Caller
  BY DEF LoadImage, Caller, From, CliTypeOK, HasImage
<1>2. SelectTarget => Caller
  BY DEF SelectTarget, Caller, From, CliTypeOK, HasDevice
<1>3. ListDrives \/ LookUpCapacity \/ PrepareWrite \/ StartWrite \/ Quit => Caller
  BY DEF ListDrives, LookUpCapacity, PrepareWrite, StartWrite, Quit, Caller
<1>4. AskDevice => Caller \/ UNCHANGED vars
  BY DEF AskDevice, Caller
<1>5. ParseOptions \/ CreateSession \/ AskIso \/ PickDevice \/ Confirm
        => UNCHANGED vars
  BY DEF ParseOptions, CreateSession, AskIso, PickDevice, Confirm
<1>6. WriteStep => ExecuteStep
  BY DEF WriteStep
<1> QED
  BY <1>1, <1>2, <1>3, <1>4, <1>5, <1>6 DEF CliStep, Next

\* So is every step there is: a kill ends the session, or the process in the
\* middle of execute, and the machine's steps are those of Session.
LEMMA CliNextIsSessionNext ==
  ASSUME CliTypeOK, [CliNext]_allVars
  PROVE  [Next]_vars
<1>1. Killed => Next
  BY DEF Killed, Next, Caller, Environment
<1>2. Surroundings => Next
  BY DEF Surroundings, Next, Environment
<1>3. Ended \/ UNCHANGED allVars => UNCHANGED vars
  BY DEF Ended, allVars
<1> QED
  BY <1>1, <1>2, <1>3, CliStepIsSessionStep DEF CliNext

\* What the machine does leaves the caller's part of the session alone.
LEMMA MachineKeepsSession ==
  ASSUME Machine
  PROVE  UNCHANGED <<state, stage, selected, isRoot, runs>>
  BY DEF Machine, HostAutoMount, AutoMount, HostUnmount, ExternalUnmount,
     HostUnplug, Unplug, HostPlug, Plug, NodesAppear, Writeback, RemoveIso,
     Event, SessionIdle, apiVars, boundVars, hostVars

-----------------------------------------------------------------------------
(* Types.                                                                  *)

\* The session the command line drives keeps to its types, and execute works
\* on a name.
CliInv == CliTypeOK /\ SafetyInv

LEMMA CliInitInv == CliInit => CliInv
<1> SUFFICES ASSUME CliInit PROVE CliInv
  OBVIOUS
<1>1. SafetyInv
  BY InitSafetyInv DEF CliInit
<1>2. at \in [Names -> Disks \union {NoDisk}] /\ stage = "idle"
  BY <1>1 DEF CliInit, Init, NewSession, SafetyInv, TypeOK, HostTypeOK
<1>3. CliTypeOK
  BY <1>2 DEF CliInit, CliTypeOK, HasImage, HasDevice, Given, Options
<1> QED
  BY <1>1, <1>3 DEF CliInv

LEMMA CliStepTypeOK ==
  ASSUME TypeOK, CliTypeOK, CliStep
  PROVE  CliTypeOK'
<1> USE DEF CliTypeOK, HasImage, HasDevice, From, Keeps, Goes, Leave
<1>1. ASSUME ParseOptions PROVE CliTypeOK'
  BY <1>1 DEF ParseOptions, vars
<1>2. ASSUME CreateSession PROVE CliTypeOK'
  BY <1>2 DEF CreateSession, vars
<1>3. ASSUME ListDrives PROVE CliTypeOK'
  BY <1>3 DEF ListDrives, EnumerateDevices, Call
<1>4. ASSUME AskIso PROVE CliTypeOK'
  BY <1>4 DEF AskIso, vars, Given, Options, TypeOK
<1>5. ASSUME LoadImage PROVE CliTypeOK'
  BY <1>5 DEF LoadImage, LoadIso, Call, GoesUnlessError
<1>6. ASSUME AskDevice PROVE CliTypeOK'
  BY <1>6 DEF AskDevice, EnumerateDevices, Call, vars, Given, Options
<1>7. ASSUME PickDevice PROVE CliTypeOK'
  BY <1>7 DEF PickDevice, vars, TypeOK, Listed
<1>8. ASSUME LookUpCapacity PROVE CliTypeOK'
  BY <1>8 DEF LookUpCapacity, EnumerateDevices, Call
<1>9. ASSUME SelectTarget PROVE CliTypeOK'
  BY <1>9 DEF SelectTarget, SelectDevice, Call, GoesUnlessError
<1>10. ASSUME Confirm PROVE CliTypeOK'
  BY <1>10 DEF Confirm, vars
<1>11. ASSUME PrepareWrite PROVE CliTypeOK'
  BY <1>11 DEF PrepareWrite, Prepare, Call, GoesUnlessError
<1>12. ASSUME StartWrite PROVE CliTypeOK'
  BY <1>12 DEF StartWrite
<1>13. ASSUME WriteStep PROVE CliTypeOK'
  BY <1>13 DEF WriteStep
<1>14. ASSUME Quit PROVE CliTypeOK'
  BY <1>14 DEF Quit, Renew, Renewed
<1> QED
  BY <1>1, <1>2, <1>3, <1>4, <1>5, <1>6, <1>7, <1>8, <1>9, <1>10, <1>11, <1>12,
     <1>13, <1>14 DEF CliStep

LEMMA CliInvStep == CliInv /\ [CliNext]_allVars => CliInv'
<1> SUFFICES ASSUME CliInv, [CliNext]_allVars PROVE CliInv'
  OBVIOUS
<1>1. SafetyInv'
  BY CliNextIsSessionNext, SafetyInvStep DEF CliInv
<1>2. ASSUME CliStep PROVE CliTypeOK'
  BY <1>2, CliStepTypeOK DEF CliInv, SafetyInv
<1>3. ASSUME Killed PROVE CliTypeOK'
  BY <1>3 DEF Killed, Crash, Renew, Renewed, CliInv, CliTypeOK, HasImage,
     HasDevice
<1>4. ASSUME Surroundings PROVE CliTypeOK'
  BY <1>4, MachineKeepsSession DEF Surroundings, cliVars, CliInv, CliTypeOK,
     HasImage, HasDevice
<1>5. ASSUME UNCHANGED allVars PROVE CliTypeOK'
  BY <1>5 DEF allVars, vars, cliVars, CliInv, CliTypeOK, HasImage, HasDevice
<1> QED
  BY <1>1, <1>2, <1>3, <1>4, <1>5 DEF CliNext, Ended, CliInv

\* Every variable of the command line keeps to its type, and no NULL path is
\* handed to the session, for any options, disks and images.
THEOREM CliTypeCorrect == CliSpec => []CliTypeOK
<1>1. CliInv => CliTypeOK
  BY DEF CliInv
<1> QED
  BY <1>1, CliInitInv, CliInvStep, PTL DEF CliSpec

-----------------------------------------------------------------------------
(* The command line as a session.                                          *)

\* The command line implements a session: whatever is proved of every step of
\* a session holds of it.
THEOREM CliIsSession == CliSpec => Init /\ [][Next]_vars
<1>1. CliInit => Init
  BY DEF CliInit
<1>2. CliInv /\ [CliNext]_allVars => [Next]_vars
  BY CliNextIsSessionNext DEF CliInv
<1> QED
  BY <1>1, <1>2, CliInitInv, CliInvStep, PTL DEF CliSpec

\* No option and no answer makes the command line overwrite a disk the system
\* runs from.
THEOREM CliSystemDiskSafe == CliSpec => []SystemDiskIntact
<1>1. CliInv => SystemDiskIntact
  BY DEF CliInv, SafetyInv
<1> QED
  BY <1>1, CliInitInv, CliInvStep, PTL DEF CliSpec

\* Whatever was asked for, answered or refused, and however cli_main ends, its
\* session has nothing mounted once execute has come back (cli.c:428-448,
\* session.c:731-746).
THEOREM CliCleanupHolds == CliSpec => []CleanupComplete
<1>1. MountInv => CleanupComplete
  BY MountsEnd
<1> QED
  BY <1>1, CliIsSession, MountInit, MountInvStep, PTL

\* However cli_main is asked and answered, execute works on the image, the name
\* and the list that its prepare found in order, also when the list was read
\* again after the device was picked (cli.c:371-420).
THEOREM CliCheckedHolds == CliSpec => WrittenIsChecked
BY CliIsSession, ImageInit, ImageInvStep, PTL DEF WrittenIsChecked

-----------------------------------------------------------------------------
(* Consent.                                                                *)

Consented ==
  /\ isRoot /\ opts.dangerous /\ ~opts.list /\ opts.other = "none"
  /\ yes \/ ~Interactive

Untouched ==
  dirty = {} /\ \A d \in Disks : content[d] = "original"

\* Until cli_main has passed each of its refusals and the question, no disk was
\* touched, and what was found out on the way stays so.
ConsentInv ==
  /\ Untouched \/ Consented
  /\ pc \in {"prepare", "execute", "writing"} => Consented
  /\ pc \notin {"writing", "quit", "ended"} => Untouched
  /\ pc \notin {"parse", "ended"} => opts.other = "none"
  /\ pc \notin {"parse", "create", "list", "quit", "ended"} => isRoot /\ ~opts.list

\* A call of the session's other than execute writes to no disk.
LEMMA CallsTouchNothing ==
  ASSUME \/ EnumerateDevices \/ Prepare \/ Renew \/ ExecuteStart
         \/ \E i \in ISOs : LoadIso(i)
         \/ \E n \in Names : SelectDevice(n)
  PROVE  UNCHANGED <<content, dirty, isRoot>>
  BY DEF EnumerateDevices, Prepare, Renew, ExecuteStart, LoadIso, SelectDevice,
     Call, hostVars, diskVars

\* Pulling out a disk tears only one that was written to.
LEMMA MachineTouchesDirty ==
  ASSUME Machine
  PROVE  Untouched => Untouched'
<1>1. ASSUME Untouched, NEW n \in Names, HostUnplug(n) PROVE Untouched'
  BY <1>1 DEF HostUnplug, Untouched
<1> QED
  BY <1>1 DEF Machine, HostAutoMount, HostUnmount, HostPlug, NodesAppear,
     Writeback, RemoveIso, diskVars, Untouched

LEMMA ConsentInit == CliInit => ConsentInv
<1> SUFFICES ASSUME CliInit PROVE ConsentInv
  OBVIOUS
<1>1. Untouched /\ pc = "parse"
  BY DEF CliInit, Init, Untouched
<1> QED
  BY <1>1 DEF ConsentInv

LEMMA CliStepConsent ==
  ASSUME CliTypeOK, ConsentInv, CliStep
  PROVE  ConsentInv'
<1> USE DEF ConsentInv, From, Goes, Leave
<1>1. CASE ParseOptions
  BY <1>1 DEF ParseOptions, Keeps, vars, Untouched, Consented, Interactive
<1>2. CASE CreateSession
  BY <1>2 DEF CreateSession, Keeps, vars, Untouched, Consented, Interactive
<1>3. CASE ListDrives
  BY <1>3, CallsTouchNothing DEF ListDrives, Keeps, Untouched, Consented,
     Interactive
<1>4. CASE AskIso
  BY <1>4 DEF AskIso, vars, Untouched, Consented, Interactive
<1>5. CASE LoadImage
  <2>1. UNCHANGED <<content, dirty, isRoot>>
    BY <1>5, CallsTouchNothing DEF LoadImage, CliTypeOK, HasImage
  <2> QED
    BY <1>5, <2>1 DEF LoadImage, GoesUnlessError, Keeps, Untouched, Consented,
       Interactive
<1>6. CASE AskDevice
  <2>1. UNCHANGED <<content, dirty, isRoot>>
    BY <1>6, CallsTouchNothing DEF AskDevice, vars
  <2> QED
    BY <1>6, <2>1 DEF AskDevice, Untouched, Consented, Interactive
<1>7. CASE PickDevice
  BY <1>7 DEF PickDevice, vars, Untouched, Consented, Interactive
<1>8. CASE LookUpCapacity
  BY <1>8, CallsTouchNothing DEF LookUpCapacity, Keeps, Untouched, Consented,
     Interactive
<1>9. CASE SelectTarget
  <2>1. UNCHANGED <<content, dirty, isRoot>>
    BY <1>9, CallsTouchNothing DEF SelectTarget, CliTypeOK, HasDevice
  <2> QED
    BY <1>9, <2>1 DEF SelectTarget, GoesUnlessError, Keeps, Untouched,
       Consented, Interactive
<1>10. CASE Confirm
  BY <1>10 DEF Confirm, vars, Untouched, Consented, Interactive, Asks
<1>11. CASE PrepareWrite
  BY <1>11, CallsTouchNothing DEF PrepareWrite, GoesUnlessError, Keeps,
     Untouched, Consented, Interactive
<1>12. CASE StartWrite
  BY <1>12, CallsTouchNothing DEF StartWrite, Keeps, Untouched, Consented,
     Interactive
<1>13. CASE WriteStep
  <2>1. isRoot' = isRoot
    BY <1>13, ExecuteFrame DEF WriteStep
  <2> QED
    BY <1>13, <2>1 DEF WriteStep, Keeps, Consented, Interactive
<1>14. CASE Quit
  BY <1>14, CallsTouchNothing DEF Quit, Keeps, Untouched, Consented, Interactive
<1> QED
  BY <1>1, <1>2, <1>3, <1>4, <1>5, <1>6, <1>7, <1>8, <1>9, <1>10, <1>11, <1>12,
     <1>13, <1>14 DEF CliStep

LEMMA ConsentStep == CliInv /\ ConsentInv /\ [CliNext]_allVars => ConsentInv'
<1> SUFFICES ASSUME CliInv, ConsentInv, [CliNext]_allVars PROVE ConsentInv'
  OBVIOUS
<1>1. CASE CliStep
  BY <1>1, CliStepConsent DEF CliInv
<1>2. CASE Killed
  <2>1. UNCHANGED <<content, dirty, isRoot>>
    BY <1>2 DEF Killed, Crash, Renew, hostVars, diskVars
  <2> QED
    BY <1>2, <2>1 DEF Killed, ConsentInv, Untouched, Consented, Interactive
<1>3. CASE Surroundings
  BY <1>3, MachineKeepsSession, MachineTouchesDirty
  DEF Surroundings, cliVars, ConsentInv, Consented, Interactive
<1>4. CASE UNCHANGED allVars
  BY <1>4 DEF allVars, vars, cliVars, ConsentInv, Untouched, Consented,
     Interactive
<1> QED
  BY <1>1, <1>2, <1>3, <1>4 DEF CliNext, Ended

\* No disk is written to without the options, the right and the consent it
\* takes, for any disks, images and host.
THEOREM ConsentHolds == CliSpec => []ConsentFirst
<1>1. ConsentInv => ConsentFirst
  BY DEF ConsentInv, ConsentFirst, Untouched, Consented
<1> QED
  BY <1>1, CliInitInv, CliInvStep, ConsentInit, ConsentStep, PTL DEF CliSpec

-----------------------------------------------------------------------------
(* The disk that is meant, where disks stay plugged in.                    *)

\* From the entry picked or the name given to the device that is selected, and
\* from there to what is mounted and written, it is one disk.
MeantInv ==
  /\ Given(opts.device, NoDevice) => meant = at[opts.device]
  /\ pc = "pick" => devices = at /\ ~Given(opts.device, NoDevice)
  /\ HasDevice => meant = at[devPath]
  /\ pc \in {"confirm", "prepare", "execute", "writing"} => selected = devPath
  /\ ntfsMp \in {Unmounted, meant}
  /\ MeantIsWritten

\* What is true of the exit status, and of the way to it.
TruthInv ==
  /\ pc \notin {"quit", "ended"} => status = "none"
  /\ pc = "list" => opts.list
  /\ pc = "writing" => runs # 0
  /\ pc \notin {"writing", "quit", "ended"} => runs = 0
  /\ runs = 0 => Untouched
  /\ ExitTellsTruth

\* Everything that is known of a run of the command line on such a machine.
StableInv ==
  /\ CliInv /\ ConsentInv /\ MountInv /\ WholeInv
  /\ MeantInv /\ TruthInv

\* A call of the session's other than execute.
LEMMA CallsFrame ==
  ASSUME \/ EnumerateDevices \/ Prepare \/ Renew
         \/ \E i \in ISOs : LoadIso(i)
         \/ \E n \in Names : SelectDevice(n)
  PROVE  /\ UNCHANGED <<at, content, dirty, isRoot, runs>>
         /\ ntfsMp' \in {ntfsMp, Unmounted}
         /\ stage' = stage \/ stage' = "idle"
  BY DEF EnumerateDevices, Prepare, Renew, Renewed, LoadIso, SelectDevice, Call,
     hostVars, mountVars, diskVars, boundVars

\* Without plugging, the machine leaves names and contents as they are.
LEMMA StableMachine ==
  ASSUME HotPlug = FALSE, Machine
  PROVE  /\ UNCHANGED <<at, content, devices, selected, runs>>
         /\ ntfsMp' \in {ntfsMp, Unmounted}
  BY DEF Machine, HostAutoMount, AutoMount, HostUnmount, ExternalUnmount,
     HostUnplug, Unplug, HostPlug, Plug, NodesAppear, Writeback, RemoveIso,
     Event, SessionIdle, apiVars, mountVars, diskVars, boundVars, hostVars

\* A step of execute writes to the disk that is meant and mounts no other.
LEMMA WriteStepMeant ==
  ASSUME StableInv, WriteStep
  PROVE  MeantInv'
<1>1. pc = "writing" /\ ExecuteStep /\ UNCHANGED <<opts, devPath, meant>>
  BY DEF WriteStep, From, Keeps
<1>2. /\ UNCHANGED <<at, selected>>
      /\ selected = devPath /\ at[selected] = meant
  BY <1>1, ExecuteFrame DEF StableInv, MeantInv, HasDevice
<1>3. ntfsMp' \in {Unmounted, meant}
  BY <1>1, <1>2, ExecuteMounts DEF StableInv, MeantInv
<1>4. MeantIsWritten'
  <2> SUFFICES ASSUME NEW d \in Disks, content'[d] # "original"
               PROVE  d = meant
    BY <1>1 DEF MeantIsWritten
  <2>1. CASE content'[d] = content[d]
    BY <2>1 DEF StableInv, MeantInv, MeantIsWritten
  <2>2. CASE content'[d] # content[d]
    <3>1. d = ntfsMp \/ d = at[selected]
      BY <1>1, <2>2, ExecuteWrites DEF StableInv, WholeInv
    <3> QED
      BY <1>2, <3>1, ValueAssumption DEF StableInv, MeantInv
  <2> QED
    BY <2>1, <2>2
<1> QED
  BY <1>1, <1>2, <1>3, <1>4 DEF WriteStep, Goes, Leave, StableInv, MeantInv,
     HasDevice

\* The steps of cli_main before and after execute.
LEMMA CliStepMeant ==
  ASSUME StableInv, CliStep
  PROVE  MeantInv'
<1> USE DEF StableInv, MeantInv, From, Goes, Leave, HasDevice
<1>0. stage = "idle" => ntfsMp = Unmounted
  BY DEF MountInv, NotYetMounted, BeforeMounts
<1>1. CASE ParseOptions \/ CreateSession \/ AskIso \/ Confirm
  BY <1>1 DEF ParseOptions, CreateSession, AskIso, Confirm, Keeps, vars,
     MeantIsWritten
<1>2. CASE ListDrives \/ PrepareWrite \/ Quit
  <2>1. UNCHANGED <<at, content>> /\ ntfsMp' \in {ntfsMp, Unmounted}
    BY <1>2, CallsFrame DEF ListDrives, PrepareWrite, Quit
  <2>2. PrepareWrite => selected' = selected
    BY DEF PrepareWrite, Prepare, apiVars
  <2> QED
    BY <1>2, <2>1, <2>2 DEF ListDrives, PrepareWrite, GoesUnlessError, Quit, Keeps,
       MeantIsWritten
<1>3. CASE LoadImage
  <2>1. UNCHANGED <<at, content>> /\ ntfsMp' \in {ntfsMp, Unmounted}
    BY <1>3, CallsFrame DEF LoadImage, CliInv, CliTypeOK, HasImage
  <2> QED
    BY <1>3, <2>1 DEF LoadImage, GoesUnlessError, Keeps, MeantIsWritten
<1>4. CASE AskDevice
  <2>1. CASE Given(opts.device, NoDevice)
    <3>1. devPath' = opts.device /\ UNCHANGED vars /\ UNCHANGED <<opts, meant>> /\ pc' = "lookup"
      BY <1>4, <2>1 DEF AskDevice
    <3> QED
      BY <2>1, <3>1 DEF vars, MeantIsWritten
  <2>2. CASE ~Given(opts.device, NoDevice)
    <3>1. EnumerateDevices /\ UNCHANGED <<opts, devPath, meant>>
      BY <1>4, <2>2 DEF AskDevice
    <3>2. UNCHANGED <<at, content>> /\ ntfsMp' \in {ntfsMp, Unmounted}
      BY <3>1, CallsFrame
    <3>3. pc' = "quit" \/ (pc' = "pick" /\ devices' = at)
      BY <1>4, <2>2 DEF AskDevice, EnumerateDevices, Refuse
    <3> QED
      BY <2>2, <3>1, <3>2, <3>3 DEF MeantIsWritten
  <2> QED
    BY <2>1, <2>2
<1>5. CASE PickDevice
  <2>1. pc = "pick" /\ UNCHANGED vars /\ stage = "idle"
    BY <1>5 DEF PickDevice, CliInv, CliTypeOK
  <2>2. UNCHANGED <<at, content, ntfsMp, devices, opts>>
    BY <1>5, <2>1 DEF vars, PickDevice
  <2>3. \A d \in Disks : content[d] = "original"
    BY <2>1 DEF ConsentInv, Untouched
  <2> QED
    BY <1>0, <1>5, <2>1, <2>2, <2>3 DEF PickDevice, MeantIsWritten
<1>6. CASE LookUpCapacity
  <2>1. UNCHANGED <<at, content>> /\ ntfsMp' \in {ntfsMp, Unmounted}
    BY <1>6, CallsFrame DEF LookUpCapacity
  <2> QED
    BY <1>6, <2>1 DEF LookUpCapacity, Keeps, MeantIsWritten
<1>7. CASE SelectTarget
  <2>1. devPath \in Names
    BY <1>7 DEF SelectTarget, CliInv, CliTypeOK
  <2>2. UNCHANGED <<at, content>> /\ ntfsMp' \in {ntfsMp, Unmounted}
    BY <1>7, <2>1, CallsFrame DEF SelectTarget
  <2>3. state' # "ERROR" => selected' = devPath
    BY <1>7 DEF SelectTarget, SelectDevice, Refuse
  <2> QED
    BY <1>7, <2>2, <2>3 DEF SelectTarget, GoesUnlessError, Keeps, MeantIsWritten
<1>8. CASE StartWrite
  BY <1>8 DEF StartWrite, ExecuteStart, Keeps, apiVars, hostVars, mountVars,
     diskVars, MeantIsWritten
<1>9. CASE WriteStep
  BY <1>9, WriteStepMeant
<1> QED
  BY <1>1, <1>2, <1>3, <1>4, <1>5, <1>6, <1>7, <1>8, <1>9 DEF CliStep

\* Each step of cli_main that ends the program ends it with a true status.
LEMMA CliStepTruth ==
  ASSUME StableInv, CliStep
  PROVE  TruthInv'
<1> USE DEF StableInv, TruthInv, From, Goes, Leave
<1>1. CASE ParseOptions \/ CreateSession \/ AskIso \/ PickDevice \/ Confirm
  <2>1. UNCHANGED <<content, dirty, runs, opts>> /\ runs = 0 /\ Untouched
    BY <1>1 DEF ParseOptions, CreateSession, AskIso, PickDevice, Confirm, vars
  <2>2. /\ pc' # "writing"
        /\ pc' \notin {"quit", "ended"} => status' = "none"
        /\ pc' = "list" => opts.list
        /\ status' = "ok" => opts.other = "help" \/ (Asks /\ ~yes')
    BY <1>1 DEF ParseOptions, CreateSession, AskIso, PickDevice, Confirm, Keeps
  <2> QED
    BY <2>1, <2>2 DEF Untouched, ExitTellsTruth, Asks, Interactive
<1>2. CASE \/ ListDrives \/ LoadImage \/ LookUpCapacity \/ SelectTarget
           \/ PrepareWrite \/ AskDevice
  <2>1. UNCHANGED <<content, dirty, runs, opts>> /\ runs = 0 /\ Untouched
    <3>1. UNCHANGED <<content, dirty, runs>>
      BY <1>2, CallsFrame DEF ListDrives, LoadImage, LookUpCapacity,
         SelectTarget, PrepareWrite, AskDevice, vars, CliInv, CliTypeOK,
         HasImage, HasDevice
    <3> QED
      BY <1>2, <3>1 DEF ListDrives, LoadImage, LookUpCapacity, SelectTarget,
         PrepareWrite, AskDevice
  <2>2. /\ pc' \notin {"writing", "list"}
        /\ pc' \notin {"quit", "ended"} => status' = "none"
        /\ status' = "ok" => opts.list
    BY <1>2 DEF ListDrives, LoadImage, LookUpCapacity, SelectTarget,
       PrepareWrite, AskDevice, GoesUnlessError, ConsentInv
  <2> QED
    BY <2>1, <2>2 DEF Untouched, ExitTellsTruth
<1>3. CASE StartWrite
  <2>1. runs \in Nat
    BY SessionAssumption DEF CliInv, SafetyInv, TypeOK
  <2>2. runs' = runs + 1 /\ pc' = "writing" /\ status' = "none"
    BY <1>3 DEF StartWrite, ExecuteStart
  <2> QED
    BY <2>1, <2>2 DEF ExitTellsTruth
<1>4. CASE WriteStep
  <2>1. /\ ExecuteStep /\ runs # 0 /\ runs' = runs /\ UNCHANGED <<opts, meant>>
        /\ runs' > 0 /\ pc' \in {"writing", "quit"}
        /\ pc' = "writing" => status' = "none"
        /\ status' = "ok" => stage' = "idle" /\ state' = "COMPLETED"
    <3>1. ExecuteStep => UNCHANGED boundVars
      BY DEF ExecuteStep, Validate, MountCheck, WipeGuard, Commit, AwaitNodes,
         FormatFat, FormatNtfs, Format, CreateDirs, MountFat, MountNtfs,
         ExtractEntry, ExtractEnd, InExtract, Customize, BootSetup,
         InstallLoader, SyncFat, SyncNtfs, Sync, Unmount, Cleanup, At, Step
    <3>2. runs \in Nat
      BY SessionAssumption DEF CliInv, SafetyInv, TypeOK
    <3> QED
      BY <1>4, <3>1, <3>2 DEF WriteStep, Keeps, boundVars
  <2>2. CASE status' = "ok"
    <3>1. ntfsMp \in Disks /\ content[ntfsMp] \in Whole /\ content' = content
      BY <2>1, <2>2, CompletedIsWhole, ExecuteEnds
    <3>2. ntfsMp = meant
      BY <3>1, ValueAssumption DEF MeantInv
    <3>3. ExitTellsTruth'
      BY <2>1, <3>1, <3>2 DEF ExitTellsTruth, Whole
    <3> QED
      BY <2>1, <2>2, <3>3
  <2>3. CASE status' # "ok"
    BY <2>1, <2>3 DEF ExitTellsTruth
  <2> QED
    BY <2>2, <2>3
<1>5. CASE Quit
  <2>1. UNCHANGED <<content, dirty, runs>>
    BY <1>5, CallsFrame DEF Quit
  <2> QED
    BY <1>5, <2>1 DEF Quit, Keeps, Untouched, ExitTellsTruth, Asks, Interactive
<1> QED
  BY <1>1, <1>2, <1>3, <1>4, <1>5 DEF CliStep

\* A kill and what the machine does change neither the disk meant nor the truth
\* of what was told.
LEMMA OthersKeepTruth ==
  ASSUME HotPlug = FALSE, StableInv,
         Killed \/ Surroundings \/ UNCHANGED allVars
  PROVE  MeantInv' /\ TruthInv'
<1> USE DEF StableInv
<1>1. CASE Killed
  <2>1. /\ UNCHANGED <<at, content, dirty, runs, opts, devPath, meant>>
        /\ ntfsMp' = Unmounted /\ pc' = "ended" /\ status' = "killed"
    BY <1>1 DEF Killed, Crash, Renew, Renewed, hostVars, diskVars, boundVars
  <2> QED
    BY <2>1 DEF MeantInv, TruthInv, HasDevice, MeantIsWritten, Untouched,
       ExitTellsTruth
<1>2. CASE Surroundings
  <2>1. /\ UNCHANGED cliVars /\ UNCHANGED <<at, content, devices, selected, runs>>
        /\ ntfsMp' \in {ntfsMp, Unmounted}
        /\ Untouched => Untouched'
    BY <1>2, StableMachine, MachineTouchesDirty DEF Surroundings
  <2> QED
    BY <2>1 DEF cliVars, MeantInv, TruthInv, HasDevice, MeantIsWritten,
       ExitTellsTruth, Asks, Interactive
<1>3. CASE UNCHANGED allVars
  BY <1>3 DEF allVars, vars, cliVars, MeantInv, TruthInv, HasDevice,
     MeantIsWritten, Untouched, ExitTellsTruth, Asks, Interactive
<1> QED
  BY <1>1, <1>2, <1>3

LEMMA StableInit == CliInit => StableInv
<1> SUFFICES ASSUME CliInit PROVE StableInv
  OBVIOUS
<1>1. Init
  BY DEF CliInit
<1>2. CliInv /\ ConsentInv /\ MountInv /\ WholeInv
  BY <1>1, CliInitInv, ConsentInit, MountInit, WholeInvInit
<1>3. Untouched /\ runs = 0 /\ pc = "parse" /\ status = "none" /\ ntfsMp = Unmounted
  BY <1>1 DEF CliInit, Init, NewSession, Untouched
<1>4. Given(opts.device, NoDevice) => meant = at[opts.device]
  BY DEF CliInit
<1> QED
  BY <1>2, <1>3, <1>4 DEF StableInv, MeantInv, TruthInv, HasDevice,
     MeantIsWritten, Untouched, ExitTellsTruth

LEMMA StableStep ==
  HotPlug = FALSE /\ StableInv /\ [CliNext]_allVars => StableInv'
<1> SUFFICES ASSUME HotPlug = FALSE, StableInv, [CliNext]_allVars
             PROVE  StableInv'
  OBVIOUS
<1>1. [Next]_vars
  BY CliNextIsSessionNext DEF StableInv, CliInv
<1>2. CliInv' /\ ConsentInv' /\ MountInv' /\ WholeInv'
  BY <1>1, CliInvStep, ConsentStep, MountInvStep, WholeInvStep DEF StableInv
<1>3. MeantInv' /\ TruthInv'
  BY CliStepMeant, CliStepTruth, OthersKeepTruth DEF CliNext, Ended
<1> QED
  BY <1>2, <1>3 DEF StableInv

\* Where disks stay plugged in, the only disk that is written is the one that
\* was picked or named, whatever the list says later (cli.c:167-190, 361-396).
THEOREM MeantHolds == HotPlug = FALSE => (CliSpec => []MeantIsWritten)
<1> SUFFICES ASSUME HotPlug = FALSE PROVE CliSpec => []MeantIsWritten
  OBVIOUS
<1>1. StableInv /\ [CliNext]_allVars => StableInv'
  BY StableStep
<1>2. StableInv => MeantIsWritten
  BY DEF StableInv, MeantInv
<1> QED
  BY <1>1, <1>2, StableInit, PTL DEF CliSpec

\* There, exit status 0 is the truth: the whole image is on the disk meant, or
\* nothing was to be written and nothing was (cli.c:300-325, 398-447).
THEOREM ExitHolds == HotPlug = FALSE => (CliSpec => []ExitTellsTruth)
<1> SUFFICES ASSUME HotPlug = FALSE PROVE CliSpec => []ExitTellsTruth
  OBVIOUS
<1>1. StableInv /\ [CliNext]_allVars => StableInv'
  BY StableStep
<1>2. StableInv => ExitTellsTruth
  BY DEF StableInv, TruthInv
<1> QED
  BY <1>1, <1>2, StableInit, PTL DEF CliSpec

=============================================================================
