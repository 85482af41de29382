--------------------------------- MODULE Cli ---------------------------------
(***************************************************************************)
(* The command line (cli.c) as a client of one write session.              *)
(*                                                                         *)
(* cli_main is one thread: it reads its options, asks for what they leave  *)
(* out, and calls the session.  Each of its steps is joined with the       *)
(* action of module Session it calls, or with no step of the session, so a *)
(* run of the command line is a run of a session.  The machine goes on     *)
(* changing in between, and the process may be killed at any point, most   *)
(* likely at a prompt.                                                     *)
(***************************************************************************)
EXTENDS Session

VARIABLES
  pc,       \* where cli_main stands
  opts,     \* the options it was called with
  isoPath,  \* iso_path
  devPath,  \* device_path
  yes,      \* the user typed YES
  meant,    \* the disk the user chose: the one shown under the name picked, or
            \* the one that had the name given as option when the program began
  status    \* "none" until the process ends: exit status 0 ("ok"), another
            \* one ("failed"), or a signal ("killed")

cliVars == <<pc, opts, isoPath, devPath, yes, meant, status>>
allVars == <<vars, cliVars>>

\* The options that matter: --help and an unknown one end the program early.
Options == [iso : ISOs \union {NoIso}, device : Names \union {NoDevice},
            list : BOOLEAN, dangerous : BOOLEAN,
            other : {"none", "help", "unknown"}]

\* Where a path is handed to the session.
HasDevice == pc \in {"lookup", "select", "confirm", "prepare", "execute",
                     "writing"}
HasImage == pc \in {"load", "askdevice", "pick"} \/ HasDevice

\* Every variable has its type; the session is given a path only once there is
\* one, and is inside execute only when cli_main waits for it (cli.c:343-396,
\* 428).
CliTypeOK ==
  /\ pc \in {"parse", "create", "list", "askiso", "load", "askdevice", "pick",
             "lookup", "select", "confirm", "prepare", "execute", "writing",
             "quit", "ended"}
  /\ opts \in Options
  /\ isoPath \in ISOs \union {NoIso}
  /\ devPath \in Names \union {NoDevice}
  /\ yes \in BOOLEAN
  /\ meant \in Disks \union {NoDisk}
  /\ status \in {"none", "ok", "failed", "killed"}
  /\ HasImage => isoPath \in ISOs
  /\ HasDevice => devPath \in Names
  /\ stage # "idle" => pc = "writing"

Given(path, none) == path # none

CliInit ==
  /\ Init
  /\ pc = "parse"
  /\ opts \in Options
  /\ isoPath = NoIso /\ devPath = NoDevice
  /\ yes = FALSE
  /\ meant = IF Given(opts.device, NoDevice) THEN at[opts.device] ELSE NoDisk
  /\ status = "none"

-----------------------------------------------------------------------------
(* The steps of cli_main.                                                  *)

\* g_interactive: cleared by --iso and by --device, whichever is given.
Interactive == ~Given(opts.iso, NoIso) /\ ~Given(opts.device, NoDevice)

From(p) == pc = p /\ UNCHANGED opts
Keeps == UNCHANGED <<isoPath, devPath, yes, meant>>
Goes(p) == pc' = p /\ UNCHANGED status

\* A return after the session was created: the exit status is set, and the
\* session is destroyed on the way out.
Leave(code) == pc' = "quit" /\ status' = code
\* A call of the session that may fail, which ends the program.
GoesUnlessError(p) ==
  \/ state' # "ERROR" /\ Goes(p)
  \/ state' = "ERROR" /\ Leave("failed")

\* The options are read to the first unknown one; help is for later.
ParseOptions ==
  /\ From("parse") /\ Keeps /\ UNCHANGED vars
  /\ \/ opts.other = "unknown" /\ pc' = "ended" /\ status' = "failed"
     \/ opts.other = "help" /\ pc' = "ended" /\ status' = "ok"
     \/ opts.other = "none" /\ Goes("create")

BothGiven == Given(opts.iso, NoIso) /\ Given(opts.device, NoDevice)

\* winafi_session_create, --list, and the two refusals before any question.
CreateSession ==
  /\ From("create") /\ Keeps /\ UNCHANGED vars
  /\ \/ pc' = "ended" /\ status' = "failed"
     \/ opts.list /\ Goes("list")
     \/ /\ ~opts.list /\ BothGiven /\ ~opts.dangerous
        /\ Leave("failed")
     \/ /\ ~opts.list /\ (BothGiven => opts.dangerous) /\ ~isRoot
        /\ Leave("failed")
     \/ /\ ~opts.list /\ (BothGiven => opts.dangerous) /\ isRoot
        /\ Goes("askiso")

\* show_devices; its result is the exit status.
ListDrives ==
  /\ From("list") /\ Keeps
  /\ EnumerateDevices
  /\ Leave(IF state' = "ERROR" THEN "failed" ELSE "ok")

\* A mutant: the end of the input is not looked at.
AskIsoUnchecked ==
  /\ From("askiso") /\ UNCHANGED <<vars, devPath, yes, meant>>
  /\ \/ Given(opts.iso, NoIso) /\ isoPath' = opts.iso
     \/ ~Given(opts.iso, NoIso) /\ isoPath' \in isoThere \union {NoIso}
  /\ Goes("load")

\* get_iso_path_interactive asks until a regular file is named or the input
\* ends.
AskIso ==
  /\ From("askiso") /\ UNCHANGED <<vars, devPath, yes, meant>>
  /\ \/ Given(opts.iso, NoIso) /\ isoPath' = opts.iso /\ Goes("load")
     \/ ~Given(opts.iso, NoIso) /\ isoPath' \in isoThere /\ Goes("load")
     \/ ~Given(opts.iso, NoIso) /\ UNCHANGED isoPath /\ Leave("failed")

LoadImage ==
  /\ From("load") /\ Keeps
  /\ LoadIso(isoPath)
  /\ GoesUnlessError("askdevice")

NothingListed == \A n \in Names : devices'[n] = NoDisk

\* A mutant: a list that is empty or cannot be read is asked for again.
AskDeviceAgain ==
  /\ From("askdevice") /\ UNCHANGED <<isoPath, yes, meant>>
  /\ \/ /\ Given(opts.device, NoDevice)
        /\ devPath' = opts.device /\ Goes("lookup")
        /\ UNCHANGED vars
     \/ /\ ~Given(opts.device, NoDevice)
        /\ EnumerateDevices /\ UNCHANGED devPath
        /\ Goes(IF state' = "ERROR" \/ NothingListed THEN "askdevice" ELSE "pick")

\* get_device_interactive up to the list it shows.
AskDevice ==
  /\ From("askdevice") /\ UNCHANGED <<isoPath, yes, meant>>
  /\ \/ /\ Given(opts.device, NoDevice)
        /\ devPath' = opts.device /\ Goes("lookup")
        /\ UNCHANGED vars
     \/ /\ ~Given(opts.device, NoDevice)
        /\ EnumerateDevices /\ UNCHANGED devPath
        /\ IF state' = "ERROR" \/ NothingListed THEN Leave("failed")
           ELSE Goes("pick")

\* A mutant: the number typed is taken without the one it starts from.
PickDeviceOffByOne ==
  /\ From("pick") /\ UNCHANGED <<vars, isoPath, yes>>
  /\ \/ \E m, n \in Names :
          /\ Listed(m) /\ meant' = devices[m]
          /\ Listed(n) /\ devPath' = n /\ (m = n => \A k \in Names : Listed(k) => k = n)
        /\ Goes("lookup")
     \/ UNCHANGED <<devPath, meant>> /\ Leave("failed")

\* The rest of it: a number or a path of the list shown, asked for until one
\* fits or the input ends.
PickDevice ==
  /\ From("pick") /\ UNCHANGED <<vars, isoPath, yes>>
  /\ \/ /\ \E n \in Names : Listed(n) /\ devPath' = n /\ meant' = devices[n]
        /\ Goes("lookup")
     \/ UNCHANGED <<devPath, meant>> /\ Leave("failed")

\* The list is read again for the size shown in the question.  Nobody looks at
\* whether that works.
LookUpCapacity ==
  /\ From("lookup") /\ Keeps
  /\ EnumerateDevices
  /\ Goes("select")

SelectTarget ==
  /\ From("select") /\ Keeps
  /\ SelectDevice(devPath)
  /\ GoesUnlessError("confirm")

\* get_confirmation, where it is asked: anything but YES ends the program well.
\* Without --dangerous even YES leads nowhere.
Asks == Interactive \/ ~opts.dangerous

\* A mutant: the answer is read and not looked at.
ConfirmAnyAnswer ==
  /\ From("confirm") /\ UNCHANGED <<vars, isoPath, devPath, meant>>
  /\ IF Asks THEN yes' \in BOOLEAN ELSE UNCHANGED yes
  /\ IF opts.dangerous THEN Goes("prepare") ELSE Leave("failed")

Confirm ==
  /\ From("confirm") /\ UNCHANGED <<vars, isoPath, devPath, meant>>
  /\ \/ Asks /\ yes' = FALSE /\ Leave("ok")
     \/ Asks /\ yes' = TRUE
        /\ IF opts.dangerous THEN Goes("prepare") ELSE Leave("failed")
     \/ ~Asks /\ UNCHANGED yes /\ Goes("prepare")

PrepareWrite ==
  /\ From("prepare") /\ Keeps
  /\ Prepare
  /\ GoesUnlessError("execute")

StartWrite ==
  /\ From("execute") /\ Keeps
  /\ ExecuteStart
  /\ Goes("writing")

\* A mutant: an error of execute is told to the user and not to the shell.
WriteStepAlwaysOk ==
  /\ From("writing") /\ Keeps
  /\ ExecuteStep
  /\ IF stage' = "idle" THEN Leave("ok") ELSE Goes("writing")

\* execute goes on; when it returns, its result is the exit status.
WriteStep ==
  /\ From("writing") /\ Keeps
  /\ ExecuteStep
  /\ IF stage' # "idle" THEN Goes("writing")
     ELSE Leave(IF state' = "COMPLETED" THEN "ok" ELSE "failed")

\* winafi_session_destroy and the return.
Quit ==
  /\ From("quit") /\ Keeps
  /\ Renew
  /\ pc' = "ended" /\ UNCHANGED status

\* A signal, Ctrl-C for one: no handler is installed.
Killed ==
  /\ pc \notin {"parse", "ended"} /\ UNCHANGED <<opts, isoPath, devPath, yes, meant>>
  /\ Crash \/ Renew
  /\ pc' = "ended" /\ status' = "killed"

\* Steps that need no answer of the user's.
Waiting ==
  \/ pc = "askiso" /\ ~Given(opts.iso, NoIso)
  \/ pc = "pick"
  \/ pc = "confirm" /\ Asks

CliStep ==
  \/ ParseOptions \/ CreateSession \/ ListDrives \/ AskIso \/ LoadImage
  \/ AskDevice \/ PickDevice \/ LookUpCapacity \/ SelectTarget \/ Confirm
  \/ PrepareWrite \/ StartWrite \/ WriteStep \/ Quit

Surroundings == Machine /\ UNCHANGED cliVars

Ended == pc = "ended" /\ UNCHANGED allVars

CliNext == CliStep \/ Killed \/ Surroundings \/ Ended

\* The program goes on when it waits for nobody, and an extraction comes to its
\* end.  The user need not answer, and nothing is asked of the machine.
CliFairness ==
  /\ WF_allVars(~Waiting /\ CliStep)
  /\ WF_allVars(WriteStep /\ ExtractEnd)

CliSpec == CliInit /\ [][CliNext]_allVars /\ CliFairness

-----------------------------------------------------------------------------
(* What the command line promises.                                         *)

\* A disk is written to only as root, with --dangerous, and after YES or by
\* somebody who gave the image or the device on the command line; never on the
\* way of --list, --help or a misspelt option (cli.c:270-303, 320-341,
\* 398-412).
ConsentFirst ==
  (\E d \in Disks : content[d] # "original") =>
    /\ isRoot /\ opts.dangerous
    /\ ~opts.list /\ opts.other = "none"
    /\ yes \/ ~Interactive

\* With the disks staying plugged in, what is written is the disk that was
\* shown under the entry picked, or had the name given, though the list is
\* read again in between (cli.c:167-190, 361-396).
MeantIsWritten == \A d \in Disks : content[d] # "original" => d = meant

\* Exit status 0 after a write means that the whole image is on the disk
\* meant, and without one that nothing was asked for or YES was withheld; then
\* no disk was touched (cli.c:300-325, 398-404,
\* 428-447).
ExitTellsTruth ==
  status = "ok" =>
    IF runs > 0
    THEN meant \in Disks /\ content[meant] \in {"extracted", "setup"}
    ELSE /\ \A d \in Disks : content[d] = "original"
         /\ opts.list \/ opts.other = "help" \/ (Asks /\ ~yes)

\* The program always comes to a question or to its end (cli.c:96-123,
\* 128-194, 414-447).
GoesOn == ~Waiting ~> Waiting \/ pc = "ended"
=============================================================================
